--------------------------- MODULE SubuListProofs ---------------------------
(***************************************************************************)
(* What the cached bounds of the list are worth: recount_subu_list         *)
(* (src/src/subcontext.cc:53-73) finds a first and a last location, for a  *)
(* list of any length, and they enclose every node.                        *)
(*                                                                         *)
(* The existence of a first and a last is an induction on the length, here *)
(* as a smallest counterexample (a non-empty set of naturals has a least   *)
(* element).                                                               *)
(***************************************************************************)
EXTENDS SubuList, TLAPS, WellFoundedInduction, SequenceTheorems

LEMMA LeastNatural ==
  ASSUME NEW T, T \subseteq Nat, T # {}
  PROVE  \E x \in T : \A y \in T : x <= y
<1>1. PICK x \in T : \A y \in T : ~ (<<y, x>> \in OpToRel(<, Nat))
  BY NatLessThanWellFounded, WFMin
<1>2. \A y \in T : ~ (y < x)
  BY <1>1 DEF OpToRel
<1> QED BY <1>2

(* LOCATION_BEFORE2 orders the locations. *)
LEMMA Before2Order ==
  /\ \A x, y \in Location : Before2(x, y) \/ Before2(y, x)
  /\ \A x, y, z \in Location : Before2(x, y) /\ Before2(y, z) => Before2(x, z)
BY DEF Before2, Location

(* A non-empty sequence of locations has a last one ... *)
LEMMA LastLocation ==
  ASSUME NEW f, NEW n \in Nat, n > 0, \A i \in 1..n : f[i] \in Location
  PROVE  \E k \in 1..n : \A i \in 1..n : Before2(f[i], f[k])
<1> DEFINE Good(m) == \E k \in 1..m : \A i \in 1..m : Before2(f[i], f[k])
           Bad == {m \in 1..n : ~ Good(m)}
<1>1. SUFFICES ASSUME Bad # {} PROVE FALSE
  OBVIOUS
<1>2. PICK m \in Bad : \A j \in Bad : m <= j
  BY <1>1, LeastNatural, Bad \subseteq Nat
<1>3. m # 1
  <2>1. Before2(f[1], f[1])
    BY Before2Order
  <2> QED BY <2>1, <1>2
<1>4. m - 1 \in 1..n /\ Good(m - 1)
  <2>1. m \in 1..n /\ m - 1 \in 1..n /\ m - 1 < m
    BY <1>2, <1>3
  <2>2. m - 1 \notin Bad
    <3>1. SUFFICES ASSUME m - 1 \in Bad PROVE FALSE
      OBVIOUS
    <3>2. m <= m - 1
      BY <1>2, <3>1
    <3> QED BY <2>1, <3>2
  <2> QED BY <2>1, <2>2
<1>5. PICK k \in 1..(m - 1) : \A i \in 1..(m - 1) : Before2(f[i], f[k])
  BY <1>4
<1>6. f[k] \in Location /\ f[m] \in Location /\ Before2(f[m], f[m])
  BY <1>2, <1>5, Before2Order
<1>7. CASE Before2(f[m], f[k])
  <2>1. \A i \in 1..m : i \in 1..(m - 1) \/ i = m
    BY <1>2
  <2> QED BY <1>2, <1>5, <1>7, <2>1
<1>8. CASE Before2(f[k], f[m])
  <2>1. \A i \in 1..m : (i \in 1..(m - 1) \/ i = m) /\ f[i] \in Location
    BY <1>2
  <2>2. \A i \in 1..m : Before2(f[i], f[m])
    BY <1>5, <1>6, <1>8, <2>1, Before2Order
  <2> QED BY <1>2, <2>2
<1> QED BY <1>6, <1>7, <1>8, Before2Order

(* ... and a first one. *)
LEMMA FirstLocation ==
  ASSUME NEW f, NEW n \in Nat, n > 0, \A i \in 1..n : f[i] \in Location
  PROVE  \E k \in 1..n : \A i \in 1..n : Before2(f[k], f[i])
<1> DEFINE Good(m) == \E k \in 1..m : \A i \in 1..m : Before2(f[k], f[i])
           Bad == {m \in 1..n : ~ Good(m)}
<1>1. SUFFICES ASSUME Bad # {} PROVE FALSE
  OBVIOUS
<1>2. PICK m \in Bad : \A j \in Bad : m <= j
  BY <1>1, LeastNatural, Bad \subseteq Nat
<1>3. m # 1
  <2>1. Before2(f[1], f[1])
    BY Before2Order
  <2> QED BY <2>1, <1>2
<1>4. m - 1 \in 1..n /\ Good(m - 1)
  <2>1. m \in 1..n /\ m - 1 \in 1..n /\ m - 1 < m
    BY <1>2, <1>3
  <2>2. m - 1 \notin Bad
    <3>1. SUFFICES ASSUME m - 1 \in Bad PROVE FALSE
      OBVIOUS
    <3>2. m <= m - 1
      BY <1>2, <3>1
    <3> QED BY <2>1, <3>2
  <2> QED BY <2>1, <2>2
<1>5. PICK k \in 1..(m - 1) : \A i \in 1..(m - 1) : Before2(f[k], f[i])
  BY <1>4
<1>6. f[k] \in Location /\ f[m] \in Location /\ Before2(f[m], f[m])
  BY <1>2, <1>5, Before2Order
<1>7. CASE Before2(f[k], f[m])
  <2>1. \A i \in 1..m : i \in 1..(m - 1) \/ i = m
    BY <1>2
  <2> QED BY <1>2, <1>5, <1>7, <2>1
<1>8. CASE Before2(f[m], f[k])
  <2>1. \A i \in 1..m : (i \in 1..(m - 1) \/ i = m) /\ f[i] \in Location
    BY <1>2
  <2>2. \A i \in 1..m : Before2(f[m], f[i])
    BY <1>5, <1>6, <1>8, <2>1, Before2Order
  <2> QED BY <1>2, <2>2
<1> QED BY <1>6, <1>7, <1>8, Before2Order

-----------------------------------------------------------------------------
(* Sequences without one element, as remove_subu_elem leaves them. *)
Cut(s, i) == SubSeq(s, 1, i - 1) \o SubSeq(s, i + 1, Len(s))

LEMMA CutProperties ==
  ASSUME NEW S, NEW s \in Seq(S), NEW i \in DOMAIN s
  PROVE  /\ Cut(s, i) \in Seq(S)
         /\ Len(Cut(s, i)) = Len(s) - 1
         /\ \A j \in 1..(Len(s) - 1) :
              Cut(s, i)[j] = IF j < i THEN s[j] ELSE s[j + 1]
<1> DEFINE a == SubSeq(s, 1, i - 1)
           b == SubSeq(s, i + 1, Len(s))
<1>0. Len(s) \in Nat /\ i \in 1..Len(s) /\ \A j \in 1..Len(s) : s[j] \in S
  BY ElementOfSeq
<1>1. /\ a \in Seq(S) /\ Len(a) = i - 1
      /\ \A j \in 1..(i - 1) : a[j] = s[j]
  BY <1>0, SubSeqProperties
<1>2. /\ b \in Seq(S) /\ Len(b) = Len(s) - i
      /\ \A j \in 1..(Len(s) - i) : b[j] = s[i + j]
  <2>1. /\ b \in Seq(S)
        /\ Len(b) = IF i + 1 <= Len(s) THEN Len(s) - (i + 1) + 1 ELSE 0
        /\ \A j \in 1..(Len(s) - (i + 1) + 1) : b[j] = s[(i + 1) + j - 1]
    BY <1>0, SubSeqProperties
  <2>2. Len(s) - (i + 1) + 1 = Len(s) - i
    BY <1>0
  <2>3. Len(b) = Len(s) - i
    BY <1>0, <2>1
  <2>4. \A j \in 1..(Len(s) - i) : (i + 1) + j - 1 = i + j
    BY <1>0
  <2> QED BY <2>1, <2>2, <2>3, <2>4
<1>3. Cut(s, i) = a \o b
  BY DEF Cut
<1> HIDE DEF a, b
<1>4. /\ a \o b \in Seq(S) /\ Len(a \o b) = Len(a) + Len(b)
      /\ \A j \in 1..(Len(a) + Len(b)) :
           (a \o b)[j] = IF j <= Len(a) THEN a[j] ELSE b[j - Len(a)]
  BY <1>1, <1>2, ConcatProperties
<1>5. Len(a) + Len(b) = Len(s) - 1
  BY <1>0, <1>1, <1>2
<1>6. ASSUME NEW j \in 1..(Len(s) - 1)
      PROVE  (a \o b)[j] = IF j < i THEN s[j] ELSE s[j + 1]
  <2>1. CASE j < i
    BY <2>1, <1>0, <1>1, <1>4, <1>5
  <2>2. CASE ~ (j < i)
    <3>1. j - Len(a) \in 1..(Len(s) - i) /\ i + (j - Len(a)) = j + 1
      BY <2>2, <1>0, <1>1
    <3>2. b[j - Len(a)] = s[j + 1]
      BY <3>1, <1>2
    <3>3. ~ (j <= Len(a)) /\ j \in 1..(Len(a) + Len(b))
      BY <2>2, <1>0, <1>1, <1>5
    <3> QED BY <2>2, <3>2, <3>3, <1>4
  <2> QED BY <2>1, <2>2
<1> QED BY <1>3, <1>4, <1>5, <1>6

(* Removing a record: those behind it move up ... *)
LEMMA RemoveShifts ==
  ASSUME NEW S, NEW l, l.head \in Seq(S), NEW i \in DOMAIN l.head
  PROVE  /\ DOMAIN RemoveElem(l, i).head = 1..(Len(l.head) - 1)
         /\ \A j \in 1..(Len(l.head) - 1) :
              RemoveElem(l, i).head[j]
                = IF j < i THEN l.head[j] ELSE l.head[j + 1]
<1> DEFINE h == l.head
           c == Cut(h, i)
<1>0. Len(h) \in Nat
  OBVIOUS
<1>1. /\ c \in Seq(S) /\ Len(c) = Len(h) - 1
      /\ \A j \in 1..(Len(h) - 1) : c[j] = IF j < i THEN h[j] ELSE h[j + 1]
  BY CutProperties
<1>2. RemoveElem(l, i) = Recount(c) /\ Recount(c).head = c
  BY DEF RemoveElem, Recount, Cut
<1> HIDE DEF c
<1> QED BY <1>0, <1>1, <1>2

(* ... they all stay ... *)
LEMMA RecordsStay ==
  ASSUME NEW S, NEW l, l.head \in Seq(S), NEW i \in DOMAIN l.head,
         NEW j \in DOMAIN RemoveElem(l, i).head
  PROVE  \E k \in DOMAIN l.head : RemoveElem(l, i).head[j] = l.head[k]
<1> DEFINE h == l.head
           c == Cut(h, i)
<1>0. Len(h) \in Nat /\ DOMAIN h = 1..Len(h)
  OBVIOUS
<1>1. /\ c \in Seq(S) /\ Len(c) = Len(h) - 1
      /\ \A m \in 1..(Len(h) - 1) : c[m] = IF m < i THEN h[m] ELSE h[m + 1]
  BY CutProperties
<1>2. RemoveElem(l, i).head = c
  BY DEF RemoveElem, Recount, Cut
<1> HIDE DEF c
<1>3. j \in 1..(Len(h) - 1)
  BY <1>1, <1>2
<1>4. j \in DOMAIN h /\ j + 1 \in DOMAIN h
  BY <1>0, <1>3
<1> QED BY <1>1, <1>2, <1>3, <1>4

(* ... and they are records. *)
LEMMA RemoveIs ==
  ASSUME NEW Names, NEW l, l.head \in Seq(Node(Names)), NEW i \in DOMAIN l.head
  PROVE  /\ RemoveElem(l, i).head \in Seq(Node(Names))
         /\ RemoveElem(l, i) = Recount(RemoveElem(l, i).head)
<1> DEFINE c == Cut(l.head, i)
<1>1. c \in Seq(Node(Names))
  BY CutProperties
<1>2. RemoveElem(l, i) = Recount(c) /\ Recount(c).head = c
  BY DEF RemoveElem, Recount, Cut
<1> QED BY <1>1, <1>2

-----------------------------------------------------------------------------
(* The cached bounds enclose every node. *)
LEMMA BoundsEnclose ==
  ASSUME NEW Names, NEW head \in Seq(Node(Names)), NEW i \in DOMAIN head
  PROVE  /\ head[i].loc \in Location
         /\ Recount(head).start \in Location /\ Recount(head).end \in Location
         /\ Before(Recount(head).start, head[i].loc)
         /\ Before(head[i].loc, Recount(head).end)
         /\ Before2(Recount(head).start, head[i].loc)
         /\ \E j \in DOMAIN head : Recount(head).start = head[j].loc
<1> DEFINE locs == {head[j].loc : j \in DOMAIN head}
           f == [j \in 1..Len(head) |-> head[j].loc]
<1>1. /\ Len(head) \in Nat /\ Len(head) > 0 /\ DOMAIN head = 1..Len(head)
      /\ \A j \in 1..Len(head) : head[j].loc \in Location
  <2>1. Len(head) \in Nat /\ DOMAIN head = 1..Len(head)
    OBVIOUS
  <2>2. \A j \in 1..Len(head) : head[j] \in Node(Names)
    OBVIOUS
  <2>3. Len(head) > 0
    BY <2>1
  <2> QED BY <2>1, <2>2, <2>3 DEF Node
<1>2. \A j \in 1..Len(head) : f[j] = head[j].loc
  OBVIOUS
<1>3. \A j \in 1..Len(head) : f[j] \in Location
  BY <1>1, <1>2
<1> HIDE DEF f
<1>4. \E k \in 1..Len(head) : \A j \in 1..Len(head) : Before2(f[k], f[j])
  BY <1>1, <1>3, FirstLocation
<1>5. \E k \in 1..Len(head) : \A j \in 1..Len(head) : Before2(f[j], f[k])
  BY <1>1, <1>3, LastLocation
<1>6. \E l \in locs : \A k \in locs : Before2(l, k)
  BY <1>1, <1>2, <1>4
<1>7. \E l \in locs : \A k \in locs : Before2(k, l)
  BY <1>1, <1>2, <1>5
<1>8. locs \subseteq Location /\ locs # {} /\ head[i].loc \in locs
  BY <1>1
<1>9. /\ Recount(head).start = CHOOSE l \in locs : \A k \in locs : Before2(l, k)
      /\ Recount(head).end = CHOOSE l \in locs : \A k \in locs : Before2(k, l)
  BY <1>8 DEF Recount
<1> HIDE DEF locs
<1>10. /\ Recount(head).start \in locs
       /\ Before2(Recount(head).start, head[i].loc)
  BY <1>6, <1>8, <1>9
<1>11. /\ Recount(head).end \in locs
       /\ Before2(head[i].loc, Recount(head).end)
  BY <1>7, <1>8, <1>9
<1>12. \E j \in DOMAIN head : Recount(head).start = head[j].loc
  BY <1>10 DEF locs
<1> QED BY <1>8, <1>10, <1>11, <1>12 DEF Before2, Before, Location

(* The filter of check_usage (src/src/ast.cc:243-244) on the bounds passes *)
(* every expression for which the list has a record.                       *)
THEOREM FilterPasses ==
  ASSUME NEW Names, NEW head \in Seq(Node(Names)),
         NEW loc \in Location, NEW finish \in Location,
         \/ GetElem(Recount(head), loc) # {}
         \/ GetElem2(Recount(head), loc, finish) # {}
  PROVE  ValidBounds(Recount(head), loc, finish)
           \/ LocInBound(Recount(head), loc)
<1>1. Recount(head).head = head
  BY DEF Recount
<1>2. PICK i \in DOMAIN head :
        \/ Approx(head[i].loc, loc)
        \/ Before(loc, head[i].loc) /\ After(finish, head[i].loc)
  BY <1>1 DEF GetElem, GetElem2, FirstElem
<1>3. /\ head[i].loc \in Location
      /\ Recount(head).start \in Location /\ Recount(head).end \in Location
      /\ Before(Recount(head).start, head[i].loc)
      /\ Before(head[i].loc, Recount(head).end)
  BY <1>2, BoundsEnclose
<1> QED BY <1>2, <1>3
        DEF ValidBounds, LocInBound, Approx, Before, After, Location

=============================================================================
