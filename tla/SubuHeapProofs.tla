--------------------------- MODULE SubuHeapProofs ---------------------------
(***************************************************************************)
(* The loops of src/src/subcontext.cc over pointers are right whatever the *)
(* list, its length and the memory: no freed node is used, none is lost,   *)
(* and each function does to the list what SubuList says it does.          *)
(*                                                                         *)
(* The invariant is about the order of the nodes: the pointers lead        *)
(* through some sequence of distinct nodes, which are the nodes allocated, *)
(* and the pointer of the loop that runs is to one of its places.          *)
(***************************************************************************)
EXTENDS SubuHeap, SubuListProofs, SequenceTheorems, FiniteSetTheorems

Distinct(s) == \A i, j \in DOMAIN s : s[i] = s[j] => i = j

Reports(n, start) == start = MAX_LOCATION_T \/ Before2(n.loc, start)

(* recount_subu_list has counted k of the values. *)
Counted(v, k) ==
  /\ acc.i = k
  /\ k = 0 => acc.s = MAX_LOCATION_T /\ acc.e = NoLocation
  /\ k > 0 => /\ \E j \in 1..k : acc.s = v[j].loc
              /\ \E j \in 1..k : acc.e = v[j].loc
              /\ \A j \in 1..k : Before2(acc.s, v[j].loc) /\ Before2(v[j].loc, acc.e)

(* The fields that recount_subu_list has cached are those of v. *)
Cached(v) ==
  /\ mods.start = Recount(v).start
  /\ mods.end = Recount(v).end
  /\ mods.count = Recount(v).count

(* The nodes, when s is their order. *)
Structure(s) ==
  /\ s \in Seq(Addresses) /\ Distinct(s)
  /\ Linked(IF pc \in {"clear", "delete"} THEN it
            ELSE IF mods = NULL THEN NULL ELSE mods.head, s)
  /\ Allocated = IF pc = "add" THEN Range(s) \cup {arg} ELSE Range(s)
  /\ mods = NULL => pc = "idle"

(* The places of the pointers of the loop that runs. *)
Places(s) ==
  /\ pc = "add" => arg \in Allocated \ Range(s) /\ \E k \in DOMAIN s : it = s[k]
  /\ pc = "remove" => \E j, k \in DOMAIN s :
                        k < j /\ arg = s[j] /\ prev = s[k] /\ it = s[k + 1]
  /\ pc = "recount" => \E k \in 0..Len(s) :
                         it = NodeAt(s, k + 1) /\ Counted(Values(s), k)
  /\ pc = "check" => \E k \in 0..Len(s) :
                       /\ it = NodeAt(s, k + 1)
                       /\ acc = 0 <=> \A j \in 1..k : ~ Reports(Values(s)[j], arg)

(* The values of the nodes, and those the list had when the function was   *)
(* called.                                                                 *)
Meaning(s) ==
  /\ pc = "idle" /\ mods # NULL => Cached(Values(s))
  /\ pc # "idle" => before.head \in Seq(Records) /\ before = Recount(before.head)
  /\ pc \in {"add", "remove", "check"} =>
       Values(s) = before.head /\ Cached(before.head)
  /\ pc = "recount" =>
       \/ \E n \in Records : Values(s) = Append(before.head, n)
       \/ \E i \in DOMAIN before.head : Values(s) = Cut(before.head, i)
  /\ pc = "clear" => Reported(before, arg) # {}
  /\ pc \in {"check", "clear"} => cleanup \/ arg \in Starts
  /\ pc = "delete" => cleanup

Shape(s) == Structure(s) /\ Places(s) /\ Meaning(s)

IInv == TypeOK /\ NoFault /\ \E s \in Orders : Shape(s)

-----------------------------------------------------------------------------
(* Locations. *)

(* What recount_subu_list finds is what Recount says: two locations that   *)
(* are both before each other are the same.                                *)
LEMMA RecountBounds ==
  ASSUME NEW v \in Seq(Records), v # <<>>,
         NEW lo, NEW hi,
         \E j \in DOMAIN v : lo = v[j].loc,
         \E j \in DOMAIN v : hi = v[j].loc,
         \A j \in DOMAIN v : Before2(lo, v[j].loc) /\ Before2(v[j].loc, hi)
  PROVE  Recount(v) = [head |-> v, start |-> lo, end |-> hi, count |-> Len(v)]
<1> DEFINE locs == {v[i].loc : i \in DOMAIN v}
<1>1. locs \subseteq Location
  <2>1. \A i \in DOMAIN v : v[i] \in Records
    BY ElementOfSeq
  <2> QED BY <2>1, RecordsAssumption
<1>2. lo \in locs /\ hi \in locs /\ \A l \in locs : Before2(lo, l) /\ Before2(l, hi)
  OBVIOUS
<1>3. Recount(v) =
        [head |-> v,
         start |-> CHOOSE l \in locs : \A k \in locs : Before2(l, k),
         end |-> CHOOSE l \in locs : \A k \in locs : Before2(k, l),
         count |-> Len(v)]
  BY <1>2 DEF Recount
<1> HIDE DEF locs
<1>4. \A x, y \in Location : Before2(x, y) /\ Before2(y, x) => x = y
  BY DEF Before2, Location
<1>5. (CHOOSE l \in locs : \A k \in locs : Before2(l, k)) = lo
  <2> DEFINE l == CHOOSE l \in locs : \A k \in locs : Before2(l, k)
  <2>1. l \in locs /\ \A k \in locs : Before2(l, k)
    BY <1>2
  <2> QED BY <2>1, <1>1, <1>2, <1>4
<1>6. (CHOOSE l \in locs : \A k \in locs : Before2(k, l)) = hi
  <2> DEFINE l == CHOOSE l \in locs : \A k \in locs : Before2(k, l)
  <2>1. l \in locs /\ \A k \in locs : Before2(k, l)
    BY <1>2
  <2> QED BY <2>1, <1>1, <1>2, <1>4
<1> QED BY <1>3, <1>5, <1>6

LEMMA RecountEmpty ==
  Recount(<<>>) = [head |-> <<>>, start |-> NoLocation, end |-> NoLocation, count |-> 0]
BY DEF Recount

LEMMA RecountType ==
  ASSUME NEW v \in Seq(Records)
  PROVE  Recount(v) \in ListOf(Seq(Records)) /\ Recount(v).head = v
<1>1. CASE v = <<>>
  <2>1. NoLocation \in Location
    BY DEF Location, NoLocation
  <2>2. Recount(v) = [head |-> v, start |-> NoLocation, end |-> NoLocation, count |-> 0]
    BY <1>1, RecountEmpty
  <2> QED BY <2>1, <2>2 DEF ListOf
<1>2. CASE v # <<>>
  <2>0. Len(v) \in Nat /\ Len(v) > 0 /\ DOMAIN v = 1..Len(v)
    BY <1>2, EmptySeq, LenProperties
  <2>1. \A i \in 1..Len(v) : v[i].loc \in Location
    BY ElementOfSeq, RecordsAssumption
  <2> DEFINE f == [i \in 1..Len(v) |-> v[i].loc]
  <2>2. \A i \in 1..Len(v) : f[i] = v[i].loc /\ f[i] \in Location
    BY <2>1
  <2> HIDE DEF f
  <2>3. PICK k \in 1..Len(v) : \A i \in 1..Len(v) : Before2(f[k], f[i])
    BY <2>0, <2>2, FirstLocation
  <2>4. PICK m \in 1..Len(v) : \A i \in 1..Len(v) : Before2(f[i], f[m])
    BY <2>0, <2>2, LastLocation
  <2>5. Recount(v) = [head |-> v, start |-> v[k].loc, end |-> v[m].loc, count |-> Len(v)]
    BY <1>2, <2>0, <2>2, <2>3, <2>4, RecountBounds
  <2> QED BY <2>0, <2>1, <2>5 DEF ListOf
<1> QED BY <1>1, <1>2

-----------------------------------------------------------------------------
(* Orders of nodes. *)

(* There are no more nodes than addresses. *)
LEMMA InOrders ==
  ASSUME NEW s \in Seq(Addresses), Distinct(s)
  PROVE  s \in Orders
<1> DEFINE n == Len(s)
           c == Cardinality(Addresses)
<1>1. n \in Nat /\ s \in [1..n -> Addresses] /\ DOMAIN s = 1..n
  BY LenProperties
<1>2. s \in Injection(1..n, Addresses)
  BY <1>1 DEF Distinct, Injection, IsInjective
<1>3. Cardinality(1..n) <= c
  BY <1>2, AddressesAssumption, FS_Injection
<1>4. Cardinality(1..n) = n
  BY <1>1, FS_Interval
<1>5. c \in Nat
  BY AddressesAssumption, FS_CardinalityType
<1>6. n \in 0..c
  BY <1>1, <1>3, <1>4, <1>5
<1> HIDE DEF n, c
<1>7. s \in UNION {[1..m -> Addresses] : m \in 0..c}
  BY <1>1, <1>6
<1> QED BY <1>7 DEF Orders, SeqOf, c

LEMMA OrdersType ==
  ASSUME NEW s \in Orders
  PROVE  s \in Seq(Addresses)
<1>1. Cardinality(Addresses) \in Nat
  BY AddressesAssumption, FS_CardinalityType
<1>2. PICK m \in 0..Cardinality(Addresses) : s \in [1..m -> Addresses]
  BY DEF Orders, SeqOf
<1> QED BY <1>1, <1>2

(* The pointers say what the order is. *)
LEMMA OneOrder ==
  ASSUME NEW a, NEW s \in Seq(Addresses), NEW t \in Seq(Addresses),
         Linked(a, s), Linked(a, t)
  PROVE  s = t
<1> DEFINE Differ == {i \in Nat \ {0} : NodeAt(s, i) # NodeAt(t, i)}
<1>0. /\ Len(s) \in Nat /\ DOMAIN s = 1..Len(s)
      /\ Len(t) \in Nat /\ DOMAIN t = 1..Len(t)
      /\ \A i \in DOMAIN s : s[i] \in Addresses
      /\ \A i \in DOMAIN t : t[i] \in Addresses
  BY LenProperties, ElementOfSeq
<1>1. Differ = {}
  <2>1. SUFFICES ASSUME Differ # {} PROVE FALSE
    OBVIOUS
  <2>2. PICK i \in Differ : \A j \in Differ : i <= j
    BY <2>1, LeastNatural, Differ \subseteq Nat
  <2>3. i # 1
    BY <2>2 DEF Linked
  <2>4. i - 1 \in Nat \ {0} /\ i - 1 \notin Differ
    BY <2>2, <2>3
  <2>5. NodeAt(s, i - 1) = NodeAt(t, i - 1)
    BY <2>4
  <2>6. CASE i - 1 \in DOMAIN s
    <3>1. i - 1 \in DOMAIN t /\ s[i - 1] = t[i - 1]
      BY <2>5, <2>6, <1>0, NullAssumption DEF NodeAt
    <3>2. /\ heap[s[i - 1]].next = NodeAt(s, (i - 1) + 1)
          /\ heap[t[i - 1]].next = NodeAt(t, (i - 1) + 1)
      BY <2>6, <3>1 DEF Linked
    <3>3. (i - 1) + 1 = i
      BY <2>2
    <3> QED BY <2>2, <3>1, <3>2, <3>3
  <2>7. CASE i - 1 \notin DOMAIN s
    <3>1. i - 1 \notin DOMAIN t
      BY <2>5, <2>7, <1>0, NullAssumption DEF NodeAt
    <3>2. i \notin DOMAIN s /\ i \notin DOMAIN t
      BY <2>2, <2>4, <2>7, <3>1, <1>0
    <3> QED BY <2>2, <3>2 DEF NodeAt
  <2> QED BY <2>6, <2>7
<1>2. \A i \in Nat \ {0} : NodeAt(s, i) = NodeAt(t, i)
  BY <1>1
<1> HIDE DEF Differ
<1>3. \A i \in Nat \ {0} : (i \in DOMAIN s <=> i \in DOMAIN t)
  BY <1>0, <1>2, NullAssumption DEF NodeAt
<1>4. Len(s) = Len(t)
  <2> DEFINE m == Len(s)
             n == Len(t)
  <2>1. m \in Nat /\ n \in Nat /\ \A i \in Nat \ {0} : i \in 1..m <=> i \in 1..n
    BY <1>0, <1>3
  <2> HIDE DEF m, n
  <2>2. ~ (m > n)
    <3>1. SUFFICES ASSUME m > n PROVE FALSE
      OBVIOUS
    <3>2. m \in Nat \ {0} /\ m \in 1..m /\ m \notin 1..n
      BY <2>1, <3>1
    <3> QED BY <2>1, <3>2
  <2>3. ~ (n > m)
    <3>1. SUFFICES ASSUME n > m PROVE FALSE
      OBVIOUS
    <3>2. n \in Nat \ {0} /\ n \in 1..n /\ n \notin 1..m
      BY <2>1, <3>1
    <3> QED BY <2>1, <3>2
  <2>4. m = n
    BY <2>1, <2>2, <2>3
  <2> QED BY <2>4 DEF m, n
<1>5. \A i \in 1..Len(s) : s[i] = t[i]
  BY <1>0, <1>2, <1>4 DEF NodeAt
<1> QED BY <1>4, <1>5, SeqEqual

LEMMA ChainIs ==
  ASSUME NEW a, NEW s \in Seq(Addresses), Distinct(s), Linked(a, s)
  PROVE  Chain(a) = s
<1>1. s \in Orders
  BY InOrders
<1>2. Chain(a) \in Orders /\ Linked(a, Chain(a))
  BY <1>1 DEF Chain
<1>3. Chain(a) \in Seq(Addresses)
  BY <1>2, OrdersType
<1> QED BY <1>2, <1>3, OneOrder
-----------------------------------------------------------------------------
(* Nodes, and the order after a change. *)

LEMMA NodeType ==
  ASSUME TypeOK
  PROVE  /\ \A a \in Allocated : /\ a \in Addresses /\ a # NULL
                                 /\ heap[a] \in SubuNode
                                 /\ heap[a].val \in Records
                                 /\ heap[a].next \in Addresses \cup {NULL}
         /\ heap \in [Addresses -> SubuNode \cup {NULL}]
         /\ \A n \in SubuNode : n # NULL
BY NullAssumption DEF TypeOK, Allocated, SubuNode

(* The values of allocated nodes. *)
LEMMA ValuesType ==
  ASSUME TypeOK, NEW s \in Seq(Addresses), Range(s) \subseteq Allocated
  PROVE  /\ Values(s) \in Seq(Records)
         /\ Len(Values(s)) = Len(s)
         /\ DOMAIN Values(s) = DOMAIN s
         /\ \A i \in DOMAIN s : Values(s)[i] = heap[s[i]].val
<1>1. Len(s) \in Nat /\ DOMAIN s = 1..Len(s)
  BY LenProperties
<1>2. \A i \in DOMAIN s : heap[s[i]].val \in Records
  BY NodeType DEF Range
<1>3. Values(s) = [i \in 1..Len(s) |-> heap[s[i]].val]
  BY <1>1 DEF Values
<1>4. Values(s) \in Seq(Records)
  BY <1>1, <1>2, <1>3
<1> QED BY <1>1, <1>3, <1>4

(* A node is put behind the last. *)
LEMMA Appended ==
  ASSUME TypeOK, NEW s \in Seq(Addresses), Distinct(s), NEW h, Linked(h, s),
         NEW a \in Addresses \ Range(s),
         heap'[a] # NULL, heap'[a].next = NULL,
         \A i \in DOMAIN s :
           /\ heap'[s[i]] # NULL
           /\ heap'[s[i]].val = heap[s[i]].val
           /\ heap'[s[i]].next = IF i = Len(s) THEN a ELSE heap[s[i]].next
  PROVE  /\ Append(s, a) \in Seq(Addresses) /\ Distinct(Append(s, a))
         /\ Linked(IF s = <<>> THEN a ELSE h, Append(s, a))'
         /\ Range(Append(s, a)) = Range(s) \cup {a}
         /\ Values(Append(s, a))' = Append(Values(s), heap'[a].val)
<1> DEFINE t == Append(s, a)
           n == Len(s)
<1>1. n \in Nat /\ DOMAIN s = 1..n /\ \A i \in 1..n : s[i] \in Addresses
  BY LenProperties, ElementOfSeq
<1>2. /\ t \in Seq(Addresses) /\ Len(t) = n + 1
      /\ \A i \in 1..n : t[i] = s[i]
      /\ t[n + 1] = a
  BY AppendProperties
<1>3. DOMAIN t = 1..(n + 1)
  BY <1>2, LenProperties
<1> HIDE DEF t
<1>4. \A i \in 1..(n + 1) : i \in 1..n \/ i = n + 1
  BY <1>1
<1>5. \A i \in 1..n : s[i] # a
  BY <1>1 DEF Range
<1>6. Distinct(t)
  BY <1>1, <1>2, <1>3, <1>4, <1>5 DEF Distinct
<1>7. Range(t) = Range(s) \cup {a}
  <2>1. \A x : x \in Range(t) <=> \E i \in 1..(n + 1) : x = t[i]
    BY <1>3 DEF Range
  <2>2. \A x : x \in Range(s) <=> \E i \in 1..n : x = s[i]
    BY <1>1 DEF Range
  <2>3. n + 1 \in 1..(n + 1) /\ \A i \in 1..n : i \in 1..(n + 1)
    BY <1>1
  <2> QED BY <2>1, <2>2, <2>3, <1>2, <1>4
<1>8. (IF s = <<>> THEN a ELSE h) = NodeAt(t, 1)
  <2>1. CASE s = <<>>
    <3>1. n = 0
      BY <2>1
    <3> QED BY <2>1, <3>1, <1>2, <1>3 DEF NodeAt
  <2>2. CASE s # <<>>
    <3>1. n > 0
      BY <2>2, <1>1, EmptySeq
    <3> QED BY <2>2, <3>1, <1>1, <1>2, <1>3 DEF NodeAt, Linked
  <2> QED BY <2>1, <2>2
<1>9. ASSUME NEW i \in 1..(n + 1)
      PROVE  t[i] \in Allocated' /\ heap'[t[i]].next = NodeAt(t, i + 1)
  <2>1. CASE i = n + 1
    <3>1. i + 1 \notin 1..(n + 1)
      BY <2>1, <1>1
    <3> QED BY <2>1, <3>1, <1>2, <1>3 DEF NodeAt, Allocated
  <2>2. CASE i = n /\ i \in 1..n
    <3>1. i + 1 = n + 1 /\ i + 1 \in 1..(n + 1)
      BY <2>2, <1>1
    <3>2. NodeAt(t, i + 1) = a
      BY <3>1, <1>2, <1>3 DEF NodeAt
    <3> QED BY <2>2, <3>2, <1>1, <1>2 DEF Allocated
  <2>3. CASE i # n /\ i \in 1..n
    <3>0. n \in Nat
      BY <1>1
    <3> HIDE DEF n
    <3>1. i + 1 \in 1..n /\ i + 1 \in 1..(n + 1)
      BY <2>3, <3>0
    <3>2. heap[s[i]].next = s[i + 1]
      BY <2>3, <3>1, <1>1 DEF Linked, NodeAt
    <3>3. NodeAt(t, i + 1) = s[i + 1]
      BY <3>1, <1>2, <1>3 DEF NodeAt
    <3> QED BY <2>3, <3>2, <3>3, <1>1, <1>2 DEF Allocated
  <2> QED BY <2>1, <2>2, <2>3, <1>4
<1>10. Linked(IF s = <<>> THEN a ELSE h, t)'
  BY <1>3, <1>8, <1>9 DEF Linked
<1>11. Values(t)' = Append(Values(s), heap'[a].val)
  <2> DEFINE v == heap'[a].val
             S == Range(Values(s)) \cup {v}
  <2>1. Values(s) = [i \in 1..n |-> heap[s[i]].val]
    BY <1>1 DEF Values
  <2>2. Values(t)' = [i \in 1..(n + 1) |-> heap'[t[i]].val]
    BY <1>3 DEF Values
  <2>3. Append(Values(s), v) = [i \in 1..(n + 1) |-> IF i = n + 1 THEN v ELSE Values(s)[i]]
    BY <1>1, <2>1
  <2>4. ASSUME NEW i \in 1..(n + 1)
        PROVE  heap'[t[i]].val = IF i = n + 1 THEN v ELSE Values(s)[i]
    <3>1. CASE i = n + 1
      BY <3>1, <1>2
    <3>2. CASE i \in 1..n
      <4>1. i # n + 1
        BY <3>2, <1>1
      <4> QED BY <4>1, <3>2, <2>1, <1>1, <1>2
    <3> QED BY <3>1, <3>2, <1>4
  <2> QED BY <2>2, <2>3, <2>4
<1> QED BY <1>2, <1>6, <1>7, <1>10, <1>11 DEF t

(* A node is unlinked. *)
LEMMA Unlinked ==
  ASSUME TypeOK, NEW s \in Seq(Addresses), Distinct(s), NEW h, Linked(h, s),
         NEW j \in DOMAIN s,
         NEW g, g = IF j = 1 THEN heap[s[j]].next ELSE h,
         \A i \in DOMAIN s : i # j =>
           /\ heap'[s[i]] # NULL
           /\ heap'[s[i]].val = heap[s[i]].val
           /\ heap'[s[i]].next = IF i = j - 1 THEN heap[s[j]].next
                                 ELSE heap[s[i]].next
  PROVE  /\ Cut(s, j) \in Seq(Addresses) /\ Distinct(Cut(s, j))
         /\ Linked(g, Cut(s, j))'
         /\ Range(Cut(s, j)) = Range(s) \ {s[j]}
         /\ Values(Cut(s, j))' = Cut(Values(s), j)
<1> DEFINE t == Cut(s, j)
           n == Len(s)
<1>1. n \in Nat /\ DOMAIN s = 1..n /\ \A i \in 1..n : s[i] \in Addresses
  BY LenProperties, ElementOfSeq
<1>2. t \in Seq(Addresses) /\ Len(t) = n - 1
  BY CutProperties
<1>3. DOMAIN t = 1..(n - 1)
  BY <1>2, LenProperties
<1>4. \A i \in 1..(n - 1) : t[i] = IF i < j THEN s[i] ELSE s[i + 1]
  BY CutProperties
<1>a. n \in Nat /\ j \in 1..n
  BY <1>1
<1> HIDE DEF t, n
<1>5. \A i \in 1..(n - 1) : i \in 1..n /\ i + 1 \in 1..n
  BY <1>a
<1>6. ASSUME NEW i \in Nat \ {0}
      PROVE  NodeAt(t, i) = IF i < j THEN s[i] ELSE NodeAt(s, i + 1)
  <2>1. CASE i < j
    <3>1. i \in 1..(n - 1)
      BY <2>1, <1>a
    <3> QED BY <2>1, <3>1, <1>3, <1>4 DEF NodeAt
  <2>2. CASE ~ (i < j) /\ i <= n - 1
    <3>1. i \in 1..(n - 1) /\ i + 1 \in 1..n
      BY <2>2, <1>a
    <3> QED BY <2>2, <3>1, <1>1, <1>3, <1>4 DEF NodeAt
  <2>3. CASE ~ (i < j) /\ ~ (i <= n - 1)
    <3>1. i \notin 1..(n - 1) /\ i + 1 \notin 1..n
      BY <2>3, <1>a
    <3> QED BY <2>3, <3>1, <1>1, <1>3 DEF NodeAt
  <2> QED BY <2>1, <2>2, <2>3
<1>7. Distinct(t)
  <2> SUFFICES ASSUME NEW i \in 1..(n - 1), NEW k \in 1..(n - 1), t[i] = t[k]
               PROVE  i = k
    BY <1>3 DEF Distinct
  <2> DEFINE p == IF i < j THEN i ELSE i + 1
             q == IF k < j THEN k ELSE k + 1
  <2>1. t[i] = s[p] /\ t[k] = s[q] /\ p \in 1..n /\ q \in 1..n
    BY <1>4, <1>5
  <2>2. p = q
    BY <2>1, <1>1 DEF Distinct
  <2> QED BY <2>2, <1>a
<1>8. Range(t) = Range(s) \ {s[j]}
  <2>1. ASSUME NEW x \in Range(t) PROVE x \in Range(s) /\ x # s[j]
    <3>1. PICK i \in 1..(n - 1) : x = t[i]
      BY <1>3 DEF Range
    <3>2. PICK p \in 1..n : x = s[p] /\ p # j
      <4>1. CASE i < j
        BY <4>1, <3>1, <1>4, <1>5, <1>a
      <4>2. CASE ~ (i < j)
        <5>1. i + 1 # j
          BY <4>2, <1>a
        <5> QED BY <4>2, <5>1, <3>1, <1>4, <1>5
      <4> QED BY <4>1, <4>2
    <3>3. p \in DOMAIN s
      BY <3>2, <1>1
    <3> QED BY <3>2, <3>3 DEF Range, Distinct
  <2>2. ASSUME NEW x \in Range(s), x # s[j] PROVE x \in Range(t)
    <3>1. PICK p \in 1..n : x = s[p] /\ p # j
      BY <2>2, <1>1 DEF Range
    <3>2. CASE p < j
      <4>1. p \in 1..(n - 1)
        BY <3>2, <1>a
      <4> QED BY <4>1, <3>1, <3>2, <1>3, <1>4 DEF Range
    <3>3. CASE p > j
      <4>1. p - 1 \in 1..(n - 1) /\ ~ (p - 1 < j) /\ (p - 1) + 1 = p
        BY <3>3, <1>a
      <4>2. t[p - 1] = x
        BY <4>1, <3>1, <1>4
      <4> QED BY <4>1, <4>2, <1>3 DEF Range
    <3> QED BY <3>1, <3>2, <3>3, <1>a
  <2> QED BY <2>1, <2>2
<1>9. g = NodeAt(t, 1)
  <2>1. CASE j = 1
    <3>1. heap[s[j]].next = NodeAt(s, 1 + 1)
      BY <2>1 DEF Linked
    <3> QED BY <2>1, <3>1, <1>6
  <2>2. CASE j # 1
    <3>1. 1 < j /\ 1 \in 1..n
      BY <2>2, <1>a
    <3> QED BY <2>2, <3>1, <1>1, <1>6 DEF Linked, NodeAt
  <2> QED BY <2>1, <2>2
<1>10. ASSUME NEW i \in 1..(n - 1)
       PROVE  t[i] \in Allocated' /\ heap'[t[i]].next = NodeAt(t, i + 1)
  <2>0. \A k \in 1..n : s[k] \in Addresses /\ heap[s[k]].next = NodeAt(s, k + 1)
    BY <1>1 DEF Linked
  <2>1. CASE i < j
    <3>1. i \in 1..n /\ i # j /\ t[i] = s[i]
      BY <2>1, <1>4, <1>5, <1>a
    <3>2. CASE i = j - 1
      <4>1. i + 1 = j /\ i + 1 \in Nat \ {0}
        BY <3>2, <1>a
      <4>2. NodeAt(t, i + 1) = NodeAt(s, j + 1)
        BY <4>1, <1>6
      <4> QED BY <3>1, <3>2, <4>2, <2>0, <1>1 DEF Allocated
    <3>3. CASE i # j - 1
      <4>1. i + 1 < j /\ i + 1 \in Nat \ {0} /\ i + 1 \in 1..n
        BY <3>3, <2>1, <1>a
      <4>2. NodeAt(t, i + 1) = NodeAt(s, i + 1)
        BY <4>1, <1>1, <1>6 DEF NodeAt
      <4> QED BY <3>1, <3>3, <4>2, <2>0, <1>1 DEF Allocated
    <3> QED BY <3>2, <3>3
  <2>2. CASE ~ (i < j)
    <3>1. /\ i + 1 \in 1..n /\ i + 1 # j /\ i + 1 # j - 1 /\ t[i] = s[i + 1]
          /\ ~ (i + 1 < j) /\ i + 1 \in Nat \ {0}
      BY <2>2, <1>4, <1>5, <1>a
    <3>2. NodeAt(t, i + 1) = NodeAt(s, (i + 1) + 1)
      BY <3>1, <1>6
    <3> QED BY <3>1, <3>2, <2>0, <1>1 DEF Allocated
  <2> QED BY <2>1, <2>2
<1>11. Linked(g, t)'
  BY <1>3, <1>9, <1>10 DEF Linked
<1>12. Values(t)' = Cut(Values(s), j)
  <2>1. Range(s) \subseteq Allocated
    BY DEF Linked, Range
  <2>2. /\ Values(s) \in Seq(Records) /\ Len(Values(s)) = n /\ j \in DOMAIN Values(s)
        /\ \A i \in 1..n : Values(s)[i] = heap[s[i]].val
    BY <2>1, <1>1, ValuesType DEF n
  <2>3. /\ Cut(Values(s), j) \in Seq(Records) /\ Len(Cut(Values(s), j)) = n - 1
        /\ \A i \in 1..(n - 1) : Cut(Values(s), j)[i] =
                                   IF i < j THEN Values(s)[i] ELSE Values(s)[i + 1]
    BY <2>2, CutProperties
  <2>4. Cut(Values(s), j) = [i \in 1..(n - 1) |-> Cut(Values(s), j)[i]]
    BY <2>3, LenProperties
  <2>5. Values(t)' = [i \in 1..(n - 1) |-> heap'[t[i]].val]
    BY <1>3 DEF Values
  <2>6. ASSUME NEW i \in 1..(n - 1)
        PROVE  heap'[t[i]].val = Cut(Values(s), j)[i]
    <3> DEFINE p == IF i < j THEN i ELSE i + 1
    <3>1. p \in 1..n /\ p # j
      BY <1>5, <1>a
    <3>2. t[i] = s[p]
      BY <1>4
    <3>3. heap'[s[p]].val = Values(s)[p]
      BY <3>1, <2>2, <1>1
    <3>4. Cut(Values(s), j)[i] = Values(s)[p]
      BY <2>3
    <3> QED BY <3>2, <3>3, <3>4
  <2> QED BY <2>4, <2>5, <2>6
<1> QED BY <1>2, <1>7, <1>8, <1>11, <1>12 DEF t

-----------------------------------------------------------------------------
(* The list's value, and the loops' pointers. *)

LEMMA ValueIs ==
  ASSUME TypeOK, pc = "idle", NEW s, Structure(s), Meaning(s)
  PROVE  Value = IF mods = NULL THEN NULL ELSE Recount(Values(s))
<1>1. SUFFICES ASSUME mods # NULL PROVE Value = Recount(Values(s))
  BY DEF Value
<1>2. Chain(mods.head) = s
  BY <1>1, ChainIs DEF Structure
<1>3. Value = [head |-> Values(s), start |-> mods.start, end |-> mods.end,
               count |-> mods.count]
  BY <1>1, <1>2 DEF Value
<1>4. Cached(Values(s))
  BY <1>1 DEF Meaning
<1> QED BY <1>3, <1>4 DEF Cached, Recount

LEMMA RangeAllocated ==
  ASSUME NEW s, Structure(s)
  PROVE  Range(s) \subseteq Allocated
BY DEF Structure, Linked, Range

(* A function starts from a list it knows. *)
LEMMA CalledWith ==
  ASSUME TypeOK, Called, NEW s, Structure(s), Meaning(s)
  PROVE  /\ Values(s) \in Seq(Records)
         /\ DOMAIN Values(s) = DOMAIN s
         /\ before' = Recount(Values(s)) /\ before'.head = Values(s)
         /\ Cached(Values(s))
         /\ Linked(mods.head, s) /\ Allocated = Range(s)
<1>1. Values(s) \in Seq(Records) /\ DOMAIN Values(s) = DOMAIN s
  BY ValuesType, RangeAllocated DEF Structure
<1>2. before' = Recount(Values(s))
  BY ValueIs DEF Called
<1>3. Linked(mods.head, s) /\ Allocated = Range(s) /\ Cached(Values(s))
  BY DEF Called, Structure, Meaning
<1> QED BY <1>1, <1>2, <1>3, RecountType

LEMMA AtPlace ==
  ASSUME TypeOK, NEW s, Structure(s), NEW k \in 0..Len(s), it = NodeAt(s, k + 1)
  PROVE  /\ it = NULL => k = Len(s)
         /\ it # NULL => /\ k + 1 \in DOMAIN s /\ k + 1 \in 0..Len(s)
                         /\ it = s[k + 1] /\ it \in Allocated
                         /\ Deref(it) = NodeAt(s, (k + 1) + 1)
<1>1. s \in Seq(Addresses) /\ Len(s) \in Nat /\ DOMAIN s = 1..Len(s)
  BY LenProperties DEF Structure
<1>2. k + 1 \in DOMAIN s <=> k # Len(s)
  <2>1. \A n \in Nat : k \in 0..n => (k + 1 \in 1..n <=> k # n)
    OBVIOUS
  <2> QED BY <2>1, <1>1
<1>3. \A i \in DOMAIN s : s[i] # NULL /\ s[i] \in Allocated
                            /\ heap[s[i]].next = NodeAt(s, i + 1)
  BY NodeType DEF Structure, Linked
<1>4. ASSUME it # NULL PROVE k + 1 \in DOMAIN s /\ k + 1 \in 0..Len(s) /\ it = s[k + 1]
  <2>1. k + 1 \in DOMAIN s /\ it = s[k + 1]
    BY <1>4 DEF NodeAt
  <2> QED BY <2>1, <1>1
<1>5. ASSUME it = NULL PROVE k = Len(s)
  <2>1. k + 1 \notin DOMAIN s
    BY <1>5, <1>3 DEF NodeAt
  <2> QED BY <2>1, <1>2
<1> QED BY <1>3, <1>4, <1>5 DEF Deref

(* Nothing is counted before the first node. *)
LEMMA RecountingStarts ==
  ASSUME TypeOK', NEW s \in Seq(Addresses), NEW head, Linked(head, s)',
         Recounting(head)
  PROVE  Places(s)'
<1>1. Len(s) \in Nat
  BY LenProperties
<1>2. 0 \in 0..Len(s) /\ it' = NodeAt(s, 0 + 1)
  BY <1>1 DEF Linked, Recounting
<1>3. pc' = "recount" /\ Counted(Values(s), 0)'
  BY DEF Recounting, Counted
<1> QED BY <1>2, <1>3 DEF Places

-----------------------------------------------------------------------------
(* The steps.                                                              *)

LEMMA FollowOK ==
  ASSUME ~ fault, NEW a \in Allocated, Follow(a)
  PROVE  ~ fault' /\ fault' \in BOOLEAN
<1>1. fault' = (fault \/ a \notin Allocated)
  BY DEF Follow
<1>2. ~ (fault \/ a \notin Allocated)
  OBVIOUS
<1> QED BY <1>1, <1>2, Zenon

(* The invariant, for a step that keeps it with a known order. *)
LEMMA KeptBy ==
  ASSUME TypeOK', ~ fault', NEW t, Structure(t)', Places(t)', Meaning(t)'
  PROVE  IInv'
<1>1. t \in Orders
  BY InOrders DEF Structure
<1> QED BY <1>1 DEF IInv, NoFault, Shape

(* The node is behind the last one: what is left is to recount. *)
LEMMA AppendKeeps ==
  ASSUME TypeOK, TypeOK', ~ fault',
         NEW s, Structure(s), pc \in {"idle", "add"}, mods # NULL, mods' # NULL,
         NEW a \in Addresses \ Range(s), Allocated' = Range(s) \cup {a},
         heap'[a].next = NULL,
         \A i \in DOMAIN s :
           /\ heap'[s[i]].val = heap[s[i]].val
           /\ heap'[s[i]].next = IF i = Len(s) THEN a ELSE heap[s[i]].next,
         NEW h, h = mods'.head, h = IF s = <<>> THEN a ELSE mods.head,
         Recounting(h),
         before' = Recount(Values(s)), Values(s) = before'.head
  PROVE  IInv'
<1>0. /\ s \in Seq(Addresses) /\ Distinct(s)
      /\ DOMAIN s = 1..Len(s) /\ Range(s) \subseteq Allocated
  BY LenProperties, RangeAllocated DEF Structure
<1>1. PICK g : g = mods.head
  OBVIOUS
<1>2. Linked(g, s)
  BY <1>1 DEF Structure
<1>3. /\ heap'[a] # NULL
      /\ \A i \in DOMAIN s : heap'[s[i]] # NULL
  BY DEF Allocated, Range
<1> DEFINE t == Append(s, a)
<1>4. PICK n : n = heap'[a].val
  OBVIOUS
<1>5. /\ t \in Seq(Addresses) /\ Distinct(t)
      /\ Linked(IF s = <<>> THEN a ELSE g, t)'
      /\ Range(t) = Range(s) \cup {a}
      /\ Values(t)' = Append(Values(s), heap'[a].val)
  BY <1>0, <1>2, <1>3, Appended
<1> HIDE DEF t
<1>6. Linked(h, t)'
  BY <1>1, <1>5
<1>7. pc' = "recount"
  BY DEF Recounting
<1>8. Structure(t)'
  BY <1>5, <1>6, <1>7 DEF Structure
<1>9. Places(t)'
  BY <1>5, <1>6, RecountingStarts
<1>10. Meaning(t)'
  <2>1. n \in Records
    BY <1>3, <1>4 DEF TypeOK, SubuNode
  <2>2. before'.head \in Seq(Records)
    BY <1>0, ValuesType
  <2>3. Values(t)' = Append(before'.head, n)
    BY <1>4, <1>5
  <2> QED BY <1>7, <2>1, <2>2, <2>3 DEF Meaning
<1> QED BY <1>8, <1>9, <1>10, KeptBy

LEMMA AddContextSubuKeeps ==
  ASSUME IInv, NEW n \in Records, NEW a \in Addresses, AddContextSubu(n, a)
  PROVE  IInv'
<1> DEFINE node == [val |-> n, next |-> NULL]
<1>1. PICK s : Shape(s)
  BY DEF IInv
<1>2. TypeOK /\ Structure(s) /\ Meaning(s) /\ Called /\ ~ fault'
  BY <1>1 DEF IInv, Shape, AddContextSubu, NoFault
<1>3. /\ s \in Seq(Addresses) /\ Distinct(s) /\ Linked(mods.head, s)
      /\ Allocated = Range(s)
      /\ before' = Recount(Values(s)) /\ before'.head = Values(s)
      /\ Cached(Values(s)) /\ Values(s) \in Seq(Records)
      /\ \A i \in DOMAIN s : s[i] \in Range(s) /\ s[i] \in Addresses
  BY <1>2, CalledWith, ElementOfSeq, LenProperties DEF Structure, Range
<1>4. /\ pc = "idle" /\ mods # NULL /\ a \notin Range(s)
      /\ heap' = [heap EXCEPT ![a] = node]
  BY <1>2, <1>3 DEF Called, AddContextSubu
<1>5. node \in SubuNode /\ node # NULL
  BY NullAssumption DEF SubuNode
<1>6. /\ heap' \in [Addresses -> SubuNode \cup {NULL}]
      /\ heap'[a] = node
      /\ \A x \in Addresses \ {a} : heap'[x] = heap[x]
  BY <1>2, <1>4, <1>5 DEF TypeOK
<1>7. Allocated' = Range(s) \cup {a}
  BY <1>3, <1>5, <1>6 DEF Allocated
<1>8. \A i \in DOMAIN s : heap'[s[i]] = heap[s[i]] /\ s[i] # a
  BY <1>3, <1>4, <1>6
<1> HIDE DEF node
<1>9. CASE mods.head = NULL
  <2>1. /\ mods' = [mods EXCEPT !.head = a] /\ Recounting(a)
        /\ UNCHANGED <<arg, prev, cleanup, fault>>
    BY <1>9 DEF AddContextSubu
  <2>2. s = <<>>
    <3>1. 1 \notin DOMAIN s
      BY <1>3, <1>9, NullAssumption DEF Linked, NodeAt
    <3> QED BY <1>3, <3>1, EmptySeq, LenProperties
  <2>3. mods' \in ListOf(Addresses \cup {NULL}) /\ mods'.head = a
    BY <1>2, <1>4, <2>1 DEF TypeOK, ListOf
  <2>4. TypeOK'
    BY <1>2, <1>6, <2>1, <2>3 DEF TypeOK, Recounting, Location, NoLocation
  <2>5. mods' # NULL
    BY <2>3, NullAssumption
  <2>6. \A i \in DOMAIN s : FALSE
    BY <2>2
  <2>7. heap'[a].next = NULL
    BY <1>6 DEF node
  <2> QED BY <1>2, <1>3, <1>4, <1>7, <2>1, <2>2, <2>3, <2>4, <2>5, <2>6, <2>7, AppendKeeps
<1>10. CASE mods.head # NULL
  <2>1. /\ pc' = "add" /\ it' = mods.head /\ arg' = a
        /\ UNCHANGED <<mods, acc, prev, cleanup, fault>>
    BY <1>10 DEF AddContextSubu
  <2>2. TypeOK'
    BY <1>2, <1>4, <1>6, <2>1 DEF TypeOK, ListOf
  <2>3. Linked(mods.head, s)'
    BY <1>3, <1>4, <1>7, <1>8, <2>1 DEF Linked
  <2>4. Structure(s)'
    BY <1>3, <1>4, <1>7, <2>1, <2>3 DEF Structure
  <2>5. 1 \in DOMAIN s /\ it' = s[1]
    BY <1>3, <1>10, <2>1 DEF Linked, NodeAt
  <2>6. Places(s)'
    BY <1>4, <1>7, <2>1, <2>5 DEF Places
  <2>7. Values(s)' = Values(s)
    BY <1>8 DEF Values
  <2>8. Meaning(s)'
    BY <1>3, <2>1, <2>7 DEF Meaning, Cached
  <2> QED BY <1>2, <2>2, <2>4, <2>6, <2>8, KeptBy
<1> QED BY <1>9, <1>10

LEMMA AddStepKeeps ==
  ASSUME IInv, AddStep
  PROVE  IInv'
<1>1. PICK s : Shape(s)
  BY DEF IInv
<1>2. TypeOK /\ Structure(s) /\ Places(s) /\ Meaning(s) /\ ~ fault /\ pc = "add"
  BY <1>1 DEF IInv, Shape, NoFault, AddStep
<1>3. PICK a : a = arg
  OBVIOUS
<1>4. /\ s \in Seq(Addresses) /\ Distinct(s) /\ mods # NULL /\ Linked(mods.head, s)
      /\ Allocated = Range(s) \cup {a} /\ a \in Addresses \ Range(s)
      /\ \A i \in DOMAIN s : s[i] \in Range(s) /\ s[i] \in Addresses /\ s[i] # NULL
      /\ heap[a] # NULL
  BY <1>2, <1>3, NullAssumption, ElementOfSeq, LenProperties
     DEF Structure, Places, Range, Allocated
<1>5. PICK k \in DOMAIN s : it = s[k]
  BY <1>2 DEF Places
<1>6. /\ it \in Allocated /\ Deref(it) = NodeAt(s, k + 1)
      /\ DOMAIN s = 1..Len(s) /\ Len(s) \in Nat
  BY <1>4, <1>5, LenProperties DEF Linked, Deref
<1>7. /\ ~ fault' /\ fault' \in BOOLEAN
      /\ UNCHANGED <<mods, prev, arg, cleanup, before>>
  <2>1. Follow(it) /\ UNCHANGED <<mods, prev, arg, cleanup, before>>
    BY DEF AddStep
  <2>2. PICK x : x = it
    OBVIOUS
  <2>3. Follow(x) /\ x \in Allocated
    BY <1>6, <2>1, <2>2
  <2>4. ~ fault' /\ fault' \in BOOLEAN
    BY <1>2, <2>3, FollowOK
  <2> QED BY <2>1, <2>4
<1>8. CASE Deref(it) # NULL
  <2>1. it' = Deref(it) /\ UNCHANGED <<heap, pc, acc>>
    BY <1>8 DEF AddStep
  <2>2. k + 1 \in DOMAIN s /\ it' = s[k + 1]
    BY <1>6, <1>8, <2>1 DEF NodeAt
  <2>3. TypeOK'
    <3>1. it' \in Addresses
      BY <1>4, <2>2
    <3> QED BY <1>2, <1>7, <2>1, <3>1 DEF TypeOK
  <2>4. Structure(s)' /\ Values(s)' = Values(s) /\ Allocated' = Allocated
    BY <1>2, <1>7, <2>1 DEF Structure, Linked, Allocated, Values
  <2>5. Places(s)'
    BY <1>2, <1>7, <2>1, <2>2, <2>4 DEF Places
  <2>6. Meaning(s)'
    BY <1>2, <1>7, <2>1, <2>4 DEF Meaning, Cached
  <2> QED BY <1>7, <2>3, <2>4, <2>5, <2>6, KeptBy
<1>9. CASE Deref(it) = NULL
  <2>1. heap' = [heap EXCEPT ![it].next = a, ![a].next = NULL] /\ Recounting(mods.head)
    BY <1>3, <1>9 DEF AddStep
  <2>2. k = Len(s)
    <3>1. k + 1 \notin DOMAIN s
      BY <1>4, <1>6, <1>9 DEF NodeAt
    <3> QED BY <3>1, <1>5, <1>6
  <2>3. it \in Addresses /\ it # a /\ heap[it] \in SubuNode /\ heap[a] \in SubuNode
    BY <1>2, <1>4, <1>5, <1>6, NodeType
  <2>4. /\ heap'[it] = [heap[it] EXCEPT !.next = a]
        /\ heap'[a] = [heap[a] EXCEPT !.next = NULL]
        /\ \A x \in Addresses \ {it, a} : heap'[x] = heap[x]
        /\ DOMAIN heap' = Addresses /\ heap' = [x \in Addresses |-> heap'[x]]
    BY <1>2, <1>4, <2>1, <2>3 DEF TypeOK
  <2>5. /\ heap'[it] \in SubuNode /\ heap'[it].val = heap[it].val /\ heap'[it].next = a
        /\ heap'[a] \in SubuNode /\ heap'[a].next = NULL
    BY <1>4, <2>3, <2>4 DEF SubuNode
  <2>6. heap' \in [Addresses -> SubuNode \cup {NULL}]
    BY <1>2, <2>4, <2>5 DEF TypeOK
  <2>7. Allocated' = Range(s) \cup {a}
    BY <1>4, <1>6, <2>4, <2>5, NullAssumption DEF Allocated
  <2>8. TypeOK'
    <3>1. mods'.head \in Addresses \cup {NULL}
      BY <1>2, <1>4, <1>7 DEF TypeOK, ListOf
    <3>2. /\ pc' = "recount" /\ it' \in Addresses \cup {NULL}
          /\ acc' \in [s : Location \cup {MAX_LOCATION_T}, e : Location, i : Nat]
      BY <2>1, <3>1, <1>7 DEF Recounting, Location, NoLocation
    <3> QED BY <1>2, <1>7, <2>6, <3>2 DEF TypeOK
  <2>9. \A i \in DOMAIN s :
          /\ heap'[s[i]].val = heap[s[i]].val
          /\ heap'[s[i]].next = IF i = Len(s) THEN a ELSE heap[s[i]].next
    <3> SUFFICES ASSUME NEW i \in DOMAIN s
                 PROVE  /\ heap'[s[i]].val = heap[s[i]].val
                        /\ heap'[s[i]].next = IF i = Len(s) THEN a ELSE heap[s[i]].next
      OBVIOUS
    <3>1. CASE i = k
      BY <3>1, <1>5, <2>2, <2>5
    <3>2. CASE i # k
      <4>1. s[i] \in Addresses \ {it, a}
        BY <3>2, <1>4, <1>5 DEF Distinct
      <4> QED BY <4>1, <3>2, <2>2, <2>4
    <3> QED BY <3>1, <3>2
  <2>10. PICK h : h = mods.head
    OBVIOUS
  <2>11. s # <<>>
    BY <1>5
  <2>12. before' = Recount(Values(s)) /\ Values(s) = before'.head
    BY <1>2, <1>7 DEF Meaning
  <2>13. h = mods'.head /\ h = (IF s = <<>> THEN a ELSE mods.head) /\ Recounting(h)
    BY <1>7, <2>1, <2>10, <2>11
  <2> QED BY <1>2, <1>4, <1>7, <2>5, <2>7, <2>8, <2>9, <2>12, <2>13, AppendKeeps
<1> QED BY <1>8, <1>9

(* An iteration of recount_subu_list, and what it leaves when it ends. *)
LEMMA CountedNext ==
  ASSUME NEW v \in Seq(Records), NEW k \in 0..Len(v), k + 1 \in DOMAIN v,
         Counted(v, k), acc' = RecountElem(v[k + 1])
  PROVE  Counted(v, k + 1)'
<1>1. k \in Nat /\ \A j \in 1..(k + 1) : j \in 1..k \/ j = k + 1
  OBVIOUS
<1>2. /\ v[k + 1].loc \in Location /\ \A j \in 1..k : v[j].loc \in Location
      /\ NoLocation \in Location
  <2>1. \A j \in 1..(k + 1) : j \in DOMAIN v
    BY LenProperties
  <2>2. \A j \in DOMAIN v : v[j].loc \in Location
    BY ElementOfSeq, LenProperties, RecordsAssumption
  <2>3. \A j \in 1..k : j \in 1..(k + 1)
    BY <1>1
  <2> QED BY <2>1, <2>2, <2>3 DEF NoLocation, Location
<1>3. PICK l : l = v[k + 1].loc
  OBVIOUS
<1>4. acc' = [s |-> IF acc.s = MAX_LOCATION_T \/ Before2(l, acc.s) THEN l ELSE acc.s,
              e |-> IF Before2(acc.e, l) THEN l ELSE acc.e, i |-> acc.i + 1]
  BY <1>3 DEF RecountElem
<1>5. /\ acc'.s = IF acc.s = MAX_LOCATION_T \/ Before2(l, acc.s) THEN l ELSE acc.s
      /\ acc'.e = IF Before2(acc.e, l) THEN l ELSE acc.e
      /\ acc'.i = k + 1
  BY <1>4 DEF Counted
<1>6. Before2(l, l)
  BY <1>2, <1>3, Before2Order
<1>7. CASE k = 0
  <2>1. acc.s = MAX_LOCATION_T /\ Before2(acc.e, l)
    BY <1>2, <1>3, <1>7 DEF Counted, Before2, NoLocation, Location
  <2>2. acc'.s = l /\ acc'.e = l
    BY <1>5, <2>1
  <2>3. \A j \in 1..(k + 1) : j = k + 1
    BY <1>7
  <2>4. k + 1 \in 1..(k + 1) /\ k + 1 > 0 /\ k + 1 # 0
    BY <1>1
  <2> QED BY <1>3, <1>5, <1>6, <2>2, <2>3, <2>4 DEF Counted
<1>8. CASE k # 0
  <2>0. k > 0 /\ k + 1 > 0 /\ k + 1 # 0 /\ k + 1 \in 1..(k + 1)
        /\ \A j \in 1..k : j \in 1..(k + 1)
    BY <1>1, <1>8
  <2>1. /\ \E j \in 1..k : acc.s = v[j].loc
        /\ \E j \in 1..k : acc.e = v[j].loc
        /\ \A j \in 1..k : Before2(acc.s, v[j].loc) /\ Before2(v[j].loc, acc.e)
    BY <2>0 DEF Counted
  <2>2. acc.s \in Location /\ acc.e \in Location /\ l \in Location
    BY <1>2, <1>3, <2>1
  <2>3. acc.s # MAX_LOCATION_T
    BY <2>2, MaxIsNoLocation
  <2>4. \E j \in 1..(k + 1) : acc'.s = v[j].loc
    BY <1>3, <1>5, <2>0, <2>1
  <2>5. \E j \in 1..(k + 1) : acc'.e = v[j].loc
    BY <1>3, <1>5, <2>0, <2>1
  <2>6. Before2(acc'.s, l) /\ Before2(acc'.s, acc.s)
    BY <1>5, <1>6, <2>2, <2>3, Before2Order
  <2>7. Before2(l, acc'.e) /\ Before2(acc.e, acc'.e)
    BY <1>5, <1>6, <2>2, Before2Order
  <2>8. acc'.s \in Location /\ acc'.e \in Location
    BY <1>5, <2>2
  <2>9. ASSUME NEW j \in 1..(k + 1)
        PROVE  Before2(acc'.s, v[j].loc) /\ Before2(v[j].loc, acc'.e)
    <3>1. CASE j = k + 1
      BY <3>1, <1>3, <2>6, <2>7
    <3>2. CASE j \in 1..k
      BY <3>2, <1>2, <2>1, <2>2, <2>6, <2>7, <2>8, Before2Order
    <3> QED BY <3>1, <3>2, <1>1
  <2> QED BY <1>5, <2>0, <2>4, <2>5, <2>9 DEF Counted
<1> QED BY <1>7, <1>8

LEMMA RecountEnd ==
  ASSUME NEW v \in Seq(Records), Counted(v, Len(v)),
         acc \in [s : Location \cup {MAX_LOCATION_T}, e : Location, i : Nat]
  PROVE  /\ Recount(v).start = IF acc.s = MAX_LOCATION_T \/ Before2(acc.e, acc.s)
                                 THEN acc.e ELSE acc.s
         /\ Recount(v).end = acc.e
         /\ Recount(v).count = acc.i
<1>1. CASE v = <<>>
  <2>1. Len(v) = 0
    BY <1>1
  <2> QED BY <1>1, <2>1, RecountEmpty DEF Counted
<1>2. CASE v # <<>>
  <2>1. Len(v) > 0 /\ DOMAIN v = 1..Len(v)
    BY <1>2, EmptySeq, LenProperties
  <2>2. /\ \E j \in DOMAIN v : acc.s = v[j].loc
        /\ \E j \in DOMAIN v : acc.e = v[j].loc
        /\ \A j \in DOMAIN v : Before2(acc.s, v[j].loc) /\ Before2(v[j].loc, acc.e)
        /\ acc.i = Len(v)
    BY <2>1 DEF Counted
  <2>3. Recount(v) = [head |-> v, start |-> acc.s, end |-> acc.e, count |-> Len(v)]
    BY <1>2, <2>2, RecountBounds
  <2>4. acc.s \in Location /\ acc.s # MAX_LOCATION_T /\ acc.e \in Location
    <3>1. \A j \in DOMAIN v : v[j].loc \in Location
      BY <2>1, ElementOfSeq, RecordsAssumption
    <3> QED BY <2>2, <3>1, MaxIsNoLocation
  <2>5. Before2(acc.e, acc.s) => acc.e = acc.s
    <3>1. Before2(acc.s, acc.e)
      BY <2>2
    <3> QED BY <3>1, <2>4 DEF Before2, Location
  <2> QED BY <2>2, <2>3, <2>4, <2>5
<1> QED BY <1>1, <1>2

LEMMA RecountStepKeeps ==
  ASSUME IInv, RecountStep
  PROVE  IInv'
<1>1. PICK s : Shape(s)
  BY DEF IInv
<1>2. TypeOK /\ Structure(s) /\ Places(s) /\ Meaning(s) /\ ~ fault /\ pc = "recount"
  BY <1>1 DEF IInv, Shape, NoFault, RecountStep
<1>3. /\ s \in Seq(Addresses) /\ mods # NULL
      /\ Values(s) \in Seq(Records) /\ Len(Values(s)) = Len(s)
      /\ DOMAIN Values(s) = DOMAIN s
      /\ \A i \in DOMAIN s : Values(s)[i] = heap[s[i]].val
  BY <1>2, ValuesType, RangeAllocated DEF Structure
<1>4. PICK k \in 0..Len(s) : it = NodeAt(s, k + 1) /\ Counted(Values(s), k)
  BY <1>2 DEF Places
<1>5. UNCHANGED <<heap, prev, arg, cleanup, before>>
  BY DEF RecountStep
<1>6. Values(s)' = Values(s)
  BY <1>5 DEF Values
<1>7. acc \in [s : Location \cup {MAX_LOCATION_T}, e : Location, i : Nat]
  BY <1>2 DEF TypeOK
<1>8. CASE it # NULL
  <2>1. /\ k + 1 \in DOMAIN s /\ k + 1 \in 0..Len(s) /\ it = s[k + 1]
        /\ it \in Allocated /\ Deref(it) = NodeAt(s, (k + 1) + 1)
    BY <1>2, <1>4, <1>8, AtPlace
  <2>2. /\ Follow(it) /\ acc' = RecountElem(heap[it].val) /\ it' = Deref(it)
        /\ UNCHANGED <<mods, pc>>
    BY <1>8, <2>1 DEF RecountStep
  <2>3. PICK x : x = it
    OBVIOUS
  <2>4. ~ fault' /\ fault' \in BOOLEAN
    BY <1>2, <2>1, <2>2, <2>3, FollowOK
  <2>5. heap[it].val = Values(s)[k + 1] /\ heap[it].val \in Records
    BY <1>2, <1>3, <2>1, NodeType
  <2>6. PICK v : v = Values(s)
    OBVIOUS
  <2>7. Counted(v, k + 1)'
    BY <1>3, <1>4, <2>1, <2>2, <2>5, <2>6, CountedNext
  <2>8. TypeOK'
    <3>1. acc' \in [s : Location \cup {MAX_LOCATION_T}, e : Location, i : Nat]
      BY <1>7, <2>2, <2>5, RecordsAssumption DEF RecountElem
    <3>2. it' \in Addresses \cup {NULL}
      BY <1>2, <2>1, <2>2, NodeType DEF Deref
    <3> QED BY <1>2, <1>5, <2>2, <2>4, <3>1, <3>2 DEF TypeOK
  <2>9. Structure(s)'
    BY <1>2, <1>5, <2>2 DEF Structure, Linked, Allocated
  <2>10. Places(s)'
    <3>1. Counted(Values(s), k + 1)'
      BY <1>6, <2>6, <2>7 DEF Counted
    <3>2. Len(s) = Len(s)' /\ it' = NodeAt(s, (k + 1) + 1)
      BY <2>1, <2>2
    <3> QED BY <1>2, <2>1, <2>2, <3>1, <3>2 DEF Places
  <2>11. Meaning(s)'
    BY <1>2, <1>5, <1>6, <2>2 DEF Meaning, Cached
  <2> QED BY <2>4, <2>8, <2>9, <2>10, <2>11, KeptBy
<1>9. CASE it = NULL
  <2>1. k = Len(s)
    BY <1>2, <1>4, <1>9, AtPlace
  <2>2. /\ mods' = [mods EXCEPT
              !.start = IF acc.s = MAX_LOCATION_T \/ Before2(acc.e, acc.s)
                          THEN acc.e ELSE acc.s,
              !.end = acc.e, !.count = acc.i]
        /\ pc' = "idle" /\ UNCHANGED <<it, fault>>
    BY <1>9 DEF RecountStep
  <2>3. mods \in ListOf(Addresses \cup {NULL})
    BY <1>2, <1>3 DEF TypeOK
  <2>4. /\ mods'.start = IF acc.s = MAX_LOCATION_T \/ Before2(acc.e, acc.s)
                           THEN acc.e ELSE acc.s
        /\ mods'.end = acc.e /\ mods'.count = acc.i /\ mods'.head = mods.head
        /\ mods' \in ListOf(Addresses \cup {NULL})
    BY <1>7, <2>2, <2>3 DEF ListOf
  <2>5. mods' # NULL
    BY <2>4, NullAssumption
  <2>6. TypeOK'
    BY <1>2, <1>5, <2>2, <2>4 DEF TypeOK
  <2>7. Structure(s)'
    BY <1>2, <1>3, <1>5, <2>2, <2>4, <2>5 DEF Structure, Linked, Allocated
  <2>8. Places(s)'
    BY <2>2 DEF Places
  <2>9. Meaning(s)'
    <3>1. Counted(Values(s), Len(Values(s)))
      BY <1>3, <1>4, <2>1
    <3>2. PICK v : v = Values(s)
      OBVIOUS
    <3>3. /\ Recount(v).start = mods'.start /\ Recount(v).end = mods'.end
          /\ Recount(v).count = mods'.count
      BY <1>3, <1>7, <2>4, <3>1, <3>2, RecountEnd
    <3> QED BY <1>6, <2>2, <3>2, <3>3 DEF Meaning, Cached
  <2> QED BY <1>2, <2>2, <2>6, <2>7, <2>8, <2>9, KeptBy
<1> QED BY <1>8, <1>9

(* The node is unlinked and freed: what is left is to recount. *)
LEMMA UnlinkKeeps ==
  ASSUME TypeOK, TypeOK', ~ fault',
         NEW s, Structure(s), pc \in {"idle", "remove"}, mods # NULL, mods' # NULL,
         NEW j \in DOMAIN s, Allocated' = Range(s) \ {s[j]},
         \A i \in DOMAIN s : i # j =>
           /\ heap'[s[i]].val = heap[s[i]].val
           /\ heap'[s[i]].next = IF i = j - 1 THEN heap[s[j]].next
                                 ELSE heap[s[i]].next,
         NEW h, h = mods'.head, h = IF j = 1 THEN heap[s[j]].next ELSE mods.head,
         Recounting(h),
         before' = Recount(Values(s)), Values(s) = before'.head
  PROVE  IInv'
<1>0. /\ s \in Seq(Addresses) /\ Distinct(s)
      /\ Len(s) \in Nat /\ DOMAIN s = 1..Len(s) /\ Range(s) \subseteq Allocated
  BY LenProperties, RangeAllocated DEF Structure
<1>1. PICK g : g = mods.head
  OBVIOUS
<1>2. Linked(g, s) /\ h = (IF j = 1 THEN heap[s[j]].next ELSE g)
  BY <1>1 DEF Structure
<1>3. \A i \in DOMAIN s : i # j => heap'[s[i]] # NULL
  <2>1. \A i \in DOMAIN s : i # j => s[i] \in Range(s) \ {s[j]}
    BY <1>0 DEF Distinct, Range
  <2> QED BY <2>1 DEF Allocated
<1> DEFINE t == Cut(s, j)
<1>4. /\ t \in Seq(Addresses) /\ Distinct(t) /\ Linked(h, t)'
      /\ Range(t) = Range(s) \ {s[j]}
      /\ Values(t)' = Cut(Values(s), j)
  BY <1>0, <1>2, <1>3, Unlinked
<1> HIDE DEF t
<1>5. pc' = "recount"
  BY DEF Recounting
<1>6. Structure(t)'
  <2>1. Linked(mods.head, t)'
    BY <1>4 DEF Linked
  <2> QED BY <1>4, <1>5, <2>1 DEF Structure
<1>7. Places(t)'
  BY <1>4, RecountingStarts
<1>8. Meaning(t)'
  <2>1. before'.head \in Seq(Records) /\ j \in DOMAIN before'.head
    BY <1>0, ValuesType
  <2>2. Values(t)' = Cut(before'.head, j)
    BY <1>4
  <2> QED BY <1>5, <2>1, <2>2 DEF Meaning
<1> QED BY <1>6, <1>7, <1>8, KeptBy

LEMMA RemoveSubuElemKeeps ==
  ASSUME IInv, NEW a \in Addresses, RemoveSubuElem(a)
  PROVE  IInv'
<1>1. PICK s : Shape(s)
  BY DEF IInv
<1>2. TypeOK /\ Structure(s) /\ Meaning(s) /\ Called /\ ~ fault
  BY <1>1 DEF IInv, Shape, RemoveSubuElem, NoFault
<1>3. /\ s \in Seq(Addresses) /\ Distinct(s) /\ Linked(mods.head, s)
      /\ Len(s) \in Nat /\ DOMAIN s = 1..Len(s)
      /\ Allocated = Range(s)
      /\ before' = Recount(Values(s)) /\ before'.head = Values(s)
      /\ Cached(Values(s)) /\ Values(s) \in Seq(Records)
      /\ \A i \in DOMAIN s : s[i] \in Range(s) /\ s[i] \in Addresses /\ s[i] # NULL
  <2>1. s \in Seq(Addresses) /\ Distinct(s)
    BY <1>2 DEF Structure
  <2>2. Len(s) \in Nat /\ DOMAIN s = 1..Len(s) /\ \A i \in DOMAIN s : s[i] \in Addresses
    BY <2>1, ElementOfSeq, LenProperties
  <2>3. \A i \in DOMAIN s : s[i] \in Range(s) /\ s[i] # NULL
    BY <2>2, NullAssumption DEF Range
  <2> QED BY <1>2, <2>1, <2>2, <2>3, CalledWith
<1>4. pc = "idle" /\ mods # NULL /\ a \in Allocated /\ arg' = a /\ cleanup' = cleanup
  BY DEF Called, RemoveSubuElem
<1>5. PICK j \in DOMAIN s : s[j] = a
  BY <1>3, <1>4 DEF Range
<1>6. mods \in ListOf(Addresses \cup {NULL}) /\ 1 \in DOMAIN s /\ mods.head = s[1]
  BY <1>2, <1>3, <1>4, <1>5 DEF TypeOK, Linked, NodeAt
<1>7. CASE mods.head = a
  <2>1. j = 1
    BY <1>3, <1>5, <1>6, <1>7 DEF Distinct
  <2>2. /\ mods' = [mods EXCEPT !.head = heap[a].next]
        /\ heap' = [heap EXCEPT ![a] = NULL] /\ Follow(a)
        /\ Recounting(mods'.head) /\ prev' = prev
    BY <1>7 DEF RemoveSubuElem, RemoveHead, DeleteSubu
  <2>3. heap[a].next \in Addresses \cup {NULL} /\ ~ fault' /\ fault' \in BOOLEAN
    BY <1>2, <1>4, <2>2, NodeType, FollowOK
  <2>4. /\ mods' \in ListOf(Addresses \cup {NULL}) /\ mods' # NULL
        /\ mods'.head = heap[a].next
    BY <1>6, <2>2, <2>3, NullAssumption DEF ListOf
  <2>5. /\ heap' \in [Addresses -> SubuNode \cup {NULL}]
        /\ heap'[a] = NULL
        /\ \A x \in Addresses \ {a} : heap'[x] = heap[x]
    BY <1>2, <2>2 DEF TypeOK
  <2>6. TypeOK'
    <3>1. /\ pc' = "recount" /\ it' \in Addresses \cup {NULL}
          /\ acc' \in [s : Location \cup {MAX_LOCATION_T}, e : Location, i : Nat]
      BY <2>2, <2>3, <2>4 DEF Recounting, Location, NoLocation
    <3> QED BY <1>2, <1>4, <2>2, <2>3, <2>4, <2>5, <3>1 DEF TypeOK
  <2>7. Allocated' = Range(s) \ {s[j]}
    BY <1>3, <1>5, <2>5 DEF Allocated
  <2>8. \A i \in DOMAIN s : i # j => heap'[s[i]] = heap[s[i]] /\ i # j - 1
    BY <1>3, <1>5, <2>1, <2>5 DEF Distinct
  <2>9. PICK h : h = mods'.head
    OBVIOUS
  <2>10. Recounting(h) /\ h = (IF j = 1 THEN heap[s[j]].next ELSE mods.head)
    BY <1>5, <2>1, <2>2, <2>4, <2>9
  <2> QED BY <1>2, <1>3, <1>4, <2>3, <2>4, <2>6, <2>7, <2>8, <2>9, <2>10, UnlinkKeeps
<1>8. CASE mods.head # a
  <2>1. /\ pc' = "remove" /\ prev' = mods.head /\ it' = heap[mods.head].next
        /\ UNCHANGED <<heap, mods, acc, fault>>
    BY <1>8 DEF RemoveSubuElem
  <2>2. 1 < j /\ 1 + 1 \in DOMAIN s
    <3>1. j # 1
      BY <1>5, <1>6, <1>8
    <3> QED BY <1>3, <3>1
  <2>3. it' = s[1 + 1] /\ prev' = s[1]
    BY <1>3, <1>6, <2>1, <2>2 DEF Linked, NodeAt
  <2>4. TypeOK'
    BY <1>2, <1>3, <1>4, <1>6, <2>1, <2>2, <2>3 DEF TypeOK
  <2>5. Structure(s)' /\ Values(s)' = Values(s)
    BY <1>2, <1>4, <2>1 DEF Structure, Linked, Allocated, Values
  <2>6. Places(s)'
    BY <1>4, <1>5, <1>6, <2>1, <2>2, <2>3 DEF Places
  <2>7. Meaning(s)'
    BY <1>3, <2>1, <2>5 DEF Meaning, Cached
  <2>8. ~ fault'
    BY <1>2, <2>1
  <2> QED BY <2>4, <2>5, <2>6, <2>7, <2>8, KeptBy
<1> QED BY <1>7, <1>8

LEMMA RemoveStepKeeps ==
  ASSUME IInv, RemoveStep
  PROVE  IInv'
<1>1. PICK s : Shape(s)
  BY DEF IInv
<1>2. TypeOK /\ Structure(s) /\ Places(s) /\ Meaning(s) /\ ~ fault /\ pc = "remove"
  BY <1>1 DEF IInv, Shape, NoFault, RemoveStep
<1>3. /\ s \in Seq(Addresses) /\ Distinct(s) /\ mods # NULL /\ Linked(mods.head, s)
      /\ Len(s) \in Nat /\ DOMAIN s = 1..Len(s)
      /\ Allocated = Range(s)
      /\ before = Recount(Values(s)) /\ Values(s) = before.head
      /\ \A i \in DOMAIN s : s[i] \in Range(s) /\ s[i] \in Addresses /\ s[i] # NULL
  BY <1>2, ElementOfSeq, LenProperties, NullAssumption DEF Structure, Meaning, Range
<1>4. PICK j, k \in DOMAIN s : k < j /\ arg = s[j] /\ prev = s[k] /\ it = s[k + 1]
  BY <1>2 DEF Places
<1>5. k + 1 \in DOMAIN s /\ k + 1 # k /\ k + 1 # 1
  BY <1>3, <1>4
<1>6. PICK p, a : p = prev /\ a = it
  OBVIOUS
<1>7. /\ p \in Addresses /\ a \in Addresses /\ p # a /\ a # NULL /\ a \in Allocated
      /\ Deref(a) = NodeAt(s, (k + 1) + 1) /\ Deref(a) = heap[a].next
      /\ heap[p] \in SubuNode /\ heap[a].next \in Addresses \cup {NULL}
  BY <1>2, <1>3, <1>4, <1>5, <1>6, NodeType DEF Distinct, Linked, Deref
<1>8. UNCHANGED <<mods, arg, cleanup, before>>
  BY DEF RemoveStep
<1>9. CASE a = arg
  <2>1. /\ heap' = [heap EXCEPT ![p].next = Deref(a), ![a] = NULL]
        /\ Follow(a) /\ Recounting(mods.head) /\ prev' = prev
    BY <1>6, <1>7, <1>9 DEF RemoveStep, Unlink
  <2>2. j = k + 1
    BY <1>3, <1>4, <1>5, <1>6, <1>9 DEF Distinct
  <2>3. ~ fault' /\ fault' \in BOOLEAN
    BY <1>2, <1>7, <2>1, FollowOK
  <2>4. /\ heap'[p] = [heap[p] EXCEPT !.next = heap[a].next]
        /\ heap'[a] = NULL
        /\ \A x \in Addresses \ {p, a} : heap'[x] = heap[x]
        /\ heap' = [x \in Addresses |-> heap'[x]]
    BY <1>2, <1>7, <2>1 DEF TypeOK
  <2>5. heap'[p] \in SubuNode /\ heap'[p].val = heap[p].val /\ heap'[p].next = heap[a].next
    BY <1>7, <2>4 DEF SubuNode
  <2>6. heap' \in [Addresses -> SubuNode \cup {NULL}]
    BY <1>2, <2>4, <2>5 DEF TypeOK
  <2>7. TypeOK'
    <3>1. mods.head \in Addresses \cup {NULL}
      BY <1>2, <1>3 DEF TypeOK, ListOf
    <3>2. /\ pc' = "recount" /\ it' \in Addresses \cup {NULL}
          /\ acc' \in [s : Location \cup {MAX_LOCATION_T}, e : Location, i : Nat]
      BY <2>1, <3>1 DEF Recounting, Location, NoLocation
    <3> QED BY <1>2, <1>8, <2>1, <2>3, <2>6, <3>2 DEF TypeOK
  <2>8. s[j] = a /\ s[k] = p /\ k = j - 1 /\ j # 1
    BY <1>3, <1>4, <1>5, <1>6, <2>2
  <2>9. Allocated' = Range(s) \ {s[j]}
    BY <1>3, <1>4, <1>7, <2>4, <2>5, <2>8, NullAssumption DEF Allocated
  <2>10. \A i \in DOMAIN s : i # j =>
           /\ heap'[s[i]].val = heap[s[i]].val
           /\ heap'[s[i]].next = IF i = j - 1 THEN heap[s[j]].next
                                 ELSE heap[s[i]].next
    <3> SUFFICES ASSUME NEW i \in DOMAIN s, i # j
                 PROVE  /\ heap'[s[i]].val = heap[s[i]].val
                        /\ heap'[s[i]].next = IF i = j - 1 THEN heap[s[j]].next
                                              ELSE heap[s[i]].next
      OBVIOUS
    <3>1. CASE i = k
      BY <3>1, <2>5, <2>8
    <3>2. CASE i # k
      <4>1. s[i] \in Addresses \ {p, a}
        BY <3>2, <1>3, <2>8 DEF Distinct
      <4> QED BY <4>1, <3>2, <2>4, <2>8
    <3> QED BY <3>1, <3>2
  <2>11. PICK h : h = mods.head
    OBVIOUS
  <2>12. h = mods'.head /\ h = (IF j = 1 THEN heap[s[j]].next ELSE mods.head) /\ Recounting(h)
    BY <1>8, <2>1, <2>8, <2>11
  <2>13. before' = Recount(Values(s)) /\ Values(s) = before'.head
    BY <1>3, <1>8
  <2> QED BY <1>2, <1>3, <1>8, <2>3, <2>7, <2>9, <2>10, <2>12, <2>13, UnlinkKeeps
<1>10. CASE a # arg
  <2>1. prev' = a /\ it' = Deref(a) /\ Follow(a) /\ UNCHANGED <<heap, pc, acc>>
    BY <1>6, <1>7, <1>10 DEF RemoveStep
  <2>2. ~ fault' /\ fault' \in BOOLEAN
    BY <1>2, <1>7, <2>1, FollowOK
  <2>3. k + 1 < j /\ (k + 1) + 1 \in DOMAIN s
    <3>1. k + 1 # j
      BY <1>4, <1>6, <1>10
    <3> QED BY <1>3, <1>4, <3>1
  <2>4. it' = s[(k + 1) + 1] /\ prev' = s[k + 1]
    BY <1>4, <1>6, <1>7, <2>1, <2>3 DEF NodeAt
  <2>5. TypeOK'
    BY <1>2, <1>7, <1>8, <2>1, <2>2 DEF TypeOK
  <2>6. Structure(s)' /\ Values(s)' = Values(s)
    BY <1>2, <1>8, <2>1 DEF Structure, Linked, Allocated, Values
  <2>7. Places(s)'
    BY <1>2, <1>4, <1>5, <1>8, <2>1, <2>3, <2>4 DEF Places
  <2>8. Meaning(s)'
    BY <1>2, <1>8, <2>1, <2>6 DEF Meaning, Cached
  <2> QED BY <2>2, <2>5, <2>6, <2>7, <2>8, KeptBy
<1> QED BY <1>9, <1>10

LEMMA CheckKeeps ==
  ASSUME IInv, NEW start, Check(start), start \in Starts \/ cleanup',
         cleanup' \in BOOLEAN
  PROVE  IInv'
<1>1. PICK s : Shape(s)
  BY DEF IInv
<1>2. TypeOK /\ Structure(s) /\ Meaning(s) /\ Called /\ ~ fault
  BY <1>1 DEF IInv, Shape, Check, NoFault
<1>3. /\ s \in Seq(Addresses) /\ Linked(mods.head, s) /\ Allocated = Range(s)
      /\ before' = Recount(Values(s)) /\ before'.head = Values(s)
      /\ Cached(Values(s)) /\ Values(s) \in Seq(Records)
  BY <1>2, CalledWith DEF Structure
<1>4. /\ pc = "idle" /\ mods # NULL /\ pc' = "check" /\ it' = mods.head /\ arg' = start
      /\ acc' = 0 /\ UNCHANGED <<heap, mods, prev, fault>>
  BY DEF Called, Check
<1>5. Structure(s)' /\ Values(s)' = Values(s)
  BY <1>2, <1>4 DEF Structure, Linked, Allocated, Values
<1>6. TypeOK'
  <2>1. it' \in Addresses \cup {NULL}
    BY <1>2, <1>4 DEF TypeOK, ListOf
  <2> QED BY <1>2, <1>4, <2>1 DEF TypeOK
<1>7. Places(s)'
  <2>1. Len(s) \in Nat /\ 0 \in 0..Len(s) /\ 1..0 = {}
    BY <1>3, LenProperties
  <2>2. it' = NodeAt(s, 0 + 1)
    BY <1>3, <1>4 DEF Linked
  <2> QED BY <1>4, <2>1, <2>2 DEF Places
<1>8. Meaning(s)'
  BY <1>3, <1>4, <1>5 DEF Meaning, Cached
<1> QED BY <1>2, <1>4, <1>5, <1>6, <1>7, <1>8, KeptBy

LEMMA CheckStepKeeps ==
  ASSUME IInv, CheckStep
  PROVE  IInv'
<1>1. PICK s : Shape(s)
  BY DEF IInv
<1>2. TypeOK /\ Structure(s) /\ Places(s) /\ Meaning(s) /\ ~ fault /\ pc = "check"
  BY <1>1 DEF IInv, Shape, NoFault, CheckStep
<1>3. /\ s \in Seq(Addresses) /\ mods # NULL /\ Linked(mods.head, s)
      /\ Len(s) \in Nat /\ DOMAIN s = 1..Len(s) /\ Allocated = Range(s)
      /\ DOMAIN Values(s) = DOMAIN s
      /\ \A i \in DOMAIN s : Values(s)[i] = heap[s[i]].val
      /\ Values(s) = before.head
  BY <1>2, LenProperties, ValuesType, RangeAllocated DEF Structure, Meaning
<1>4. PICK k \in 0..Len(s) :
        /\ it = NodeAt(s, k + 1)
        /\ acc = 0 <=> \A j \in 1..k : ~ Reports(Values(s)[j], arg)
  BY <1>2 DEF Places
<1>5. UNCHANGED <<heap, mods, prev, arg, cleanup, before>> /\ acc \in Nat
  BY <1>2 DEF CheckStep, TypeOK
<1>6. Values(s)' = Values(s) /\ Allocated' = Allocated
  BY <1>5 DEF Values, Allocated
<1>7. CASE it # NULL
  <2>1. /\ k + 1 \in DOMAIN s /\ k + 1 \in 0..Len(s) /\ it = s[k + 1]
        /\ it \in Allocated /\ Deref(it) = NodeAt(s, (k + 1) + 1)
    BY <1>2, <1>4, <1>7, AtPlace
  <2>2. /\ Follow(it) /\ it' = Deref(it) /\ pc' = pc
        /\ acc' = IF Reports(heap[it].val, arg) THEN acc + 1 ELSE acc
    BY <1>7, <2>1 DEF CheckStep, Reports
  <2>3. PICK x : x = it
    OBVIOUS
  <2>4. ~ fault' /\ fault' \in BOOLEAN
    BY <1>2, <2>1, <2>2, <2>3, FollowOK
  <2>5. heap[it].val = Values(s)[k + 1]
    BY <1>3, <2>1
  <2>6. acc' \in Nat /\ it' \in Addresses \cup {NULL}
    BY <1>2, <1>5, <2>1, <2>2, NodeType DEF Deref
  <2>7. TypeOK'
    BY <1>2, <1>5, <2>2, <2>4, <2>6 DEF TypeOK
  <2>8. Structure(s)'
    BY <1>2, <1>5, <1>6, <2>2 DEF Structure, Linked
  <2>9. acc' = 0 <=> \A j \in 1..(k + 1) : ~ Reports(Values(s)[j], arg)
    <3>1. \A j \in 1..(k + 1) : j \in 1..k \/ j = k + 1
      OBVIOUS
    <3>2. k + 1 \in 1..(k + 1) /\ \A j \in 1..k : j \in 1..(k + 1)
      OBVIOUS
    <3>3. CASE Reports(heap[it].val, arg)
      <4>1. acc' # 0
        BY <3>3, <1>5, <2>2
      <4> QED BY <4>1, <3>2, <3>3, <2>5
    <3>4. CASE ~ Reports(heap[it].val, arg)
      BY <3>1, <3>2, <3>4, <1>4, <2>2, <2>5
    <3> QED BY <3>3, <3>4
  <2>10. Places(s)'
    <3>1. acc' = 0 <=> \A j \in 1..(k + 1) : ~ Reports(Values(s)'[j], arg')
      BY <1>5, <1>6, <2>9
    <3>2. it' = NodeAt(s, (k + 1) + 1)
      BY <2>1, <2>2
    <3> QED BY <1>2, <2>1, <2>2, <3>1, <3>2 DEF Places
  <2>11. Meaning(s)'
    BY <1>2, <1>5, <1>6, <2>2 DEF Meaning, Cached
  <2> QED BY <2>4, <2>7, <2>8, <2>10, <2>11, KeptBy
<1>8. CASE it = NULL
  <2>1. k = Len(s)
    BY <1>2, <1>4, <1>8, AtPlace
  <2>2. /\ IF acc # 0 THEN pc' = "clear" ELSE Checked
        /\ it' = mods.head /\ fault' = fault
    BY <1>8 DEF CheckStep
  <2>3. pc' \in {"clear", "delete", "idle"} /\ (pc' = "clear" <=> acc # 0)
        /\ (pc' = "delete" => cleanup)
    BY <2>2 DEF Checked
  <2>4. mods.head \in Addresses \cup {NULL}
    BY <1>2, <1>3 DEF TypeOK, ListOf
  <2>5. TypeOK'
    BY <1>2, <1>5, <2>2, <2>3, <2>4 DEF TypeOK
  <2>6. Structure(s)'
    <3>1. Linked(IF pc \in {"clear", "delete"} THEN it
                 ELSE IF mods = NULL THEN NULL ELSE mods.head, s)'
      BY <1>3, <1>5, <1>6, <2>2 DEF Linked
    <3> QED BY <1>2, <1>3, <1>5, <1>6, <2>3, <3>1 DEF Structure
  <2>7. Places(s)'
    BY <2>3 DEF Places
  <2>8. acc # 0 => Reported(before, arg) # {}
    <3>1. SUFFICES ASSUME acc # 0 PROVE Reported(before, arg) # {}
      OBVIOUS
    <3>2. PICK j \in 1..Len(s) : Reports(before.head[j], arg)
      BY <1>3, <1>4, <2>1, <3>1
    <3>3. before.head[j] \in Nodes(before)
      BY <1>3 DEF Nodes
    <3> QED BY <3>2, <3>3 DEF Reported, Reports
  <2>9. Meaning(s)'
    BY <1>2, <1>3, <1>5, <1>6, <2>3, <2>8 DEF Meaning, Cached
  <2>10. ~ fault'
    BY <1>2, <2>2
  <2> QED BY <2>5, <2>6, <2>7, <2>9, <2>10, KeptBy
<1> QED BY <1>7, <1>8

LEMMA ClearStepKeeps ==
  ASSUME IInv, ClearStep
  PROVE  IInv'
<1>1. PICK s : Shape(s)
  BY DEF IInv
<1>2. /\ TypeOK /\ Structure(s) /\ Meaning(s) /\ ~ fault
      /\ pc \in {"clear", "delete"}
  BY <1>1 DEF IInv, Shape, NoFault, ClearStep
<1>3. /\ s \in Seq(Addresses) /\ Distinct(s) /\ mods # NULL /\ Linked(it, s)
      /\ Len(s) \in Nat /\ DOMAIN s = 1..Len(s) /\ Allocated = Range(s)
      /\ \A i \in DOMAIN s : s[i] \in Addresses /\ s[i] # NULL
  <2>1. s \in Seq(Addresses) /\ Distinct(s) /\ mods # NULL /\ Linked(it, s)
        /\ Allocated = Range(s)
    BY <1>2 DEF Structure
  <2> QED BY <2>1, LenProperties, ElementOfSeq, NullAssumption
<1>4. UNCHANGED <<prev, arg, acc, cleanup, before>>
  BY DEF ClearStep
<1>5. CASE it # NULL
  <2>1. PICK x : x = it
    OBVIOUS
  <2>2. /\ it' = Deref(x) /\ heap' = [heap EXCEPT ![x] = NULL] /\ Follow(x)
        /\ UNCHANGED <<mods, pc>>
    BY <1>5, <2>1 DEF ClearStep, ClearElem, DeleteSubu
  <2>3. 1 \in DOMAIN s /\ x = s[1] /\ x \in Allocated
    BY <1>3, <1>5, <2>1 DEF Linked, NodeAt
  <2>4. PICK g : g = Deref(x)
    OBVIOUS
  <2>5. g = heap[s[1]].next /\ g \in Addresses \cup {NULL} /\ ~ fault' /\ fault' \in BOOLEAN
    BY <1>2, <2>2, <2>3, <2>4, NodeType, FollowOK DEF Deref
  <2>6. /\ heap' \in [Addresses -> SubuNode \cup {NULL}] /\ heap'[x] = NULL
        /\ \A y \in Addresses \ {x} : heap'[y] = heap[y]
    BY <1>2, <1>3, <2>2, <2>3 DEF TypeOK
  <2>7. \A i \in DOMAIN s : i # 1 =>
          heap'[s[i]] = heap[s[i]] /\ heap'[s[i]] # NULL /\ i # 1 - 1
    BY <1>3, <2>3, <2>6 DEF Distinct, Linked, Allocated
  <2>8. PICK h : h = it
    OBVIOUS
  <2> DEFINE t == Cut(s, 1)
  <2>9. /\ t \in Seq(Addresses) /\ Distinct(t) /\ Linked(g, t)'
        /\ Range(t) = Range(s) \ {s[1]}
    BY <1>2, <1>3, <2>3, <2>5, <2>7, <2>8, Unlinked
  <2> HIDE DEF t
  <2>10. Allocated' = Range(s) \ {s[1]}
    BY <1>3, <2>3, <2>6 DEF Allocated
  <2>11. TypeOK'
    BY <1>2, <1>4, <2>2, <2>4, <2>5, <2>6 DEF TypeOK
  <2>12. Structure(t)'
    <3>1. Linked(it, t)'
      BY <2>2, <2>4, <2>9 DEF Linked
    <3> QED BY <1>2, <1>3, <2>2, <2>9, <2>10, <3>1 DEF Structure
  <2>13. Places(t)'
    BY <1>2, <2>2 DEF Places
  <2>14. Meaning(t)'
    BY <1>2, <1>4, <2>2 DEF Meaning
  <2> QED BY <2>5, <2>11, <2>12, <2>13, <2>14, KeptBy
<1>6. CASE it = NULL
  <2>1. s = <<>> /\ Range(s) = {}
    <3>1. 1 \notin DOMAIN s
      BY <1>3, <1>6 DEF Linked, NodeAt
    <3>2. DOMAIN s = {}
      BY <1>3, <3>1
    <3> QED BY <1>3, <3>1, <3>2, EmptySeq DEF Range
  <2>2. UNCHANGED <<heap, it, fault>> /\ Allocated' = Allocated
    BY <1>6 DEF ClearStep, Allocated
  <2>3. Values(s) = <<>> /\ Values(s)' = <<>>
    BY <2>1 DEF Values
  <2>4. CASE pc = "clear"
    <3>1. /\ mods' = [head |-> NULL, start |-> NoLocation, end |-> NoLocation, count |-> 0]
          /\ Checked
      BY <1>6, <2>4 DEF ClearStep
    <3>2. mods' \in ListOf(Addresses \cup {NULL})
      BY <3>1 DEF ListOf, Location, NoLocation
    <3>3. mods' # NULL /\ pc' \in {"delete", "idle"} /\ (pc' = "delete" => cleanup)
      BY <3>1, <3>2, NullAssumption DEF Checked
    <3>4. TypeOK'
      BY <1>2, <1>4, <2>2, <3>2, <3>3 DEF TypeOK
    <3>5. Structure(s)'
      BY <1>3, <1>6, <2>1, <2>2, <3>1, <3>3 DEF Structure, Linked, NodeAt
    <3>6. Cached(Values(s))'
      BY <2>3, <3>1, RecountEmpty DEF Cached
    <3>7. Meaning(s)'
      BY <1>2, <1>4, <3>3, <3>6 DEF Meaning
    <3>8. Places(s)' /\ ~ fault'
      BY <1>2, <2>2, <3>3 DEF Places
    <3> QED BY <3>4, <3>5, <3>7, <3>8, KeptBy
  <2>5. CASE pc = "delete"
    <3>1. mods' = NULL /\ pc' = "idle"
      BY <1>6, <2>5 DEF ClearStep
    <3>2. TypeOK'
      BY <1>2, <1>4, <2>2, <3>1 DEF TypeOK
    <3>3. Structure(s)'
      BY <1>3, <2>1, <2>2, <3>1 DEF Structure, Linked, NodeAt
    <3>4. Meaning(s)' /\ Places(s)' /\ ~ fault'
      BY <1>2, <2>2, <3>1 DEF Meaning, Places
    <3> QED BY <3>2, <3>3, <3>4, KeptBy
  <2> QED BY <1>2, <2>4, <2>5
<1> QED BY <1>5, <1>6

LEMMA NextKeeps ==
  ASSUME IInv, [Next]_vars
  PROVE  IInv'
<1>1. CASE UNCHANGED vars
  <2>1. PICK s : Shape(s)
    BY DEF IInv
  <2>2. UNCHANGED <<heap, mods, pc, it, prev, arg, acc, cleanup, fault, before>>
    BY <1>1 DEF vars
  <2>3. Values(s)' = Values(s) /\ Allocated' = Allocated
    BY <2>2 DEF Values, Allocated
  <2>4. Structure(s)'
    BY <2>1, <2>2, <2>3 DEF Shape, Structure, Linked
  <2>5. \A k : Counted(Values(s), k) => Counted(Values(s), k)'
    BY <2>2, <2>3 DEF Counted
  <2>6. Places(s)'
    BY <2>1, <2>2, <2>3, <2>5 DEF Shape, Places
  <2>7. Meaning(s)'
    BY <2>1, <2>2, <2>3 DEF Shape, Meaning, Cached
  <2>8. TypeOK' /\ ~ fault'
    BY <2>2 DEF IInv, TypeOK, NoFault
  <2> QED BY <2>4, <2>6, <2>7, <2>8, KeptBy
<1>2. ASSUME NEW n \in Records, NEW a \in Addresses, AddContextSubu(n, a)
      PROVE  IInv'
  BY <1>2, AddContextSubuKeeps
<1>3. ASSUME NEW a \in Addresses, RemoveSubuElem(a) PROVE IInv'
  BY <1>3, RemoveSubuElemKeeps
<1>4. ASSUME NEW start \in Starts, CheckContextClear(start) PROVE IInv'
  <2>1. cleanup' = cleanup /\ Check(start)
    BY <1>4 DEF CheckContextClear
  <2>2. cleanup' \in BOOLEAN
    BY <2>1 DEF IInv, TypeOK
  <2> QED BY <2>1, <2>2, CheckKeeps
<1>5. CASE CleanupContext
  <2>1. cleanup' = TRUE /\ Check(MAX_LOCATION_T)
    BY <1>5 DEF CleanupContext
  <2> QED BY <2>1, CheckKeeps
<1>6. CASE Step
  BY <1>6, AddStepKeeps, RecountStepKeeps, RemoveStepKeeps, CheckStepKeeps,
     ClearStepKeeps DEF Step
<1>7. CASE Terminated
  BY <1>1, <1>7 DEF Terminated
<1> QED BY <1>1, <1>2, <1>3, <1>4, <1>5, <1>6, <1>7 DEF Next

LEMMA InitHolds ==
  ASSUME Init
  PROVE  IInv
<1>1. /\ heap = [a \in Addresses |-> NULL] /\ pc = "idle" /\ fault = FALSE
      /\ mods = [head |-> NULL, start |-> NoLocation, end |-> NoLocation, count |-> 0]
      /\ it = NULL /\ prev = NULL /\ cleanup = FALSE
  BY DEF Init
<1>2. mods \in ListOf(Addresses \cup {NULL}) /\ mods.head = NULL
  BY <1>1 DEF ListOf, Location, NoLocation
<1>3. TypeOK /\ mods # NULL
  BY <1>1, <1>2, NullAssumption DEF TypeOK
<1> DEFINE s == <<>>
<1>4. s \in Seq(Addresses) /\ Distinct(s) /\ Range(s) = {} /\ Values(s) = <<>>
  BY DEF Distinct, Range, Values
<1>5. Linked(NULL, s)
  BY DEF Linked, NodeAt
<1>6. Structure(s)
  BY <1>1, <1>2, <1>4, <1>5 DEF Structure, Allocated
<1>7. Meaning(s)
  BY <1>1, <1>4, RecountEmpty DEF Meaning, Cached
<1>8. Places(s)
  BY <1>1 DEF Places
<1>9. s \in Orders
  BY <1>4, InOrders
<1> QED BY <1>1, <1>3, <1>6, <1>7, <1>8, <1>9 DEF IInv, NoFault, Shape

LEMMA IInvHolds == Spec => []IInv
<1>1. Init => IInv
  BY InitHolds
<1>2. IInv /\ [Next]_vars => IInv'
  BY NextKeeps
<1> QED BY <1>1, <1>2, PTL DEF Spec

-----------------------------------------------------------------------------
(* The variables have their types. *)
THEOREM HeapTypes == Spec => []TypeOK
<1>1. IInv => TypeOK
  BY DEF IInv
<1> QED BY <1>1, IInvHolds, PTL

(* No loop of subcontext.cc follows or frees a pointer to a node that has  *)
(* been freed, or NULL.                                                    *)
THEOREM NoUseAfterFree == Spec => []NoFault
<1>1. IInv => NoFault
  BY DEF IInv
<1> QED BY <1>1, IInvHolds, PTL

(* No node is lost: between two functions those that are allocated are     *)
(* those of the list, and when it has been deleted there are none.         *)
THEOREM NoNodeLost == Spec => []NoLeak
<1>1. IInv => NoLeak
  <2> SUFFICES ASSUME IInv, pc = "idle"
               PROVE  \E s \in Orders :
                        /\ mods = NULL => s = <<>>
                        /\ mods # NULL => Linked(mods.head, s)
                        /\ Allocated = Range(s)
    BY DEF NoLeak
  <2>1. PICK s \in Orders : Structure(s)
    BY DEF IInv, Shape
  <2>2. Allocated = Range(s) /\ s \in Seq(Addresses)
        /\ Linked(IF mods = NULL THEN NULL ELSE mods.head, s)
    BY <2>1 DEF Structure
  <2>3. ASSUME mods = NULL PROVE s = <<>>
    <3>1. NULL = NodeAt(s, 1)
      BY <2>2, <2>3 DEF Linked
    <3>2. 1 \notin DOMAIN s
      BY <2>2, <3>1, ElementOfSeq, LenProperties, NullAssumption DEF NodeAt
    <3> QED BY <2>2, <3>2, LenProperties, EmptySeq
  <2> QED BY <2>2, <2>3
<1> QED BY <1>1, IInvHolds, PTL

-----------------------------------------------------------------------------
(* The functions on pointers are those on sequences: a list of records     *)
(* that is added to, removed from, checked and deleted in single steps.    *)

Mapped   == IF pc = "idle" THEN Value ELSE before
ListStep == [List!Next]_Mapped

LEMMA IdleValue ==
  IInv => (pc = "idle" => \E s \in Orders :
             /\ Structure(s)
             /\ Value = IF mods = NULL THEN NULL ELSE Recount(Values(s)))
BY ValueIs DEF IInv, Shape

LEMMA IdleValuePrimed ==
  ASSUME IInv', pc' = "idle"
  PROVE  \E s \in Orders :
           /\ Structure(s)'
           /\ Value' = IF mods' = NULL THEN NULL ELSE Recount(Values(s)')
<1>1. (IInv => (pc = "idle" => \E s \in Orders :
         /\ Structure(s)
         /\ Value = IF mods = NULL THEN NULL ELSE Recount(Values(s))))'
  BY IdleValue, PTL
<1> QED BY <1>1

(* A function that has left the nodes alone returns the list they make up. *)
LEMMA ReturnedValue ==
  ASSUME IInv', pc' = "idle", mods # NULL, mods' # NULL,
         heap' = heap, mods'.head = mods.head,
         NEW s, Structure(s), pc \notin {"clear", "delete"}
  PROVE  Value' = Recount(Values(s))
<1>1. PICK t \in Orders : Structure(t)' /\ Value' = Recount(Values(t)')
  BY IdleValuePrimed
<1>2. PICK h : h = mods.head
  OBVIOUS
<1>3. t \in Seq(Addresses) /\ Linked(h, t)'
  <2>1. Linked(mods.head, t)' /\ t \in Seq(Addresses)
    BY <1>1 DEF Structure
  <2> QED BY <1>2, <2>1 DEF Linked
<1>4. Linked(h, t)
  BY <1>3 DEF Linked, Allocated
<1>5. s \in Seq(Addresses) /\ Linked(h, s)
  BY <1>2 DEF Structure
<1>6. t = s
  BY <1>3, <1>4, <1>5, OneOrder
<1>7. Values(t)' = Values(t)
  BY DEF Values
<1> QED BY <1>1, <1>6, <1>7

(* A function that runs has been called with a list. *)
LEMMA BeforeType ==
  ASSUME IInv, pc # "idle"
  PROVE  /\ before.head \in Seq(Records) /\ before = Recount(before.head)
         /\ before # NULL /\ mods # NULL
<1>1. PICK s : Shape(s)
  BY DEF IInv
<1>2. before.head \in Seq(Records) /\ before = Recount(before.head) /\ mods # NULL
  BY <1>1 DEF Shape, Meaning, Structure
<1> QED BY <1>2, RecountType, NullAssumption

LEMMA CallStutters ==
  ASSUME Called, pc' # "idle"
  PROVE  ListStep
BY DEF Called, ListStep, Mapped

LEMMA LoopStutters ==
  ASSUME pc # "idle", pc' # "idle", before' = before
  PROVE  ListStep
BY DEF ListStep, Mapped

LEMMA ListOperators ==
  /\ \A v : List!Recount(v) = Recount(v)
  /\ List!EmptyList = EmptyList
  /\ \A l, start : List!Reported(l, start) = Reported(l, start)
BY DEF List!Recount, Recount, List!EmptyList, EmptyList, List!Before2, Before2,
       List!NoLocation, NoLocation, List!Reported, Reported, List!Nodes, Nodes

LEMMA RecountReturns ==
  ASSUME IInv, IInv', RecountStep, pc' = "idle"
  PROVE  ListStep
<1>1. PICK s : Shape(s)
  BY DEF IInv
<1>2. /\ pc = "recount" /\ mods # NULL /\ before # NULL /\ before = Recount(before.head)
      /\ heap' = heap
  BY BeforeType DEF RecountStep
<1>3. mods'.head = mods.head /\ mods' # NULL
  <2>1. it = NULL
    BY <1>2 DEF RecountStep
  <2>2. mods \in ListOf(Addresses \cup {NULL})
    BY <1>2 DEF IInv, TypeOK
  <2>3. acc \in [s : Location \cup {MAX_LOCATION_T}, e : Location, i : Nat]
    BY <1>2 DEF IInv, TypeOK
  <2>4. mods'.head = mods.head /\ mods' \in ListOf(Addresses \cup {NULL})
    BY <2>1, <2>2, <2>3 DEF RecountStep, ListOf
  <2> QED BY <2>4, NullAssumption
<1>4. Value' = Recount(Values(s))
  BY <1>1, <1>2, <1>3, ReturnedValue DEF Shape
<1>5. \/ \E n \in Records : Values(s) = Append(before.head, n)
      \/ \E i \in DOMAIN before.head : Values(s) = Cut(before.head, i)
  BY <1>1, <1>2 DEF Shape, Meaning
<1>6. Mapped = before /\ Mapped' = Recount(Values(s))
  BY <1>2, <1>4 DEF Mapped
<1>7. ASSUME NEW n \in Records, Values(s) = Append(before.head, n)
      PROVE  List!Add(n)
  BY <1>6, <1>7, ListOperators DEF List!Add, List!AddElem, Mapped
<1>8. ASSUME NEW i \in DOMAIN before.head, Values(s) = Cut(before.head, i)
      PROVE  List!Remove(i)
  BY <1>6, <1>8, ListOperators DEF List!Remove, List!RemoveElem, Mapped, Cut
<1>9. List!Next
  BY <1>2, <1>5, <1>6, <1>7, <1>8 DEF List!Next, Mapped
<1> QED BY <1>9 DEF ListStep

LEMMA CheckReturns ==
  ASSUME IInv, IInv', CheckStep, pc' = "idle"
  PROVE  ListStep
<1>1. PICK s : Shape(s)
  BY DEF IInv
<1>2. /\ pc = "check" /\ it = NULL /\ mods # NULL
      /\ before # NULL /\ before = Recount(before.head) /\ Values(s) = before.head
      /\ UNCHANGED <<heap, mods, arg, cleanup>>
  BY <1>1, BeforeType DEF CheckStep, Shape, Meaning
<1>3. acc = 0 /\ ~ cleanup
  BY <1>2 DEF CheckStep, Checked
<1>4. Value' = Recount(Values(s))
  BY <1>1, <1>2, ReturnedValue DEF Shape
<1>5. Mapped = before /\ Mapped' = before
  BY <1>2, <1>4 DEF Mapped
<1> QED BY <1>5 DEF ListStep

LEMMA ClearReturns ==
  ASSUME IInv, IInv', ClearStep, pc' = "idle"
  PROVE  ListStep
<1>1. PICK s : Shape(s)
  BY DEF IInv
<1>2. /\ pc \in {"clear", "delete"} /\ it = NULL /\ before # NULL
      /\ UNCHANGED <<heap, arg, cleanup>>
  BY BeforeType DEF ClearStep
<1>3. Mapped = before
  BY <1>2 DEF Mapped
<1>4. CASE pc = "delete"
  <2>1. mods' = NULL
    BY <1>2, <1>4 DEF ClearStep
  <2>2. Mapped' = NULL
    BY <2>1 DEF Mapped, Value
  <2> QED BY <1>2, <1>3, <2>2 DEF ListStep, List!Next, List!Delete, Mapped
<1>5. CASE pc = "clear"
  <2>1. /\ mods' = [head |-> NULL, start |-> NoLocation, end |-> NoLocation, count |-> 0]
        /\ ~ cleanup
    BY <1>2, <1>5 DEF ClearStep, Checked
  <2>2. mods'.head = NULL /\ mods' \in ListOf(Addresses \cup {NULL})
    BY <2>1 DEF ListOf, Location, NoLocation
  <2>3. PICK t \in Orders :
          Structure(t)' /\ Value' = IF mods' = NULL THEN NULL ELSE Recount(Values(t)')
    BY IdleValuePrimed
  <2>4. t \in Seq(Addresses) /\ NULL = NodeAt(t, 1)
    <3>1. t \in Seq(Addresses) /\ Linked(mods.head, t)'
      BY <2>2, <2>3, NullAssumption DEF Structure
    <3> QED BY <2>2, <3>1 DEF Linked
  <2>5. t = <<>>
    <3>1. 1 \notin DOMAIN t
      BY <2>4, ElementOfSeq, LenProperties, NullAssumption DEF NodeAt
    <3> QED BY <2>4, <3>1, LenProperties, EmptySeq
  <2>6. Values(t)' = <<>>
    BY <2>5 DEF Values
  <2>7. Mapped' = EmptyList
    BY <2>2, <2>3, <2>6, NullAssumption DEF Mapped, EmptyList
  <2>8. arg \in Starts /\ Reported(before, arg) # {}
    BY <1>1, <1>5, <2>1 DEF Shape, Meaning
  <2>9. List!Check(arg)
    BY <1>3, <2>7, <2>8, ListOperators DEF List!Check, List!CheckEmpty, Mapped
  <2> QED BY <1>2, <1>3, <2>8, <2>9 DEF ListStep, List!Next, Mapped
<1> QED BY <1>2, <1>4, <1>5

LEMMA StepRefines ==
  ASSUME IInv, IInv', [Next]_vars
  PROVE  ListStep
<1>1. CASE UNCHANGED vars
  <2>1. UNCHANGED <<heap, mods, pc, before>>
    BY <1>1 DEF vars
  <2>2. CASE pc = "idle" /\ mods # NULL
    <3>1. PICK s \in Orders : Structure(s) /\ Value = Recount(Values(s))
      BY <2>2, IdleValue
    <3>2. Value' = Recount(Values(s))
      BY <2>1, <2>2, <3>1, ReturnedValue
    <3> QED BY <2>1, <3>1, <3>2 DEF ListStep, Mapped
  <2>3. CASE pc = "idle" /\ mods = NULL
    BY <2>1, <2>3 DEF ListStep, Mapped, Value
  <2>4. CASE pc # "idle"
    BY <2>1, <2>4 DEF ListStep, Mapped
  <2> QED BY <2>2, <2>3, <2>4
<1>2. ASSUME NEW n \in Records, NEW a \in Addresses, AddContextSubu(n, a)
      PROVE  ListStep
  BY <1>2, CallStutters DEF AddContextSubu, Recounting
<1>3. ASSUME NEW a \in Addresses, RemoveSubuElem(a) PROVE ListStep
  BY <1>3, CallStutters DEF RemoveSubuElem, Recounting
<1>4. ASSUME NEW start \in Starts, CheckContextClear(start) PROVE ListStep
  BY <1>4, CallStutters DEF CheckContextClear, Check
<1>5. CASE CleanupContext
  BY <1>5, CallStutters DEF CleanupContext, Check
<1>6. CASE AddStep
  BY <1>6, LoopStutters DEF AddStep, Recounting
<1>7. CASE RecountStep
  BY <1>7, LoopStutters, RecountReturns DEF RecountStep
<1>8. CASE RemoveStep
  BY <1>8, LoopStutters DEF RemoveStep, Recounting
<1>9. CASE CheckStep
  BY <1>9, LoopStutters, CheckReturns DEF CheckStep
<1>10. CASE ClearStep
  BY <1>10, LoopStutters, ClearReturns DEF ClearStep
<1>11. CASE Terminated
  BY <1>1, <1>11 DEF Terminated
<1> QED BY <1>1, <1>2, <1>3, <1>4, <1>5, <1>6, <1>7, <1>8, <1>9, <1>10, <1>11
        DEF Next, Step

(* Every behaviour of the loops over pointers is one of the list of        *)
(* records: seen from outside, a function does in one step, when it        *)
(* returns, what SubuList says of it.                                      *)
THEOREM LoopsImplementList == Spec => ImplementsList
<1>1. Init => List!Init
  <2> SUFFICES ASSUME Init PROVE List!Init
    OBVIOUS
  <2>1. IInv /\ pc = "idle" /\ mods.head = NULL /\ heap = [a \in Addresses |-> NULL]
    BY InitHolds DEF Init
  <2>2. PICK s \in Orders :
          Structure(s) /\ Value = IF mods = NULL THEN NULL ELSE Recount(Values(s))
    BY <2>1, IdleValue
  <2>3. mods # NULL
    <3>1. mods \in ListOf(Addresses \cup {NULL})
      BY DEF Init, ListOf, Location, NoLocation
    <3> QED BY <3>1, NullAssumption
  <2>4. DOMAIN s = {}
    BY <2>1, <2>2 DEF Structure, Linked, Allocated
  <2>5. Values(s) = <<>>
    BY <2>4 DEF Values
  <2> QED BY <2>1, <2>2, <2>3, <2>5, ListOperators DEF List!Init, EmptyList
<1>2. IInv /\ IInv' /\ [Next]_vars => ListStep
  BY StepRefines
<1> QED BY <1>1, <1>2, IInvHolds, PTL
        DEF Spec, ImplementsList, List!Spec, ListStep, Mapped

=============================================================================
