------------------------- MODULE InitializerProofs -------------------------
(***************************************************************************)
(* The search of an initializer is right for every initializer, however    *)
(* deep, and every list of records: it never mistakes a constant for that  *)
(* of another macro, and misses none that it could replace.                *)
(***************************************************************************)
EXTENDS Initializer, SubuListProofs

-----------------------------------------------------------------------------
(* Integers of gcc.                                                        *)

LEMMA Remainder ==
  ASSUME NEW M \in Nat, M > 0, NEW x \in Int
  PROVE  /\ 0 <= x /\ x < M => x % M = x
         /\ -M <= x /\ x < 0 => x % M = x + M
BY SMT

(* What the numbers of tmpconst.h and their opposites need. *)
Small == {v \in Int : -33554432 <= v /\ v < 33554432}

LEMMA ConvertWide ==
  ASSUME NEW v \in Small, NEW t \in Types \ {"short", "ushort"}
  PROVE  /\ t \in Signed => Convert(v, t) = v
         /\ t \notin Signed => Convert(v, t) = IF v >= 0 THEN v ELSE v + Modulus[t]
<1> DEFINE M == Modulus[t]
           h == M \div 2
<1>1. M \in Nat /\ M >= 67108864 /\ M % 2 = 0
  BY ModulusAssumption, SMT
<1> HIDE DEF M
<1>2. h \in Nat /\ M = 2 * h
  BY <1>1, SMT
<1> HIDE DEF h
<1>0. v \in Int /\ -33554432 <= v /\ v < 33554432
  BY SMT DEF Small
<1>3. CASE t \in Signed
  <2>1. 0 <= v + h /\ v + h < M /\ v + h \in Int /\ h >= 33554432
    BY <1>0, <1>1, <1>2, SMT
  <2>2. (v + h) % M = v + h
    BY <2>1, <1>1, Remainder, SMT
  <2>3. Convert(v, t) = ((v + h) % M) - h
    BY <1>3, SMT DEF Convert, Half, M, h
  <2> QED BY <1>3, <2>2, <2>3, <1>2, <1>0, SMT
<1>4. CASE t \notin Signed
  <2>1. Convert(v, t) = v % M
    BY <1>4, SMT DEF Convert, M
  <2>2. v % M = IF v >= 0 THEN v ELSE v + M
    BY <1>0, <1>1, Remainder, SMT
  <2> QED BY <1>4, <2>1, <2>2, SMT DEF M
<1> QED BY <1>3, <1>4, SMT

LEMMA ConvertShort ==
  ASSUME NEW v \in Int
  PROVE  /\ Convert(v, "short") = ((v + 32768) % 65536) - 32768
         /\ Convert(v, "ushort") = v % 65536
<1>1. Modulus["short"] = 65536 /\ Modulus["ushort"] = 65536
  BY ModulusAssumption, SMT
<1>2. 65536 \div 2 = 32768
  BY SMT
<1> QED BY <1>1, <1>2, SMT DEF Convert, Half, Signed

(* The numbers but the baud rates, and what the source may do to them. *)
Recognisable == SignedMagic \cup InetMagic

LEMMA NumberIs ==
  ASSUME NEW m \in Recognisable
  PROVE  /\ m \in Int /\ m % 2 = 0
         /\ m = 58236 \/ (-15824158 <= m /\ m <= -15823504)
BY SMT DEF Recognisable, SignedMagic, InetMagic

LEMMA ApplyIs ==
  ASSUME NEW m \in Recognisable
  PROVE  /\ Apply("plain", m) = m
         /\ Apply("minus", m) = -m
         /\ Apply("not", m) = -m - 1
BY SMT DEF Apply

LEMMA FoldedIs ==
  ASSUME NEW m \in Recognisable, NEW o \in Ops, NEW t \in Types
  PROVE  Folded(m, o, t) = Convert(Apply(o, m), t) /\ Apply(o, m) \in Small
<1>1. Apply(o, m) \in Small
  BY NumberIs, ApplyIs, SMT DEF Ops, Small
<1>2. Promoted(TypeOf(m)) = "int"
  BY SMT DEF Promoted, TypeOf, Recognisable, SignedMagic, InetMagic, BaudMagic
<1>3. Convert(Apply(o, m), "int") = Apply(o, m)
  BY <1>1, ConvertWide, SMT DEF Types, Signed
<1> QED BY <1>1, <1>2, <1>3, SMT DEF Folded

(* What Kind says of a value v. *)
LEMMA KindIs ==
  ASSUME NEW v \in Int, NEW n \in Recognisable
  PROVE  /\ Kind(v, n) \in Ops \cup {"none"}
         /\ Kind(v, n) = "plain" => v = n
         /\ Kind(v, n) = "minus" => n = -v /\ v # n
         /\ Kind(v, n) = "not" => n = -v - 1 /\ v # n /\ n # -v
         /\ v = n => Kind(v, n) = "plain"
<1>1. n \in Int
  BY NumberIs, SMT
<1>2. Fits64(v) \in BOOLEAN
  BY SMT DEF Fits64
<1> QED BY <1>1, <1>2, SMT DEF Kind, Ops

LEMMA KindOfApplied ==
  ASSUME NEW m \in Recognisable, NEW n \in Recognisable, NEW o \in Ops,
         Kind(Apply(o, m), n) # "none"
  PROVE  m = n /\ Kind(Apply(o, m), n) = o
<1> DEFINE v == Apply(o, m)
<1>1. v \in Int
  BY FoldedIs, SMT DEF Small, Types
<1>2. CASE o = "plain"
  <2>1. v = m
    BY <1>2, ApplyIs
  <2> QED BY <2>1, <1>2, NumberIs, KindIs, SMT DEF Ops
<1>3. CASE o = "minus"
  <2>1. v = -m
    BY <1>3, ApplyIs
  <2> QED BY <2>1, <1>1, <1>3, NumberIs, KindIs, SMT DEF Ops
<1>4. CASE o = "not"
  <2>1. v = -m - 1
    BY <1>4, ApplyIs
  <2> QED BY <2>1, <1>1, <1>4, NumberIs, KindIs, SMT DEF Ops
<1> QED BY <1>2, <1>3, <1>4 DEF Ops

(* No constant of an initializer is taken for one of another macro, nor    *)
(* for another form of its own, whatever type it was converted to.         *)
LEMMA KindOwn ==
  ASSUME NEW m \in Recognisable, NEW n \in Recognisable, NEW o \in Ops,
         NEW t \in Types, Kind(Folded(m, o, t), n) # "none"
  PROVE  m = n /\ Kind(Folded(m, o, t), n) = o
<1> DEFINE w == Apply(o, m)
           v == Folded(m, o, t)
<1>1. w \in Small /\ w \in Int /\ v = Convert(w, t)
  BY FoldedIs, SMT DEF Small
<1>2. CASE t \notin {"short", "ushort"}
  <2>1. CASE v = w
    BY <2>1, KindOfApplied
  <2>2. CASE v # w
    <3>1. v = w + Modulus[t] /\ w < 0
      BY <1>1, <1>2, <2>2, ConvertWide, SMT DEF Small
    <3>2. Modulus[t] \in Nat /\ Modulus[t] >= 67108864
      BY <1>2, ModulusAssumption, SMT
    <3>3. v \in Int /\ v >= 33554432
      BY <3>1, <3>2, <1>1, SMT DEF Small
    <3>4. Kind(v, n) = "none"
      BY <3>3, KindIs, NumberIs, SMT DEF Ops
    <3> QED BY <3>4
  <2> QED BY <2>1, <2>2
<1>3. CASE t \in {"short", "ushort"}
  <2>1. v \in Int /\ -32768 <= v /\ v < 65536
    BY <1>1, <1>3, ConvertShort, SMT
  <2>2. v = 58236 /\ n = 58236 /\ Kind(v, n) = "plain"
    BY <2>1, KindIs, NumberIs, SMT DEF Ops
  <2>3. w % 65536 = 58236
    BY <2>2, <1>1, <1>3, ConvertShort, SMT
  <2>4. CASE o = "plain"
    <3>1. w = m
      BY <2>4, ApplyIs
    <3> QED BY <3>1, <2>2, <2>3, <2>4, NumberIs, SMT
  <2>5. CASE o = "minus"
    <3>1. w = -m
      BY <2>5, ApplyIs
    <3> QED BY <3>1, <2>3, NumberIs, SMT
  <2>6. CASE o = "not"
    <3>1. w = -m - 1
      BY <2>6, ApplyIs
    <3> QED BY <3>1, <2>3, NumberIs, SMT
  <2> QED BY <2>4, <2>5, <2>6 DEF Ops
<1> QED BY <1>2, <1>3

(* Each form of a macro is found in a signed element as wide as an int. *)
LEMMA KindFound ==
  ASSUME NEW m \in Recognisable, NEW o \in Ops, NEW t \in {"int", "long"}
  PROVE  Kind(Folded(m, o, t), m) # "none"
<1> DEFINE w == Apply(o, m)
<1>1. w \in Small /\ Folded(m, o, t) = w
  BY FoldedIs, ConvertWide, SMT DEF Types, Signed
<1>2. Fits64(w)
  <2>1. Modulus["long"] \in Nat /\ Modulus["long"] >= 67108864
    BY ModulusAssumption, SMT DEF Types
  <2> QED BY <2>1, <1>1, SMT DEF Fits64, Half, Small
<1>3. m \in Int
  BY NumberIs, SMT
<1>4. w = m \/ m = -w \/ m = -w - 1
  BY <1>3, ApplyIs, SMT DEF Ops
<1> QED BY <1>1, <1>2, <1>4 DEF Kind

-----------------------------------------------------------------------------
(* Lists of records.                                                       *)

LEMMA AgreeingIs ==
  ASSUME NEW v, NEW l, NEW S, l.head \in Seq(S)
  PROVE  /\ \A p \in Agreeing(v, l) :
              p \in DOMAIN l.head /\ Kind(v, l.head[p].name) # "none"
         /\ (\E p \in DOMAIN l.head : Kind(v, l.head[p].name) # "none")
              => Agreeing(v, l) # {}
<1>1. \A p \in Agreeing(v, l) :
        p \in DOMAIN l.head /\ Kind(v, l.head[p].name) # "none"
  BY DEF Agreeing, FirstElem
<1>2. ASSUME NEW q \in DOMAIN l.head, Kind(v, l.head[q].name) # "none"
      PROVE  Agreeing(v, l) # {}
  <2> DEFINE T == {p \in DOMAIN l.head : Kind(v, l.head[p].name) # "none"}
  <2>0. DOMAIN l.head \subseteq Nat
    OBVIOUS
  <2>1. T \subseteq Nat /\ T # {}
    BY <1>2, <2>0
  <2>2. PICK p \in T : \A y \in T : p <= y
    BY <2>1, LeastNatural
  <2>3. \A j \in DOMAIN l.head : j < p => j \notin T
    BY <2>0, <2>1, <2>2
  <2>4. p \in Agreeing(v, l)
    BY <2>2, <2>3 DEF Agreeing, FirstElem
  <2> QED BY <2>4
<1> QED BY <1>1, <1>2

LEMMA AgreeingLess ==
  ASSUME NEW l, l.head \in Seq(Node(Macros)), NEW p \in DOMAIN l.head, NEW v,
         Agreeing(v, RemoveElem(l, p)) # {}
  PROVE  Agreeing(v, l) # {}
<1> DEFINE r == RemoveElem(l, p)
<1>1. r.head \in Seq(Node(Macros))
  BY RemoveIs
<1>2. PICK q \in DOMAIN r.head : Kind(v, r.head[q].name) # "none"
  BY <1>1, AgreeingIs
<1>3. PICK i \in DOMAIN l.head : r.head[q] = l.head[i]
  BY RecordsStay
<1> QED BY <1>2, <1>3, AgreeingIs

(* The fields of a list are those of its records. *)
LEMMA FieldsAre ==
  ASSUME NEW l, l.head \in Seq(Node(Macros)), l = Recount(l.head)
  PROVE  /\ l.count \in Nat /\ l.count = Len(l.head)
         /\ l.count > 0 =>
              /\ l.start \in Location
              /\ \A i \in DOMAIN l.head : Before2(l.start, l.head[i].loc)
              /\ \A i \in DOMAIN l.head : l.head[i].loc \in Location
              /\ \E i \in DOMAIN l.head : l.start = l.head[i].loc
<1>1. Recount(l.head).count = Len(l.head) /\ Len(l.head) \in Nat
  BY DEF Recount
<1>2. ASSUME l.count > 0
      PROVE  /\ l.start \in Location
             /\ \A i \in DOMAIN l.head : Before2(l.start, l.head[i].loc)
             /\ \A i \in DOMAIN l.head : l.head[i].loc \in Location
             /\ \E i \in DOMAIN l.head : l.start = l.head[i].loc
  <2>1. 1 \in DOMAIN l.head
    BY <1>1, <1>2
  <2> QED BY <2>1, BoundsEnclose
<1> QED BY <1>1, <1>2

(* A list whose records are all at or behind b keeps them so. *)
Beyond(l, b) == l.count = 0 \/ Before2(b, l.start)

LEMMA BeyondStays ==
  ASSUME NEW l, l.head \in Seq(Node(Macros)), l = Recount(l.head),
         NEW p \in DOMAIN l.head, NEW b \in Location, Beyond(l, b)
  PROVE  Beyond(RemoveElem(l, p), b)
<1> DEFINE r == RemoveElem(l, p)
<1>1. r.head \in Seq(Node(Macros)) /\ r = Recount(r.head)
  BY RemoveIs
<1>2. l.count > 0
  BY FieldsAre
<1>3. SUFFICES ASSUME r.count # 0 PROVE Before2(b, r.start)
  BY DEF Beyond
<1>4. r.count > 0
  BY <1>1, <1>3, FieldsAre
<1>5. PICK j \in DOMAIN r.head : r.start = r.head[j].loc
  BY <1>1, <1>4, FieldsAre
<1>6. PICK i \in DOMAIN l.head : r.head[j] = l.head[i]
  BY RecordsStay
<1>7. /\ Before2(l.start, l.head[i].loc)
      /\ l.start \in Location /\ l.head[i].loc \in Location
  BY <1>2, FieldsAre
<1>8. Before2(b, l.start)
  BY <1>2 DEF Beyond
<1> QED BY <1>5, <1>6, <1>7, <1>8, Before2Order

(* When the while loop does not run, no record is before the bound. *)
LEMMA LoopEnds ==
  ASSUME NEW l, l.head \in Seq(Node(Macros)), l = Recount(l.head),
         NEW b \in Location, ~ (l.count > 0 /\ Before2(l.start, b))
  PROVE  Beyond(l, b)
BY FieldsAre, Before2Order DEF Beyond

-----------------------------------------------------------------------------
(* The invariant.                                                          *)

Agrees(i) ==
  ctor[i].elt.kind = "cst" /\ ~ Overwritten(i) /\ Agreeing(Value(ctor[i].elt), list) # {}

(* The elements before the one looked at are done with, however often the  *)
(* local function has started again.                                       *)
Passed == UsedUp \/ \A i \in 1..(at - 1) : ~ Agrees(i)

(* The other function goes forward. *)
Forward == ~ local => \A s \in subs : s.at < at

IInv == TypeOK /\ Passed /\ Forward

LEMMA Numbers ==
  ASSUME TypeOK
  PROVE  /\ Len(ctor) \in Nat /\ DOMAIN ctor = 1..Len(ctor)
         /\ in \in Nat /\ at \in Nat /\ Behind(in) \in Nat
         /\ in < at /\ at <= Behind(in) /\ Behind(in) <= Len(ctor) + 1
         /\ Behind(0) = Len(ctor) + 1
<1>1. Len(ctor) \in Nat /\ DOMAIN ctor = 1..Len(ctor)
  BY DEF TypeOK
<1>2. in \in 0..Len(ctor) /\ at \in (in + 1)..Behind(in)
  BY DEF TypeOK
<1>3. CASE in = 0
  BY <1>1, <1>2, <1>3 DEF Behind, LastOf
<1>4. CASE in # 0
  <2>1. ctor[in].last \in in..Len(ctor)
    BY <1>1, <1>2, <1>4 DEF TypeOK, Nested
  <2> QED BY <2>1, <1>1, <1>2, <1>4 DEF Behind, LastOf
<1> QED BY <1>3, <1>4

LEMMA RoundIs ==
  ASSUME NEW l, NEW c, NEW i
  PROVE  /\ Round(l, c, i) \in {i, Behind(c)}
         /\ Round(l, c, i) # i => ~ (l.count > 0 /\ Before2(l.start, bound))
BY DEF Round

LEMMA InitType == Init => TypeOK
<1> SUFFICES ASSUME Init PROVE TypeOK
  OBVIOUS
<1>1. PICK s \in Searches :
        /\ ctor \in s.ctors /\ list \in s.lists /\ local \in BOOLEAN
        /\ \E b \in s.bounds :
             SetValuesBasedOnCtor(b) \/ UpdateGlobalDecls(b) \/ ModifyLocalStructCtor(b)
  BY DEF Init
<1>2. /\ Nested(ctor) /\ ctor \in Seq([elt : Elements, up : Nat, last : Nat])
      /\ list.head \in Seq(Node(Macros)) /\ list = Recount(list.head)
      /\ s.bounds \subseteq Location
  BY <1>1, SearchesAssumption
<1>3. list.end \in Location
  <2>1. CASE list.head = <<>>
    <3>1. list.end = NoLocation
      BY <1>2, <2>1 DEF Recount
    <3> QED BY <3>1 DEF NoLocation, Location
  <2>2. CASE list.head # <<>>
    <3>1. 1 \in DOMAIN list.head
      BY <1>2, <2>2
    <3> QED BY <1>2, <3>1, BoundsEnclose
  <2> QED BY <2>1, <2>2
<1>4. bound \in Location
  BY <1>1, <1>2, <1>3
     DEF SetValuesBasedOnCtor, UpdateGlobalDecls, ModifyLocalStructCtor
<1>5. Len(ctor) \in Nat /\ Behind(0) = Len(ctor) + 1
  BY <1>2 DEF Behind, LastOf
<1>6. in = 0 /\ at \in {1, Behind(0)} /\ subs = {}
  BY RoundIs DEF Init
<1> QED BY <1>1, <1>2, <1>4, <1>5, <1>6 DEF TypeOK

LEMMA InitHolds == Init => IInv
<1> SUFFICES ASSUME Init PROVE IInv
  OBVIOUS
<1>1. TypeOK
  BY InitType
<1>2. at = Round(list, 0, 1) /\ subs = {}
  BY DEF Init
<1>3. at = 1 => Passed
  BY DEF Passed
<1>4. at # 1 => Passed
  <2>1. at # 1 => Beyond(list, bound)
    BY <1>1, <1>2, RoundIs, LoopEnds DEF TypeOK
  <2> QED BY <2>1 DEF Beyond, UsedUp, Passed
<1> QED BY <1>1, <1>2, <1>3, <1>4 DEF IInv, Forward

(* What a step that leaves the list alone must show. *)
LEMMA KeptBy ==
  ASSUME TypeOK, Passed, Forward, UNCHANGED <<ctor, list, bound, local, subs>>,
         at' \in Nat, at <= at',
         UsedUp \/ \A i \in at..(at' - 1) : ~ Agrees(i)
  PROVE  Passed' /\ Forward'
<1>0. at \in Nat
  BY Numbers
<1>1. UsedUp' = UsedUp /\ \A i : Agrees(i)' = Agrees(i)
  BY DEF UsedUp, Agrees, Overwritten
<1>2. Passed'
  <2>1. CASE UsedUp
    BY <2>1, <1>1 DEF Passed
  <2>2. CASE ~ UsedUp
    <3>1. ASSUME NEW i \in 1..(at' - 1) PROVE ~ Agrees(i)
      <4>1. i \in 1..(at - 1) \/ i \in at..(at' - 1)
        <5>1. PICK k \in Nat : k = at'
          OBVIOUS
        <5>2. i \in 1..(k - 1)
          BY <5>1
        <5>3. i \in 1..(at - 1) \/ i \in at..(k - 1)
          BY <1>0, <5>2
        <5> QED BY <5>1, <5>3
      <4> QED BY <4>1, <2>2 DEF Passed
    <3> QED BY <3>1, <1>1 DEF Passed
  <2> QED BY <2>1, <2>2
<1>3. Forward'
  <2>1. ASSUME ~ local, NEW s \in subs PROVE s.at < at'
    <3>1. s.at < at /\ s.at \in Nat
      BY <2>1, <1>0, Numbers DEF Forward, TypeOK
    <3> QED BY <3>1, <1>0
  <2> QED BY <2>1 DEF Forward
<1> QED BY <1>2, <1>3

LEMMA PassOverKeeps ==
  ASSUME IInv, PassOver PROVE IInv'
<1>1. TypeOK /\ Passed /\ Forward
  BY DEF IInv
<1>2. /\ at' = at + 1 /\ at < Behind(in)
      /\ UNCHANGED <<ctor, list, bound, local, in, subs>>
      /\ Hits(ctor[at].elt) = {}
  BY DEF PassOver, Looking
<1>3. Behind(in)' = Behind(in)
  BY <1>2 DEF Behind, LastOf
<1>4. TypeOK'
  <2>1. at' \in (in' + 1)..Behind(in)'
    BY <1>1, <1>2, <1>3, Numbers
  <2> QED BY <2>1, <1>1, <1>2 DEF TypeOK, Nested, LastOf
<1>5. ~ Agrees(at)
  BY <1>2 DEF Hits, Agrees
<1>6. at' \in Nat /\ at <= at' /\ \A i \in at..(at' - 1) : ~ Agrees(i)
  BY <1>1, <1>2, <1>5, Numbers
<1> QED BY <1>1, <1>2, <1>4, <1>6, KeptBy DEF IInv

LEMMA CallKeeps ==
  ASSUME IInv, Call PROVE IInv'
<1>1. TypeOK /\ Passed /\ Forward
  BY DEF IInv
<1>2. /\ in' = at /\ at' = Round(list, at, at + 1) /\ at < Behind(in)
      /\ ctor[at].elt.kind = "ctor"
      /\ UNCHANGED <<ctor, list, bound, local, subs>>
  BY DEF Call, Looking
<1>3. /\ at \in DOMAIN ctor /\ at \in Nat /\ at > 0
      /\ ctor[at].last \in at..Len(ctor) /\ Len(ctor) \in Nat
  <2>1. at \in DOMAIN ctor /\ at \in Nat /\ at > 0 /\ Len(ctor) \in Nat
    BY <1>1, <1>2, Numbers
  <2> QED BY <2>1, <1>1 DEF TypeOK, Nested
<1>4. Behind(at) = ctor[at].last + 1 /\ Behind(in)' = Behind(at)
  BY <1>2, <1>3 DEF Behind, LastOf
<1>5. at' \in Nat /\ at + 1 <= at' /\ at' <= Behind(at)
  BY <1>2, <1>3, <1>4, RoundIs
<1>6. TypeOK'
  <2>1. at' \in (in' + 1)..Behind(in)' /\ in' \in 0..Len(ctor')
    BY <1>2, <1>3, <1>4, <1>5
  <2>2. in' # 0 => ctor'[in'].elt.kind = "ctor"
    BY <1>2
  <2> QED BY <2>1, <2>2, <1>1, <1>2 DEF TypeOK, Nested, LastOf
<1>7. UsedUp \/ \A i \in at..(at' - 1) : ~ Agrees(i)
  <2>1. CASE at' = at + 1
    <3>1. ~ Agrees(at)
      BY <1>2 DEF Agrees
    <3> QED BY <3>1, <2>1, <1>3
  <2>2. CASE at' # at + 1
    <3>1. Beyond(list, bound)
      BY <1>1, <1>2, <2>2, RoundIs, LoopEnds DEF TypeOK
    <3> QED BY <3>1 DEF Beyond, UsedUp
  <2> QED BY <2>1, <2>2
<1>8. at <= at'
  BY <1>3, <1>5
<1> QED BY <1>1, <1>2, <1>5, <1>6, <1>7, <1>8, KeptBy DEF IInv

LEMMA ReturnKeeps ==
  ASSUME IInv, Return PROVE IInv'
<1>1. TypeOK /\ Passed /\ Forward
  BY DEF IInv
<1>2. /\ at = Behind(in) /\ in # 0 /\ in' = ctor[in].up
      /\ at' = IF Stop THEN Behind(in)' ELSE at
      /\ UNCHANGED <<ctor, list, bound, local, subs>>
  BY DEF Return, Behind
<1>3. /\ in \in DOMAIN ctor /\ in \in Nat /\ in > 0 /\ Len(ctor) \in Nat
      /\ ctor[in].last \in in..Len(ctor) /\ ctor[in].up \in 0..(in - 1)
      /\ ctor[in].last <= LastOf(ctor, ctor[in].up)
      /\ ctor[in].up = 0 \/ ctor[ctor[in].up].elt.kind = "ctor"
  <2>1. in \in DOMAIN ctor /\ in \in Nat /\ in > 0 /\ Len(ctor) \in Nat
    BY <1>1, <1>2 DEF TypeOK
  <2> QED BY <2>1, <1>1 DEF TypeOK, Nested
<1>4. at = ctor[in].last + 1 /\ Behind(in)' = LastOf(ctor, ctor[in].up) + 1
  BY <1>2 DEF Behind, LastOf
<1>5. LastOf(ctor, ctor[in].up) \in Nat
  <2>1. CASE ctor[in].up = 0
    BY <2>1, <1>3 DEF LastOf
  <2>2. CASE ctor[in].up # 0
    <3>1. ctor[in].up \in DOMAIN ctor
      BY <1>1, <1>3, <2>2, Numbers
    <3>2. ctor[ctor[in].up].last \in ctor[in].up..Len(ctor)
      BY <3>1, <1>1 DEF TypeOK, Nested
    <3> QED BY <2>2, <3>2, <1>3 DEF LastOf
  <2> QED BY <2>1, <2>2
<1>6. at' \in Nat /\ at <= at' /\ at' <= Behind(in)' /\ in' + 1 <= at'
  BY <1>2, <1>3, <1>4, <1>5
<1>7. TypeOK'
  <2>1. at' \in (in' + 1)..Behind(in)' /\ in' \in 0..Len(ctor')
    BY <1>2, <1>3, <1>4, <1>5, <1>6
  <2>2. in' # 0 => ctor'[in'].elt.kind = "ctor"
    BY <1>2, <1>3
  <2> QED BY <2>1, <2>2, <1>1, <1>2 DEF TypeOK, Nested, LastOf
<1>8. UsedUp \/ \A i \in at..(at' - 1) : ~ Agrees(i)
  <2>1. CASE Stop
    BY <2>1 DEF Stop, UsedUp
  <2>2. CASE ~ Stop
    <3>1. at' = at /\ at \in Nat
      BY <1>1, <1>2, <2>2, Numbers
    <3> QED BY <3>1
  <2> QED BY <2>1, <2>2
<1> QED BY <1>1, <1>2, <1>6, <1>7, <1>8, KeptBy DEF IInv

(* A constant is replaced: the elements before it still agree with no      *)
(* record, since records only become fewer, so that the local function may *)
(* start again from the first.                                             *)
LEMMA SubstituteKeeps ==
  ASSUME IInv, Substitute PROVE IInv'
<1>1. TypeOK /\ Passed /\ Forward
  BY DEF IInv
<1>2. PICK p \in Hits(ctor[at].elt) :
        /\ list' = RemoveElem(list, p)
        /\ subs' = subs \cup {[at |-> at, node |-> list.head[p]]}
  BY DEF Substitute
<1>3. /\ at < Behind(in) /\ at' = Round(list', in, Again)
      /\ UNCHANGED <<ctor, bound, local, in>>
  BY DEF Substitute, Looking
<1>4. /\ list.head \in Seq(Node(Macros)) /\ list = Recount(list.head)
      /\ bound \in Location
  BY <1>1 DEF TypeOK
<1>5. p \in DOMAIN list.head /\ list.head[p] \in Node(Macros)
  <2>1. p \in Agreeing(Value(ctor[at].elt), list)
    BY DEF Hits
  <2>2. p \in DOMAIN list.head
    BY <2>1, <1>4, AgreeingIs
  <2> QED BY <2>2, <1>4
<1>6. /\ in \in Nat /\ at \in Nat /\ Behind(in) \in Nat /\ in < at
      /\ at \in DOMAIN ctor /\ Len(ctor) \in Nat
  BY <1>1, <1>3, Numbers
<1>7. at' \in {in + 1, at + 1, Behind(in)} /\ (~ local => at' \in {at + 1, Behind(in)})
  BY <1>3, RoundIs DEF Again
<1>8. Behind(in)' = Behind(in)
  BY <1>3 DEF Behind, LastOf
<1>9. at' \in Nat /\ in + 1 <= at' /\ at' <= Behind(in) /\ (~ local => at + 1 <= at')
  BY <1>3, <1>6, <1>7
<1>10. TypeOK'
  <2>1. list'.head \in Seq(Node(Macros)) /\ list' = Recount(list'.head)
    BY <1>2, <1>4, <1>5, RemoveIs
  <2>2. at' \in (in' + 1)..Behind(in)'
    BY <1>3, <1>6, <1>8, <1>9
  <2>3. subs' \subseteq [at : DOMAIN ctor', node : Node(Macros)]
    BY <1>1, <1>2, <1>3, <1>5, <1>6 DEF TypeOK
  <2> QED BY <2>1, <2>2, <2>3, <1>1, <1>3 DEF TypeOK, Nested, LastOf
<1>11. Forward'
  <2>1. ASSUME ~ local, NEW s \in subs' PROVE s.at < at'
    <3>1. CASE s \in subs
      <4>1. s.at < at /\ s.at \in Nat
        BY <2>1, <3>1, <1>1, Numbers DEF Forward, TypeOK
      <4> QED BY <4>1, <2>1, <1>6, <1>9
    <3>2. CASE s = [at |-> at, node |-> list.head[p]]
      BY <3>2, <2>1, <1>6, <1>9
    <3> QED BY <3>1, <3>2, <1>2
  <2> QED BY <2>1, <1>3 DEF Forward
<1>12. CASE UsedUp
  <2>1. Beyond(list', bound)
    BY <1>2, <1>4, <1>5, <1>12, BeyondStays DEF Beyond, UsedUp
  <2>2. UsedUp'
    BY <2>1, <1>3 DEF Beyond, UsedUp
  <2> QED BY <2>2, <1>10, <1>11 DEF IInv, Passed
<1>13. CASE ~ UsedUp
  <2>1. ASSUME NEW i \in 1..at PROVE ~ Agrees(i)'
    <3>1. CASE i = at
      <4>1. Overwritten(i)'
        <5> DEFINE new == [at |-> at, node |-> list.head[p]]
        <5>1. new \in subs' /\ new.at = i
          BY <1>2, <3>1
        <5> QED BY <5>1 DEF Overwritten
      <4> QED BY <4>1 DEF Agrees
    <3>2. CASE i # at
      <4>1. ~ Agrees(i)
        BY <1>1, <1>6, <1>13, <3>2 DEF Passed
      <4>2. Overwritten(i) => Overwritten(i)'
        BY <1>2 DEF Overwritten
      <4>3. Agreeing(Value(ctor[i].elt), list') # {}
              => Agreeing(Value(ctor[i].elt), list) # {}
        BY <1>2, <1>4, <1>5, AgreeingLess
      <4> QED BY <4>1, <4>2, <4>3, <1>3 DEF Agrees
    <3> QED BY <3>1, <3>2
  <2>2. CASE at' <= at + 1
    <3>1. \A i \in 1..(at' - 1) : i \in 1..at
      <4>1. PICK k \in Nat : k = at'
        BY <1>9
      <4>2. k <= at + 1
        BY <4>1, <2>2
      <4>3. \A i \in 1..(k - 1) : i \in 1..at
        BY <4>2, <1>6
      <4> QED BY <4>1, <4>3
    <3> QED BY <3>1, <2>1, <1>10, <1>11 DEF IInv, Passed
  <2>3. CASE ~ (at' <= at + 1)
    <3>1. ~ (list'.count > 0 /\ Before2(list'.start, bound))
      BY <2>3, <1>3, <1>6, RoundIs DEF Again
    <3>2. list'.head \in Seq(Node(Macros)) /\ list' = Recount(list'.head)
      BY <1>10 DEF TypeOK
    <3>3. UsedUp'
      BY <3>1, <3>2, <1>3, <1>4, LoopEnds DEF Beyond, UsedUp
    <3> QED BY <3>3, <1>10, <1>11 DEF IInv, Passed
  <2> QED BY <2>2, <2>3, <1>6, <1>9
<1> QED BY <1>12, <1>13

LEMMA NextKeeps ==
  ASSUME IInv, [Next]_vars PROVE IInv'
<1>1. CASE UNCHANGED vars
  BY <1>1 DEF vars, IInv, TypeOK, Passed, Forward, UsedUp, Agrees, Overwritten,
              Behind, LastOf, Nested
<1>2. CASE Terminated
  BY <1>1, <1>2 DEF Terminated
<1> QED BY <1>1, <1>2, PassOverKeeps, SubstituteKeeps, CallKeeps, ReturnKeeps DEF Next

LEMMA IInvHolds == Spec => []IInv
BY InitHolds, NextKeeps, PTL DEF Spec

-----------------------------------------------------------------------------
(* The variables have their types; in particular the search never leaves   *)
(* the initializer, and returns to the constructor it was called for.      *)
THEOREM SearchTypes == Spec => []TypeOK
<1>1. IInv => TypeOK
  BY DEF IInv
<1> QED BY <1>1, IInvHolds, PTL

LEMMA AtTheEnd ==
  ASSUME IInv, Done, ~ UsedUp, NEW i \in Remaining
  PROVE  Agreeing(Value(ctor[i].elt), list) = {}
<1>1. TypeOK /\ Passed
  BY DEF IInv
<1>2. i \in 1..(at - 1)
  BY <1>1, Numbers DEF Remaining, Done
<1>3. ~ Agrees(i)
  BY <1>1, <1>2 DEF Passed
<1> QED BY <1>3 DEF Agrees, Remaining

(* However constructors are nested, and wherever the search has to stop,   *)
(* it ends only when every record before the bound is used up, or no       *)
(* constant left agrees with a record left.                                *)
THEOREM ExhaustedCorrect == Spec => []Exhausted
<1>1. IInv => Exhausted
  BY AtTheEnd DEF Exhausted
<1> QED BY <1>1, IInvHolds, PTL

(* An element that is a constant is one of a macro of the source. *)
LEMMA ConstantIs ==
  ASSUME TypeOK, NEW i \in DOMAIN ctor, ctor[i].elt.kind = "cst"
  PROVE  /\ ctor[i].elt.macro \in Macros
         /\ ctor[i].elt.op \in Ops /\ ctor[i].elt.type \in Types
<1>1. ctor[i] \in [elt : Elements, up : Nat, last : Nat]
  <2> DEFINE S == [elt : Elements, up : Nat, last : Nat]
  <2>1. ctor \in Seq(S)
    BY DEF TypeOK
  <2> HIDE DEF S
  <2>2. ctor[i] \in S
    BY <2>1
  <2> QED BY <2>2 DEF S
<1> QED BY <1>1 DEF Elements

(* Without the baud rates, every constant that is replaced becomes the     *)
(* variable of the macro it comes from, in the form the source has it,     *)
(* whatever the type it was converted to (arg_should_be_modded,            *)
(* src/src/replace_int.cc:21-59).                                          *)
THEOREM OwnRecordCorrect ==
  ASSUME Macros \cap BaudMagic = {} PROVE Spec => []OwnRecord
<1>0. Macros \subseteq Recognisable
  BY MacrosAssumption DEF Recognisable, MagicNumbers
<1>1. Init => OwnRecord
  BY DEF Init, OwnRecord
<1>2. ASSUME IInv, OwnRecord, [Next]_vars PROVE OwnRecord'
  <2>1. CASE UNCHANGED <<ctor, subs>>
    BY <1>2, <2>1 DEF OwnRecord
  <2>2. CASE Substitute
    <3>0. TypeOK
      BY <1>2 DEF IInv
    <3>1. PICK p \in Hits(ctor[at].elt) :
            subs' = subs \cup {[at |-> at, node |-> list.head[p]]}
      BY <2>2 DEF Substitute
    <3>2. ctor' = ctor /\ at < Behind(in)
      BY <2>2 DEF Substitute, Looking
    <3> DEFINE elt == ctor[at].elt
               n == list.head[p]
    <3>3. elt.kind = "cst" /\ p \in Agreeing(Value(elt), list)
      BY DEF Hits
    <3>4. /\ list.head \in Seq(Node(Macros)) /\ p \in DOMAIN list.head
          /\ Kind(Value(elt), n.name) # "none"
      BY <3>0, <3>3, AgreeingIs DEF TypeOK
    <3>5. n.name \in Macros
      <4>1. n \in Node(Macros)
        BY <3>4
      <4> QED BY <4>1 DEF Node
    <3>6. elt.macro \in Macros /\ elt.op \in Ops /\ elt.type \in Types
      BY <3>0, <3>2, <3>3, Numbers, ConstantIs
    <3>7. elt.macro = n.name /\ elt.op = Kind(Value(elt), n.name)
      BY <1>0, <3>4, <3>5, <3>6, KindOwn DEF Value
    <3>8. ASSUME NEW s \in subs'
          PROVE  /\ ctor[s.at].elt.macro = s.node.name
                 /\ ctor[s.at].elt.op = Kind(Value(ctor[s.at].elt), s.node.name)
      <4>1. CASE s \in subs
        BY <1>2, <4>1 DEF OwnRecord
      <4>2. CASE s = [at |-> at, node |-> n]
        <5>1. s.at = at /\ s.node = n
          BY <4>2
        <5> QED BY <5>1, <3>7
      <4> QED BY <3>1, <4>1, <4>2
    <3> QED BY <3>2, <3>8 DEF OwnRecord
  <2>3. PassOver \/ Call \/ Return \/ Terminated \/ UNCHANGED vars
          => UNCHANGED <<ctor, subs>>
    BY DEF PassOver, Call, Return, Terminated, vars
  <2> QED BY <1>2, <2>1, <2>2, <2>3 DEF Next
<1> QED BY <1>1, <1>2, IInvHolds, PTL DEF Spec

(* No X, -X or ~X is missed in an element that is signed and as wide as an *)
(* int, while the macro has a record before the bound.                     *)
THEOREM RecognisedCorrect == Spec => []Recognised
<1>1. ASSUME IInv, Done, ~ UsedUp, NEW i \in Remaining,
             ctor[i].elt.type \in {"int", "long"},
             ctor[i].elt.macro \notin BaudMagic,
             NEW n \in Nodes(list)
      PROVE  n.name # ctor[i].elt.macro
  <2> DEFINE elt == ctor[i].elt
  <2>0. TypeOK
    BY <1>1 DEF IInv
  <2>1. Agreeing(Value(elt), list) = {}
    BY <1>1, AtTheEnd
  <2>2. elt.macro \in Macros /\ elt.op \in Ops
    BY <1>1, <2>0, ConstantIs DEF Remaining
  <2>3. elt.macro \in Recognisable
    BY <1>1, <2>2, MacrosAssumption DEF Recognisable, MagicNumbers
  <2>4. Kind(Value(elt), elt.macro) # "none"
    BY <1>1, <2>2, <2>3, KindFound DEF Value
  <2>5. PICK p \in DOMAIN list.head : n = list.head[p]
    BY DEF Nodes
  <2>6. list.head \in Seq(Node(Macros))
    BY <2>0 DEF TypeOK
  <2>7. Kind(Value(elt), n.name) = "none"
    BY <2>1, <2>5, <2>6, AgreeingIs
  <2> QED BY <2>4, <2>7
<1>2. IInv => Recognised
  BY <1>1 DEF Recognised
<1> QED BY <1>2, IInvHolds, PTL

-----------------------------------------------------------------------------
(* FirstMatch is about the same list and constants. *)
LEMMA MatchOperators ==
  /\ \A v, l : Search!Agreeing(v, l) = Agreeing(v, l)
  /\ \A e : Search!Value(e) = Value(e)
  /\ \A l, p : Search!RemoveElem(l, p) = RemoveElem(l, p)
  /\ Search!UsedUp = UsedUp
<1>1. \A v, n : Search!Kind(v, n) = Kind(v, n)
  BY DEF Search!Kind, Kind, Search!Fits64, Fits64, Search!Half, Half
<1>2. \A v, l : Search!Agreeing(v, l) = Agreeing(v, l)
  BY <1>1 DEF Search!Agreeing, Agreeing, Search!FirstElem, FirstElem
<1>3. \A e : Search!Value(e) = Value(e)
  <2>1. /\ Search!SignedMagic = SignedMagic /\ Search!BaudMagic = BaudMagic
        /\ Search!Signed = Signed
    BY SMT DEF Search!SignedMagic, SignedMagic, Search!BaudMagic, BaudMagic,
               Search!Signed, Signed
  <2>2. \A m : Search!TypeOf(m) = TypeOf(m)
    BY <2>1, SMT DEF Search!TypeOf, TypeOf
  <2>3. \A v, t : Search!Convert(v, t) = Convert(v, t)
    BY <2>1, SMT DEF Search!Convert, Convert, Search!Half, Half
  <2>4. \A t : Search!Promoted(t) = Promoted(t)
    BY DEF Search!Promoted, Promoted
  <2>5. \A o, v : Search!Apply(o, v) = Apply(o, v)
    BY DEF Search!Apply, Apply
  <2>6. \A m, o, t : Search!Folded(m, o, t) = Folded(m, o, t)
    BY <2>2, <2>3, <2>4, <2>5 DEF Search!Folded, Folded
  <2> QED BY <2>6 DEF Search!Value, Value
<1>4. \A l, p : Search!RemoveElem(l, p) = RemoveElem(l, p)
  <2>1. \A h : Search!Recount(h) = Recount(h)
    BY DEF Search!Recount, Recount, Search!Before2, Before2,
           Search!NoLocation, NoLocation
  <2> QED BY <2>1 DEF Search!RemoveElem, RemoveElem
<1>5. Search!UsedUp = UsedUp
  BY DEF Search!UsedUp, UsedUp, Search!Before2, Before2
<1> QED BY <1>2, <1>3, <1>4, <1>5

LEMMA MatchAgrees ==
  \A i : Search!Agrees(i) <=> Agrees(i)
BY MatchOperators DEF Search!Agrees, Search!Replaced, Agrees, Overwritten

LEMMA DoneIs ==
  ASSUME IInv, Done
  PROVE  Search!UsedUp \/ Search!NoneAgrees
<1>1. TypeOK /\ Passed
  BY DEF IInv
<1>2. DOMAIN ctor = 1..(at - 1)
  BY <1>1, Numbers DEF Done
<1> QED BY <1>1, <1>2, MatchOperators, MatchAgrees DEF Passed, Search!NoneAgrees

LEMMA DoneIsPrimed ==
  ASSUME IInv', Done'
  PROVE  Search!UsedUp' \/ Search!NoneAgrees'
<1>1. (IInv /\ Done => Search!UsedUp \/ Search!NoneAgrees)'
  BY DoneIs, PTL
<1> QED BY <1>1

LEMMA DoneType == Done \in BOOLEAN
BY DEF Done

(* A step that replaces nothing: the search may end with it. *)
LEMMA NothingReplaced ==
  ASSUME IInv', ~ Done, UNCHANGED <<ctor, list, bound, subs>>
  PROVE  [Search!Next]_(Search!vars)
<1>1. CASE ~ Done'
  <2>1. Done' = Done
    BY <1>1, DoneType DEF Done
  <2> QED BY <2>1 DEF Search!vars
<1>2. CASE Done'
  <2>1. Search!UsedUp' \/ Search!NoneAgrees'
    BY <1>2, DoneIsPrimed
  <2>2. Search!UsedUp' = Search!UsedUp /\ Search!NoneAgrees' = Search!NoneAgrees
    BY DEF Search!UsedUp, Search!NoneAgrees, Search!Agrees, Search!Replaced
  <2>3. Done' = TRUE
    BY <1>2 DEF Done
  <2>4. Search!UsedUp \/ Search!NoneAgrees
    BY <2>1, <2>2
  <2>5. Search!Finish
    BY <2>3, <2>4 DEF Search!Finish
  <2> QED BY <2>5 DEF Search!Next
<1> QED BY <1>1, <1>2

LEMMA StepMatches ==
  ASSUME IInv, IInv', [Next]_vars
  PROVE  [Search!Next]_(Search!vars)
<1>0. TypeOK /\ Passed /\ Forward
  BY DEF IInv
<1>1. CASE PassOver \/ Call \/ Return
  <2>1. ~ Done
    BY <1>0, <1>1, Numbers DEF PassOver, Call, Return, Looking, Done
  <2>2. UNCHANGED <<ctor, list, bound, subs>>
    BY <1>1 DEF PassOver, Call, Return
  <2> QED BY <2>1, <2>2, NothingReplaced
<1>2. CASE Substitute
  <2>1. PICK p \in Hits(ctor[at].elt) :
          /\ list' = RemoveElem(list, p)
          /\ subs' = subs \cup {[at |-> at, node |-> list.head[p]]}
    BY <1>2 DEF Substitute
  <2>2. at < Behind(in) /\ UNCHANGED <<ctor, bound>>
    BY <1>2 DEF Substitute, Looking
  <2>3. ctor[at].elt.kind = "cst" /\ p \in Agreeing(Value(ctor[at].elt), list)
    BY DEF Hits
  <2>4. ~ Overwritten(at)
    <3>1. at \in Nat
      BY <1>0, Numbers
    <3>2. CASE local
      BY <3>2 DEF Hits
    <3>3. CASE ~ local
      <4>1. \A s \in subs : s.at < at
        BY <1>0, <3>3 DEF Forward
      <4> QED BY <3>1, <4>1 DEF Overwritten
    <3> QED BY <3>2, <3>3
  <2>5. Agrees(at)
    BY <2>3, <2>4 DEF Agrees
  <2>6. at \in DOMAIN ctor /\ ~ Done
    BY <1>0, <2>2, Numbers DEF Done
  <2>7. Search!UsedUp \/ \A j \in 1..(at - 1) : ~ Search!Agrees(j)
    BY <1>0, MatchOperators, MatchAgrees DEF Passed
  <2>8. /\ Search!Agrees(at)
        /\ p \in Search!Agreeing(Search!Value(ctor[at].elt), list)
        /\ list' = Search!RemoveElem(list, p)
    BY <2>1, <2>3, <2>5, MatchOperators, MatchAgrees
  <2>9. Done' \in BOOLEAN /\ (Done' => Search!UsedUp' \/ Search!NoneAgrees')
    BY DoneIsPrimed DEF Done
  <2>10. Search!Substitute
    BY <2>1, <2>2, <2>6, <2>7, <2>8, <2>9 DEF Search!Substitute
  <2> QED BY <2>10 DEF Search!Next
<1>3. CASE Terminated \/ UNCHANGED vars
  <2>1. UNCHANGED vars
    BY <1>3 DEF Terminated
  <2>2. Done' = Done
    BY <2>1 DEF vars, Done, Behind, LastOf
  <2> QED BY <2>1, <2>2 DEF vars, Search!vars
<1> QED BY <1>1, <1>2, <1>3 DEF Next

(* The nested loops do what FirstMatch promises: they replace the first    *)
(* constant that agrees with a record as long as a record is left before   *)
(* the bound, none is left out and none is replaced twice.                 *)
THEOREM FirstMatchCorrect == Spec => ImplementsFirstMatch
<1>1. Init /\ IInv => Search!Init
  BY DoneIs, DoneType DEF Init, Search!Init
<1>2. IInv /\ IInv' /\ [Next]_vars => [Search!Next]_(Search!vars)
  BY StepMatches
<1> QED BY <1>1, <1>2, IInvHolds, PTL DEF Spec, Search!Spec, ImplementsFirstMatch

=============================================================================
