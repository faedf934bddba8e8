---------------------------- MODULE MemmanProofs ----------------------------
(***************************************************************************)
(* Proofs about memory.c, for a table and areas of any size and for any    *)
(* requests, those of no bytes included: no memory is handed out twice,    *)
(* and the manager is the pool of addresses that MemoryPool specifies.     *)
(*                                                                         *)
(* Two things carry the argument.  What never depends on the order of the  *)
(* table is said of single addresses: which of them the areas of a table   *)
(* have before and after a move (Has).  What holds until somebody has got  *)
(* no bytes is said of a table in order (Table): the search of memman_free *)
(* finds the right place only there, so that only there neighbours are     *)
(* always joined and the lowest area is the one that is taken.             *)
(***************************************************************************)
EXTENDS Memman, Least, SequenceTheorems, FiniteSetTheorems

AnyArea == [addr : Nat, size : Nat]
AreaType == [addr : Nat, size : Nat \ {0}]

(* An address of the area f, and one of the table t                         *)
Inside(x, f) == x \in f.addr..(End(f) - 1)
Has(t, x) == \E k \in 1..Len(t) : Inside(x, t[k])

\* A table of areas no two of which overlap, in whatever order
Loose(t) ==
  /\ t \in Seq(AnyArea)
  /\ \A i, j \in 1..Len(t) : i # j => Apart(t[i], t[j])

\* A table of areas in order, no two of which touch
Table(t) ==
  /\ t \in Seq(AreaType)
  /\ \A i, j \in 1..Len(t) : i < j => End(t[i]) < t[j].addr

ManType == [maxfrees : Nat, lostsize : Nat, free : Seq(AnyArea)]

Inv ==
  /\ man \in ManType
  /\ used \subseteq AnyArea
  /\ emptied \in BOOLEAN
  /\ NoOverlap
  /\ ~emptied => Table(man.free) /\ used \subseteq AreaType

-----------------------------------------------------------------------------
(* Areas and their addresses *)

\* What an area's fields may be
LEMMA AreaFields ==
  ASSUME NEW f \in AnyArea
  PROVE  /\ f.addr \in Nat /\ f.size \in Nat /\ End(f) \in Nat
         /\ End(f) = f.addr + f.size /\ f.addr <= End(f)
         /\ f \in AreaType <=> f.size # 0
BY DEF AnyArea, AreaType, End

\* An area of at least a byte ends behind its beginning.
LEMMA EndBehind ==
  ASSUME NEW a \in AreaType
  PROVE  a.addr \in Nat /\ End(a) \in Nat /\ a.addr < End(a) /\ a \in AnyArea
BY DEF AnyArea, AreaType, End

\* The areas of a table
LEMMA TableAreas ==
  ASSUME NEW S, NEW t \in Seq(S)
  PROVE  /\ Len(t) \in Nat /\ DOMAIN t = 1..Len(t)
         /\ \A k \in 1..Len(t) : t[k] \in S
BY LenProperties, ElementOfSeq

\* The addresses of an area
LEMMA InsideIs ==
  ASSUME NEW f \in AnyArea, NEW x
  PROVE  /\ Inside(x, f) <=> x \in Int /\ f.addr <= x /\ x < End(f)
         /\ Inside(x, f) <=> x \in f.addr..(f.addr + f.size - 1)
         /\ f.size = 0 => ~Inside(x, f)
<1>1. f.addr \in Nat /\ f.size \in Nat /\ End(f) \in Nat /\ End(f) = f.addr + f.size
  BY AreaFields
<1> QED BY <1>1 DEF Inside

\* Areas are apart if no address is in both.
LEMMA ApartIs ==
  ASSUME NEW f \in AnyArea, NEW g \in AnyArea
  PROVE  Apart(f, g) <=> \A x : ~(Inside(x, f) /\ Inside(x, g))
<1>1. /\ f.addr \in Nat /\ f.size \in Nat /\ End(f) = f.addr + f.size
      /\ g.addr \in Nat /\ g.size \in Nat /\ End(g) = g.addr + g.size
  BY AreaFields
<1>2. ASSUME Apart(f, g), NEW x, Inside(x, f), Inside(x, g) PROVE FALSE
  <2>1. x \in Int /\ f.addr <= x /\ x < End(f) /\ g.addr <= x /\ x < End(g)
    BY <1>2, InsideIs
  <2> QED BY <1>1, <1>2, <2>1 DEF Apart
<1>3. ASSUME ~Apart(f, g) PROVE \E x : Inside(x, f) /\ Inside(x, g)
  <2>1. f.size # 0 /\ g.size # 0 /\ g.addr < End(f) /\ f.addr < End(g)
    BY <1>1, <1>3 DEF Apart
  <2>2. CASE f.addr <= g.addr
    <3>1. Inside(g.addr, f) /\ Inside(g.addr, g) BY <1>1, <2>1, <2>2, InsideIs
    <3> QED BY <3>1
  <2>3. CASE g.addr <= f.addr
    <3>1. Inside(f.addr, f) /\ Inside(f.addr, g) BY <1>1, <2>1, <2>3, InsideIs
    <3> QED BY <3>1
  <2> QED BY <1>1, <2>2, <2>3
<1> QED BY <1>2, <1>3

\* An area is clear of a table if it has no address that the table has.
Clear(g, t) == \A k \in 1..Len(t) : Apart(g, t[k])

LEMMA ClearIs ==
  ASSUME NEW g \in AnyArea, NEW t \in Seq(AnyArea)
  PROVE  Clear(g, t) <=> \A x : ~(Inside(x, g) /\ Has(t, x))
<1>1. \A k \in 1..Len(t) : t[k] \in AnyArea
  BY TableAreas
<1>2. \A k \in 1..Len(t) :
        Apart(g, t[k]) <=> \A x : ~(Inside(x, g) /\ Inside(x, t[k]))
  BY <1>1, ApartIs
<1> QED BY <1>2 DEF Clear, Has

\* In a table in order no two areas overlap.
LEMMA TableLoose == ASSUME NEW t, Table(t) PROVE Loose(t)
<1>1. t \in Seq(AreaType) /\ Len(t) \in Nat /\ \A k \in 1..Len(t) : t[k] \in AreaType
  BY TableAreas DEF Table
<1>2. \A k \in 1..Len(t) : /\ t[k].addr \in Nat /\ End(t[k]) \in Nat
                           /\ t[k].addr < End(t[k]) /\ t[k] \in AnyArea
  BY <1>1, EndBehind
<1>3. t \in Seq(AnyArea)
  BY <1>1, <1>2
<1>4. ASSUME NEW i \in 1..Len(t), NEW j \in 1..Len(t), i # j
      PROVE  Apart(t[i], t[j])
  <2>1. CASE i < j
    <3>1. End(t[i]) < t[j].addr BY <2>1 DEF Table
    <3> QED BY <1>2, <3>1 DEF Apart
  <2>2. CASE j < i
    <3>1. End(t[j]) < t[i].addr BY <2>2 DEF Table
    <3> QED BY <1>2, <3>1 DEF Apart
  <2> QED BY <1>1, <1>4, <2>1, <2>2
<1> QED BY <1>3, <1>4 DEF Loose

-----------------------------------------------------------------------------
(* The searches *)

\* memman_alloc stops at an area that is large enough, or at the end.
LEMMA FitPlace ==
  ASSUME NEW t \in Seq(AnyArea), NEW n \in Nat
  PROVE  /\ Fit(t, n) \in 1..(Len(t) + 1)
         /\ Fit(t, n) = Len(t) + 1 \/ t[Fit(t, n)].size >= n
         /\ \A j \in 1..(Fit(t, n) - 1) : t[j].size < n
<1> DEFINE S == {i \in 1..(Len(t) + 1) : i = Len(t) + 1 \/ t[i].size >= n}
<1>1. Len(t) \in Nat /\ \A i \in 1..Len(t) : t[i] \in AnyArea
  BY LenProperties, ElementOfSeq
<1>2. S \subseteq Nat /\ S # {}
  <2>1. Len(t) + 1 \in S BY <1>1
  <2> QED BY <1>1, <2>1
<1>3. PICK m \in S : \A k \in S : m <= k
  <2> HIDE DEF S
  <2> QED BY <1>2, LeastExists
<1>4. \A j \in 1..(m - 1) : t[j].size < n
  <2> SUFFICES ASSUME NEW j \in 1..(m - 1) PROVE t[j].size < n
    OBVIOUS
  <2>1. j \notin S BY <1>1, <1>3
  <2>2. j \in 1..Len(t) BY <1>1
  <2>3. t[j].size \in Nat BY <1>1, <2>2 DEF AnyArea
  <2> QED BY <1>1, <2>1, <2>2, <2>3
<1>5. \E i \in 1..(Len(t) + 1) :
        /\ i = Len(t) + 1 \/ t[i].size >= n
        /\ \A j \in 1..(i - 1) : t[j].size < n
  BY <1>3, <1>4
<1> QED BY <1>5 DEF Fit

\* memman_free stops at the first area with a higher address.
LEMMA BehindPlace ==
  ASSUME NEW t \in Seq(AnyArea), NEW a \in Nat
  PROVE  /\ Behind(t, a) \in 1..(Len(t) + 1)
         /\ Behind(t, a) = Len(t) + 1 \/ t[Behind(t, a)].addr > a
         /\ \A j \in 1..(Behind(t, a) - 1) : t[j].addr <= a
<1> DEFINE S == {i \in 1..(Len(t) + 1) : i = Len(t) + 1 \/ t[i].addr > a}
<1>1. Len(t) \in Nat /\ \A i \in 1..Len(t) : t[i] \in AnyArea
  BY LenProperties, ElementOfSeq
<1>2. S \subseteq Nat /\ S # {}
  <2>1. Len(t) + 1 \in S BY <1>1
  <2> QED BY <1>1, <2>1
<1>3. PICK m \in S : \A k \in S : m <= k
  <2> HIDE DEF S
  <2> QED BY <1>2, LeastExists
<1>4. \A j \in 1..(m - 1) : t[j].addr <= a
  <2> SUFFICES ASSUME NEW j \in 1..(m - 1) PROVE t[j].addr <= a
    OBVIOUS
  <2>1. j \notin S BY <1>1, <1>3
  <2>2. j \in 1..Len(t) BY <1>1
  <2>3. t[j].addr \in Nat BY <1>1, <2>2 DEF AnyArea
  <2> QED BY <1>1, <2>1, <2>2, <2>3
<1>5. \E i \in 1..(Len(t) + 1) :
        /\ i = Len(t) + 1 \/ t[i].addr > a
        /\ \A j \in 1..(i - 1) : t[j].addr <= a
  BY <1>3, <1>4
<1> QED BY <1>5 DEF Behind

-----------------------------------------------------------------------------
(* The moves of the table: which addresses it has after them, and that it  *)
(* stays a table in order.                                                 *)

\* An address of another entry than i
Others(t, i, x) == \E l \in 1..Len(t) : l # i /\ Inside(x, t[l])

\* In a table whose areas are apart an address is in one of them only.
LEMMA OthersAre ==
  ASSUME NEW t, Loose(t), NEW i \in 1..Len(t), NEW x
  PROVE  /\ Has(t, x) <=> Inside(x, t[i]) \/ Others(t, i, x)
         /\ ~(Inside(x, t[i]) /\ Others(t, i, x))
<1>1. \A k \in 1..Len(t) : t[k] \in AnyArea
  BY TableAreas DEF Loose
<1>2. \A l \in 1..Len(t) : l # i => ~(Inside(x, t[i]) /\ Inside(x, t[l]))
  BY <1>1, ApartIs DEF Loose
<1> QED BY <1>2 DEF Has, Others

\* A table without one of its areas
LEMMA DeleteHas ==
  ASSUME NEW t, Loose(t), NEW i \in 1..Len(t)
  PROVE  /\ Loose(Delete(t, i))
         /\ Len(Delete(t, i)) = Len(t) - 1
         /\ \A k \in 1..(Len(t) - 1) :
              Delete(t, i)[k] = IF k < i THEN t[k] ELSE t[k + 1]
         /\ \A x : Has(Delete(t, i), x) <=> Others(t, i, x)
<1> DEFINE u == Delete(t, i)
<1>1. Len(t) \in Nat /\ \A k \in 1..Len(t) : t[k] \in AnyArea
  BY TableAreas DEF Loose
<1>2. \A k \in 1..(Len(t) - 1) : (IF k < i THEN t[k] ELSE t[k + 1]) \in AnyArea
  BY <1>1
<1>3. u \in Seq(AnyArea) /\ Len(u) = Len(t) - 1
  BY <1>1, <1>2 DEF Delete
<1>4. \A k \in 1..(Len(t) - 1) : u[k] = IF k < i THEN t[k] ELSE t[k + 1]
  BY DEF Delete
<1> HIDE DEF u
<1>5. \A k \in 1..Len(u) : LET l == IF k < i THEN k ELSE k + 1
                           IN  l \in 1..Len(t) /\ l # i /\ u[k] = t[l]
  BY <1>1, <1>3, <1>4
<1>6. ASSUME NEW l \in 1..Len(t), l # i PROVE \E k \in 1..Len(u) : u[k] = t[l]
  <2>1. CASE l < i
    <3>1. l \in 1..Len(u) /\ u[l] = t[l] BY <1>1, <1>3, <1>4, <2>1
    <3> QED BY <3>1
  <2>2. CASE l > i
    <3>1. l - 1 \in 1..Len(u) /\ ~(l - 1 < i) /\ l - 1 + 1 = l BY <1>1, <1>3, <2>2
    <3>2. u[l - 1] = t[l] BY <1>3, <1>4, <3>1
    <3> QED BY <3>1, <3>2
  <2> QED BY <1>1, <1>6, <2>1, <2>2
<1>7. ASSUME NEW j \in 1..Len(u), NEW k \in 1..Len(u), j # k PROVE Apart(u[j], u[k])
  <2> DEFINE a == IF j < i THEN j ELSE j + 1
             b == IF k < i THEN k ELSE k + 1
  <2>1. a # b BY <1>1, <1>3, <1>7
  <2>2. a \in 1..Len(t) /\ b \in 1..Len(t) /\ u[j] = t[a] /\ u[k] = t[b] BY <1>5
  <2> HIDE DEF a, b
  <2> QED BY <2>1, <2>2 DEF Loose
<1>8. \A x : Has(u, x) <=> Others(t, i, x)
  BY <1>5, <1>6 DEF Has, Others
<1> QED BY <1>3, <1>4, <1>7, <1>8 DEF Loose, u

Put(t, i, g) == [t EXCEPT ![i] = g]

\* What replacing an area leaves in a table
LEMMA PutHas ==
  ASSUME NEW t, Loose(t), NEW i \in 1..Len(t), NEW g \in AnyArea,
         \A x : ~(Inside(x, g) /\ Others(t, i, x))
  PROVE  /\ Loose(Put(t, i, g))
         /\ Len(Put(t, i, g)) = Len(t)
         /\ \A k \in 1..Len(t) : Put(t, i, g)[k] = IF k = i THEN g ELSE t[k]
         /\ \A x : Has(Put(t, i, g), x) <=> Inside(x, g) \/ Others(t, i, x)
<1> DEFINE u == Put(t, i, g)
<1>1. Len(t) \in Nat /\ \A k \in 1..Len(t) : t[k] \in AnyArea
  BY TableAreas DEF Loose
<1>2. /\ u \in Seq(AnyArea) /\ Len(u) = Len(t)
      /\ \A k \in 1..Len(t) : u[k] = IF k = i THEN g ELSE t[k]
  BY ExceptSeq DEF Loose, Put
<1> HIDE DEF u
<1>3. ASSUME NEW k \in 1..Len(t), k # i PROVE Apart(g, t[k]) /\ Apart(t[k], g)
  <2>1. t[k] \in AnyArea BY <1>1
  <2>2. \A x : ~(Inside(x, g) /\ Inside(x, t[k])) BY <1>3 DEF Others
  <2> QED BY <2>1, <2>2, ApartIs
<1>4. Loose(u)
  BY <1>2, <1>3 DEF Loose
<1>5. \A x : Has(u, x) <=> Inside(x, g) \/ Others(t, i, x)
  BY <1>2 DEF Has, Others
<1> QED BY <1>2, <1>4, <1>5 DEF u

\* A table with an area more
LEMMA InsertHas ==
  ASSUME NEW t, Loose(t), NEW i \in 1..(Len(t) + 1), NEW g \in AnyArea, Clear(g, t)
  PROVE  /\ Loose(Insert(t, i, g))
         /\ Len(Insert(t, i, g)) = Len(t) + 1
         /\ \A k \in 1..(Len(t) + 1) :
              Insert(t, i, g)[k] = IF k < i THEN t[k]
                                   ELSE IF k = i THEN g ELSE t[k - 1]
         /\ \A x : Has(Insert(t, i, g), x) <=> Inside(x, g) \/ Has(t, x)
<1> DEFINE u == Insert(t, i, g)
<1>1. Len(t) \in Nat /\ \A k \in 1..Len(t) : t[k] \in AnyArea
  BY TableAreas DEF Loose
<1>2. \A k \in 1..(Len(t) + 1) :
        (IF k < i THEN t[k] ELSE IF k = i THEN g ELSE t[k - 1]) \in AnyArea
  BY <1>1
<1>3. u \in Seq(AnyArea) /\ Len(u) = Len(t) + 1
  BY <1>1, <1>2 DEF Insert
<1>4. \A k \in 1..(Len(t) + 1) :
        u[k] = IF k < i THEN t[k] ELSE IF k = i THEN g ELSE t[k - 1]
  BY DEF Insert
<1> HIDE DEF u
<1>5. \A k \in 1..Len(u) : k # i => LET l == IF k < i THEN k ELSE k - 1
                                    IN  l \in 1..Len(t) /\ u[k] = t[l]
  BY <1>1, <1>3, <1>4
<1>6. i \in 1..Len(u) /\ u[i] = g
  BY <1>1, <1>3, <1>4
<1>7. ASSUME NEW l \in 1..Len(t) PROVE \E k \in 1..Len(u) : u[k] = t[l]
  <2>1. CASE l < i
    <3>1. l \in 1..Len(u) /\ u[l] = t[l] BY <1>1, <1>3, <1>4, <2>1
    <3> QED BY <3>1
  <2>2. CASE ~(l < i)
    <3>1. l + 1 \in 1..Len(u) /\ ~(l + 1 < i) /\ l + 1 # i /\ l + 1 - 1 = l
      BY <1>1, <1>3, <2>2
    <3>2. u[l + 1] = t[l] BY <1>3, <1>4, <3>1
    <3> QED BY <3>1, <3>2
  <2> QED BY <2>1, <2>2
<1>8. ASSUME NEW k \in 1..Len(t) PROVE Apart(g, t[k]) /\ Apart(t[k], g)
  BY DEF Clear, Apart
<1>9. ASSUME NEW j \in 1..Len(u), NEW k \in 1..Len(u), j # k PROVE Apart(u[j], u[k])
  <2> DEFINE a == IF j < i THEN j ELSE j - 1
             b == IF k < i THEN k ELSE k - 1
  <2>1. j # i => a \in 1..Len(t) /\ u[j] = t[a] BY <1>5
  <2>2. k # i => b \in 1..Len(t) /\ u[k] = t[b] BY <1>5
  <2>3. j # i /\ k # i => a # b BY <1>1, <1>3, <1>9
  <2> HIDE DEF a, b
  <2> QED BY <1>6, <1>8, <1>9, <2>1, <2>2, <2>3 DEF Loose
<1>10. \A x : Has(u, x) <=> Inside(x, g) \/ Has(t, x)
  <2>1. ASSUME NEW x, Has(u, x) PROVE Inside(x, g) \/ Has(t, x)
    BY <1>5, <1>6, <2>1 DEF Has
  <2>2. ASSUME NEW x, Inside(x, g) \/ Has(t, x) PROVE Has(u, x)
    BY <1>6, <1>7, <2>2 DEF Has
  <2> QED BY <2>1, <2>2
<1> QED BY <1>3, <1>4, <1>9, <1>10 DEF Loose, u

\* A table in order is in order without one of its areas.
LEMMA DeleteTable ==
  ASSUME NEW t, Table(t), NEW i \in 1..Len(t)
  PROVE  Table(Delete(t, i))
<1>1. Len(t) \in Nat /\ \A k \in 1..Len(t) : t[k] \in AreaType
  BY TableAreas DEF Table
<1>2. \A k \in 1..(Len(t) - 1) : (IF k < i THEN t[k] ELSE t[k + 1]) \in AreaType
  BY <1>1
<1>3. Delete(t, i) \in Seq(AreaType) /\ Len(Delete(t, i)) = Len(t) - 1
  BY <1>1, <1>2 DEF Delete
<1>4. \A k \in 1..(Len(t) - 1) :
        Delete(t, i)[k] = IF k < i THEN t[k] ELSE t[k + 1]
  BY DEF Delete
<1>5. ASSUME NEW k \in 1..(Len(t) - 1), NEW l \in 1..(Len(t) - 1), k < l
      PROVE  End(Delete(t, i)[k]) < Delete(t, i)[l].addr
  <2> DEFINE at(j) == IF j < i THEN j ELSE j + 1
  <2>1. at(k) \in 1..Len(t) /\ at(l) \in 1..Len(t) /\ at(k) < at(l) BY <1>1, <1>5
  <2>2. Delete(t, i)[k] = t[at(k)] /\ Delete(t, i)[l] = t[at(l)] BY <1>4
  <2> HIDE DEF at
  <2> QED BY <2>1, <2>2 DEF Table
<1> QED BY <1>3, <1>5 DEF Table

\* An area is replaced by one that touches none of the others.
LEMMA ReplaceTable ==
  ASSUME NEW t, Table(t), NEW i \in 1..Len(t), NEW g \in AreaType,
         \A j \in 1..(i - 1) : End(t[j]) < g.addr,
         \A j \in (i + 1)..Len(t) : End(g) < t[j].addr
  PROVE  Table(Put(t, i, g))
<1>1. Len(t) \in Nat
  BY LenProperties DEF Table
<1>2. /\ [t EXCEPT ![i] = g] \in Seq(AreaType)
      /\ Len([t EXCEPT ![i] = g]) = Len(t)
      /\ \A k \in 1..Len(t) : [t EXCEPT ![i] = g][k] = IF k = i THEN g ELSE t[k]
  BY ExceptSeq DEF Table
<1>3. Table([t EXCEPT ![i] = g])
  BY <1>1, <1>2 DEF Table
<1> QED BY <1>3 DEF Put

\* An area is inserted that touches none of the others.
LEMMA InsertTable ==
  ASSUME NEW t, Table(t), NEW i \in 1..(Len(t) + 1), NEW g \in AreaType,
         \A j \in 1..(i - 1) : End(t[j]) < g.addr,
         \A j \in i..Len(t) : End(g) < t[j].addr
  PROVE  Table(Insert(t, i, g))
<1>1. Len(t) \in Nat /\ \A k \in 1..Len(t) : t[k] \in AreaType
  BY TableAreas DEF Table
<1>2. \A k \in 1..(Len(t) + 1) :
        (IF k < i THEN t[k] ELSE IF k = i THEN g ELSE t[k - 1]) \in AreaType
  BY <1>1
<1>3. Insert(t, i, g) \in Seq(AreaType) /\ Len(Insert(t, i, g)) = Len(t) + 1
  BY <1>1, <1>2 DEF Insert
<1>4. \A k \in 1..(Len(t) + 1) :
        Insert(t, i, g)[k] = IF k < i THEN t[k]
                             ELSE IF k = i THEN g ELSE t[k - 1]
  BY DEF Insert
<1>5. Table(Insert(t, i, g))
  <2> SUFFICES ASSUME NEW k \in 1..(Len(t) + 1), NEW l \in 1..(Len(t) + 1), k < l
               PROVE  End(Insert(t, i, g)[k]) < Insert(t, i, g)[l].addr
    BY <1>3 DEF Table
  <2>1. CASE l < i BY <1>1, <1>4, <2>1 DEF Table
  <2>2. CASE l = i BY <1>1, <1>4, <2>2
  <2>3. CASE l > i
    <3>1. Insert(t, i, g)[l] = t[l - 1] /\ l - 1 \in i..Len(t)
      <4>1. l \in Int /\ i \in Int /\ ~(l < i) /\ l # i
        BY <1>1, <2>3
      <4>2. Insert(t, i, g)[l] = t[l - 1]
        BY <1>4, <4>1
      <4>3. l - 1 \in i..Len(t)
        BY <1>1, <2>3
      <4> QED BY <4>2, <4>3
    <3>2. CASE k = i BY <1>4, <3>1, <3>2
    <3>3. CASE k < i
      BY <1>1, <1>4, <3>1, <3>3 DEF Table
    <3>4. CASE k > i
      BY <1>1, <1>4, <3>1, <3>4 DEF Table
    <3> QED BY <1>1, <3>2, <3>3, <3>4
  <2> QED BY <1>1, <2>1, <2>2, <2>3
<1> QED BY <1>5

(* To grow an entry and delete the next is to delete it and grow the entry. *)
LEMMA DeleteReplace ==
  ASSUME NEW t \in Seq(AnyArea), NEW i \in 2..Len(t), NEW g \in AnyArea
  PROVE  Delete([t EXCEPT ![i - 1] = g], i) = [Delete(t, i) EXCEPT ![i - 1] = g]
<1>1. Len(t) \in Nat /\ i - 1 \in 1..Len(t)
  BY LenProperties
<1>2. /\ Len([t EXCEPT ![i - 1] = g]) = Len(t)
      /\ \A k \in 1..Len(t) :
           [t EXCEPT ![i - 1] = g][k] = IF k = i - 1 THEN g ELSE t[k]
  BY <1>1, ExceptSeq
<1>3. Delete([t EXCEPT ![i - 1] = g], i) =
        [k \in 1..(Len(t) - 1) |->
           IF k < i THEN [t EXCEPT ![i - 1] = g][k] ELSE [t EXCEPT ![i - 1] = g][k + 1]]
  BY <1>2 DEF Delete
<1>4. [Delete(t, i) EXCEPT ![i - 1] = g] =
        [k \in 1..(Len(t) - 1) |-> IF k = i - 1 THEN g
                                   ELSE IF k < i THEN t[k] ELSE t[k + 1]]
  BY <1>1 DEF Delete
<1> QED BY <1>1, <1>2, <1>3, <1>4

-----------------------------------------------------------------------------
(* memman_alloc *)

\* What memman_alloc hands out is no longer in the table, and the rest is.
LEMMA TakeHas ==
  ASSUME NEW t, Loose(t), NEW n \in Nat, NEW i \in 1..Len(t), t[i].size >= n,
         NEW a, a = Area(t[i].addr, n), NEW u, u = TakeFrom(t, i, n)
  PROVE  /\ Loose(u) /\ Len(u) <= Len(t)
         /\ a \in AnyArea /\ \A x : Inside(x, a) => Has(t, x)
         /\ \A x : Has(u, x) <=> Has(t, x) /\ ~Inside(x, a)
         /\ Table(t) => Table(u)
<1>1. /\ Len(t) \in Nat /\ t[i] \in AnyArea
      /\ t[i].addr \in Nat /\ t[i].size \in Nat /\ End(t[i]) = t[i].addr + t[i].size
  BY TableAreas, AreaFields DEF Loose
<1>2. a \in AnyArea /\ a.addr = t[i].addr /\ End(a) = t[i].addr + n
  BY <1>1 DEF Area, AnyArea, End
<1>3. \A x : Inside(x, a) => Inside(x, t[i])
  <2>1. End(a) <= End(t[i]) /\ End(a) \in Nat /\ End(t[i]) \in Nat BY <1>1, <1>2
  <2> QED BY <1>1, <1>2, <2>1 DEF Inside
<1>4. CASE t[i].size = n
  <2>1. u = Delete(t, i) BY <1>4 DEF TakeFrom
  <2>2. \A x : Inside(x, a) <=> Inside(x, t[i]) BY <1>1, <1>2, <1>4 DEF Inside
  <2>3. /\ Loose(u) /\ Len(u) = Len(t) - 1
        /\ \A x : Has(u, x) <=> Others(t, i, x)
    BY <2>1, DeleteHas
  <2>4. Table(t) => Table(u) BY <2>1, DeleteTable
  <2> QED BY <1>1, <1>2, <1>3, <2>2, <2>3, <2>4, OthersAre
<1>5. CASE t[i].size # n
  <2> DEFINE r == Area(t[i].addr + n, t[i].size - n)
  <2>1. u = Put(t, i, r) BY <1>5 DEF TakeFrom, Put
  <2>2. r \in AreaType /\ r \in AnyArea /\ r.addr = End(a) /\ End(r) = End(t[i])
    BY <1>1, <1>2, <1>5, SMTT(20) DEF Area, AnyArea, AreaType, End
  <2> HIDE DEF r
  <2>3. \A x : Inside(x, r) <=> Inside(x, t[i]) /\ ~Inside(x, a)
    <3>1. End(a) \in Nat /\ End(r) \in Nat /\ a.addr <= End(a) BY <1>1, <1>2, <2>2
    <3> QED BY <1>1, <1>2, <2>2, <3>1 DEF Inside
  <2>4. \A x : ~(Inside(x, r) /\ Others(t, i, x)) BY <2>3, OthersAre
  <2>5. /\ Loose(u) /\ Len(u) = Len(t)
        /\ \A x : Has(u, x) <=> Inside(x, r) \/ Others(t, i, x)
    BY <2>1, <2>2, <2>4, PutHas
  <2>6. ASSUME Table(t) PROVE Table(u)
    <3>1. \A j \in 1..Len(t) : t[j].addr \in Nat /\ End(t[j]) \in Nat
      BY <2>6, TableAreas, EndBehind DEF Table
    <3>2. \A j \in 1..(i - 1) : End(t[j]) < r.addr
      <4> SUFFICES ASSUME NEW j \in 1..(i - 1) PROVE End(t[j]) < r.addr
        OBVIOUS
      <4>1. End(t[j]) < t[i].addr BY <1>1, <2>6 DEF Table
      <4>2. t[i].addr <= r.addr /\ r.addr \in Nat BY <1>1, <1>2, <2>2
      <4>3. End(t[j]) \in Nat BY <1>1, <3>1
      <4> QED BY <1>1, <4>1, <4>2, <4>3
    <3>3. \A j \in (i + 1)..Len(t) : End(r) < t[j].addr
      BY <1>1, <2>2, <2>6 DEF Table
    <3> QED BY <2>1, <2>2, <2>6, <3>2, <3>3, ReplaceTable
  <2> QED BY <1>1, <1>2, <1>3, <2>3, <2>5, <2>6, OthersAre
<1> QED BY <1>4, <1>5

-----------------------------------------------------------------------------
(* memman_free *)

(* What two areas that touch join to                                        *)
LEMMA JoinType ==
  ASSUME NEW a \in AnyArea, NEW b \in AnyArea, End(a) = b.addr,
         NEW c, c = Area(a.addr, a.size + b.size)
  PROVE  /\ c \in AnyArea /\ c.addr = a.addr /\ End(c) = End(b)
         /\ b \in AreaType => c \in AreaType
         /\ \A x : Inside(x, c) <=> Inside(x, a) \/ Inside(x, b)
<1>1. /\ a.addr \in Nat /\ a.size \in Nat /\ End(a) = a.addr + a.size
      /\ b.addr \in Nat /\ b.size \in Nat /\ End(b) = b.addr + b.size
  BY AreaFields
<1>2. c.addr = a.addr /\ c.size = a.size + b.size /\ c \in AnyArea
  BY <1>1 DEF Area, AnyArea
<1>3. End(c) = End(b)
  BY <1>1, <1>2 DEF End
<1>4. b \in AreaType => c \in AreaType
  BY <1>1, <1>2, AreaFields
<1>5. \A x : Inside(x, c) <=> Inside(x, a) \/ Inside(x, b)
  <2>1. End(c) \in Nat BY <1>2, AreaFields
  <2>2. a.addr <= b.addr /\ b.addr <= End(b) BY AreaFields
  <2> QED BY <1>1, <1>2, <1>3, <2>1, <2>2 DEF Inside
<1> QED BY <1>2, <1>3, <1>4, <1>5

(* An area that overlaps none of a table's lies behind those with lower     *)
(* addresses and in front of the others.                                    *)
LEMMA FreePlace ==
  ASSUME NEW t, Table(t), NEW f \in AreaType, Clear(f, t),
         NEW i, i = Behind(t, f.addr)
  PROVE  /\ i \in 1..(Len(t) + 1)
         /\ \A j \in 1..(i - 1) : End(t[j]) <= f.addr
         /\ \A j \in i..Len(t) : End(f) <= t[j].addr
<1>1. /\ t \in Seq(AreaType) /\ Len(t) \in Nat
      /\ \A k \in 1..Len(t) : t[k] \in AreaType
  BY LenProperties, ElementOfSeq DEF Table
<1>2. /\ i \in 1..(Len(t) + 1)
      /\ i = Len(t) + 1 \/ t[i].addr > f.addr
      /\ \A j \in 1..(i - 1) : t[j].addr <= f.addr
  <2>1. t \in Seq(AnyArea) /\ f.addr \in Nat BY TableLoose, EndBehind DEF Loose
  <2> QED BY <2>1, BehindPlace
<1>3. ASSUME NEW j \in 1..(i - 1) PROVE End(t[j]) <= f.addr
  <2>1. t[j] \in AreaType /\ Apart(f, t[j]) /\ t[j].addr <= f.addr
    BY <1>1, <1>2 DEF Clear
  <2> QED BY <2>1 DEF Apart, AreaType, End
<1>4. ASSUME NEW j \in i..Len(t) PROVE End(f) <= t[j].addr
  <2>1. i \in 1..Len(t) /\ j \in 1..Len(t) /\ t[i].addr > f.addr
    BY <1>1, <1>2
  <2>2. t[i] \in AreaType /\ t[j] \in AreaType /\ Apart(f, t[j])
    BY <1>1, <2>1 DEF Clear
  <2>3. t[j].addr > f.addr
    <3>1. CASE j = i BY <3>1, <2>1
    <3>2. CASE i < j
      <4>1. End(t[i]) < t[j].addr BY <2>1, <3>2 DEF Table
      <4> QED BY <4>1, <2>1, <2>2 DEF AreaType, End
    <3> QED BY <2>1, <3>1, <3>2
  <2> QED BY <2>2, <2>3 DEF Apart, AreaType, End
<1> QED BY <1>2, <1>3, <1>4

(* Where the new area does not touch, the order is strict.                  *)
LEMMA FreeStrict ==
  ASSUME NEW t, Table(t), NEW f \in AreaType, NEW i \in 1..(Len(t) + 1),
         \A j \in 1..(i - 1) : End(t[j]) <= f.addr,
         \A j \in i..Len(t) : End(f) <= t[j].addr
  PROVE  /\ ~(i > 1 /\ End(t[i - 1]) = f.addr)
              => \A j \in 1..(i - 1) : End(t[j]) < f.addr
         /\ ~(i <= Len(t) /\ End(f) = t[i].addr)
              => \A j \in i..Len(t) : End(f) < t[j].addr
<1>1. /\ Len(t) \in Nat /\ f.addr \in Nat /\ End(f) \in Nat
      /\ \A k \in 1..Len(t) : t[k] \in AreaType
  BY LenProperties, ElementOfSeq, EndBehind DEF Table
<1>2. ASSUME ~(i > 1 /\ End(t[i - 1]) = f.addr), NEW j \in 1..(i - 1)
      PROVE  End(t[j]) < f.addr
  <2>1. i - 1 \in 1..Len(t) /\ j \in 1..Len(t) /\ End(t[i - 1]) # f.addr
    BY <1>1, <1>2
  <2>2. End(t[j]) \in Nat /\ End(t[i - 1]) \in Nat /\ t[i - 1].addr < End(t[i - 1])
        /\ t[i - 1].addr \in Nat
    BY <1>1, <2>1, EndBehind
  <2>3. CASE j = i - 1 BY <1>1, <2>1, <2>2, <2>3
  <2>4. CASE j < i - 1
    <3>1. End(t[j]) < t[i - 1].addr BY <2>1, <2>4 DEF Table
    <3>2. End(t[i - 1]) <= f.addr BY <2>1, <1>1
    <3> QED BY <1>1, <2>2, <3>1, <3>2
  <2> QED BY <1>1, <2>3, <2>4
<1>3. ASSUME ~(i <= Len(t) /\ End(f) = t[i].addr), NEW j \in i..Len(t)
      PROVE  End(f) < t[j].addr
  <2>1. i \in 1..Len(t) /\ j \in 1..Len(t) /\ End(f) # t[i].addr
    BY <1>1, <1>3
  <2>2. End(t[i]) \in Nat /\ t[i].addr < End(t[i]) /\ t[i].addr \in Nat
        /\ t[j].addr \in Nat
    BY <1>1, <2>1, EndBehind
  <2>3. End(f) <= t[i].addr BY <1>1, <2>1
  <2>4. CASE j = i BY <1>1, <2>1, <2>2, <2>3, <2>4
  <2>5. CASE i < j
    <3>1. End(t[i]) < t[j].addr BY <2>1, <2>5 DEF Table
    <3> QED BY <1>1, <2>2, <2>3, <3>1
  <2> QED BY <1>1, <2>4, <2>5
<1> QED BY <1>2, <1>3

(* u is the table t with the area f in it, and with nothing else.           *)
Good(u, f, t) ==
  /\ Loose(u)
  /\ \A x : Has(u, x) <=> Inside(x, f) \/ Has(t, x)
  /\ Table(t) /\ f \in AreaType => Table(u)

\* The area gets a place of its own.
LEMMA GoodInsert ==
  ASSUME NEW t, Loose(t), NEW f \in AnyArea, Clear(f, t), NEW i \in 1..(Len(t) + 1),
         Table(t) /\ f \in AreaType => /\ \A j \in 1..(i - 1) : End(t[j]) < f.addr
                                       /\ \A j \in i..Len(t) : End(f) < t[j].addr
  PROVE  Good(Insert(t, i, f), f, t)
<1>1. Loose(Insert(t, i, f)) /\ \A x : Has(Insert(t, i, f), x) <=> Inside(x, f) \/ Has(t, x)
  BY InsertHas
<1>2. ASSUME Table(t), f \in AreaType PROVE Table(Insert(t, i, f))
  BY <1>2, InsertTable
<1> QED BY <1>1, <1>2 DEF Good

(* An entry gives way to one that it is joined to. *)
LEMMA GoodReplace ==
  ASSUME NEW t, Loose(t), NEW f \in AnyArea, Clear(f, t), NEW i \in 1..Len(t),
         NEW c \in AnyArea,
         \A x : Inside(x, c) <=> Inside(x, f) \/ Inside(x, t[i]),
         Table(t) /\ f \in AreaType => /\ c \in AreaType
                                       /\ \A j \in 1..(i - 1) : End(t[j]) < c.addr
                                       /\ \A j \in (i + 1)..Len(t) : End(c) < t[j].addr
  PROVE  Good(Put(t, i, c), f, t)
<1>1. ASSUME NEW x PROVE ~(Inside(x, c) /\ Others(t, i, x))
  <2>1. ~(Inside(x, f) /\ Has(t, x)) BY ClearIs DEF Loose
  <2> QED BY <2>1, OthersAre
<1>2. /\ Loose(Put(t, i, c))
      /\ \A x : Has(Put(t, i, c), x) <=> Inside(x, c) \/ Others(t, i, x)
  BY <1>1, PutHas
<1>3. ASSUME Table(t), f \in AreaType PROVE Table(Put(t, i, c))
  BY <1>3, ReplaceTable
<1> QED BY <1>2, <1>3, OthersAre DEF Good

\* The area is joined with the one behind it.
LEMMA GoodJoinBack ==
  ASSUME NEW t, Loose(t), NEW f \in AnyArea, Clear(f, t), NEW i \in 1..Len(t),
         End(f) = t[i].addr,
         Table(t) /\ f \in AreaType => \A j \in 1..(i - 1) : End(t[j]) < f.addr
  PROVE  Good(Put(t, i, Area(f.addr, t[i].size + f.size)), f, t)
<1>1. PICK c : c = Area(f.addr, t[i].size + f.size) OBVIOUS
<1>2. t[i] \in AnyArea /\ t[i].size \in Nat /\ f.size \in Nat
  BY TableAreas, AreaFields DEF Loose
<1>3. c = Area(f.addr, f.size + t[i].size)
  BY <1>1, <1>2
<1>4. /\ c \in AnyArea /\ c.addr = f.addr /\ End(c) = End(t[i])
      /\ t[i] \in AreaType => c \in AreaType
      /\ \A x : Inside(x, c) <=> Inside(x, f) \/ Inside(x, t[i])
  BY <1>2, <1>3, JoinType
<1>5. ASSUME Table(t), f \in AreaType
      PROVE  /\ c \in AreaType
             /\ \A j \in 1..(i - 1) : End(t[j]) < c.addr
             /\ \A j \in (i + 1)..Len(t) : End(c) < t[j].addr
  <2>1. Len(t) \in Nat /\ t[i] \in AreaType BY <1>5, TableAreas DEF Table
  <2> QED BY <1>4, <1>5, <2>1 DEF Table
<1> QED BY <1>1, <1>4, <1>5, GoodReplace

\* The area is joined with the one in front of it.
LEMMA GoodJoinFront ==
  ASSUME NEW t, Loose(t), NEW f \in AnyArea, Clear(f, t), NEW h \in 1..Len(t),
         End(t[h]) = f.addr,
         Table(t) /\ f \in AreaType => \A j \in (h + 1)..Len(t) : End(f) < t[j].addr
  PROVE  Good(Put(t, h, Area(t[h].addr, t[h].size + f.size)), f, t)
<1>1. PICK c : c = Area(t[h].addr, t[h].size + f.size) OBVIOUS
<1>2. t[h] \in AnyArea
  BY TableAreas DEF Loose
<1>3. /\ c \in AnyArea /\ c.addr = t[h].addr /\ End(c) = End(f)
      /\ f \in AreaType => c \in AreaType
      /\ \A x : Inside(x, c) <=> Inside(x, t[h]) \/ Inside(x, f)
  BY <1>1, <1>2, JoinType
<1>4. ASSUME Table(t), f \in AreaType
      PROVE  /\ c \in AreaType
             /\ \A j \in 1..(h - 1) : End(t[j]) < c.addr
             /\ \A j \in (h + 1)..Len(t) : End(c) < t[j].addr
  <2>1. Len(t) \in Nat BY <1>4, TableAreas DEF Table
  <2> QED BY <1>3, <1>4, <2>1 DEF Table
<1> QED BY <1>1, <1>3, <1>4, GoodReplace

\* The area closes the gap between two others.
LEMMA GoodJoinBoth ==
  ASSUME NEW t, Loose(t), NEW f \in AnyArea, Clear(f, t), NEW h \in 1..(Len(t) - 1),
         End(t[h]) = f.addr, End(f) = t[h + 1].addr,
         NEW d, d = Area(t[h].addr, t[h].size + f.size + t[h + 1].size)
  PROVE  /\ Good(Delete(Put(t, h, d), h + 1), f, t)
         /\ Len(Delete(Put(t, h, d), h + 1)) = Len(t) - 1
<1>1. PICK c : c = Area(t[h].addr, t[h].size + f.size) OBVIOUS
<1>2. PICK v : v = Delete(t, h + 1) OBVIOUS
<1>3. /\ t \in Seq(AnyArea) /\ Len(t) \in Nat
      /\ h \in 1..Len(t) /\ h + 1 \in 1..Len(t) /\ h + 1 \in 2..Len(t) /\ h + 1 - 1 = h
      /\ t[h] \in AnyArea /\ t[h + 1] \in AnyArea
  <2>1. t \in Seq(AnyArea) /\ Len(t) \in Nat /\ \A k \in 1..Len(t) : t[k] \in AnyArea
    BY TableAreas DEF Loose
  <2> QED BY <2>1
<1>4. /\ c \in AnyArea /\ c.addr = t[h].addr /\ End(c) = End(f)
      /\ \A x : Inside(x, c) <=> Inside(x, t[h]) \/ Inside(x, f)
  BY <1>1, <1>3, JoinType
<1>5. d = Area(c.addr, c.size + t[h + 1].size)
  BY <1>1, <1>4 DEF Area
<1>6. /\ d \in AnyArea /\ d.addr = t[h].addr /\ End(d) = End(t[h + 1])
      /\ t[h + 1] \in AreaType => d \in AreaType
      /\ \A x : Inside(x, d) <=> Inside(x, c) \/ Inside(x, t[h + 1])
  BY <1>3, <1>4, <1>5, JoinType
<1>7. /\ Loose(v) /\ Len(v) = Len(t) - 1
      /\ \A k \in 1..Len(v) : v[k] = IF k < h + 1 THEN t[k] ELSE t[k + 1]
      /\ \A x : Has(v, x) <=> Others(t, h + 1, x)
  BY <1>2, <1>3, DeleteHas
<1>8. h \in 1..Len(v) /\ v[h] = t[h]
  BY <1>3, <1>7
<1>9. Delete(Put(t, h, d), h + 1) = Put(v, h, d)
  BY <1>2, <1>3, <1>6, DeleteReplace DEF Put
<1>10. ASSUME NEW x
       PROVE  /\ ~(Inside(x, d) /\ Others(v, h, x))
              /\ Inside(x, d) \/ Others(v, h, x) <=> Inside(x, f) \/ Has(t, x)
  <2>1. ~(Inside(x, f) /\ Has(t, x)) BY <1>3, ClearIs
  <2>2. Inside(x, d) <=> Inside(x, t[h]) \/ Inside(x, f) \/ Inside(x, t[h + 1])
    BY <1>4, <1>6
  <2>3. /\ Has(t, x) <=> Inside(x, t[h + 1]) \/ Has(v, x)
        /\ ~(Inside(x, t[h + 1]) /\ Has(v, x))
    BY <1>3, <1>7, OthersAre
  <2>4. /\ Has(v, x) <=> Inside(x, t[h]) \/ Others(v, h, x)
        /\ ~(Inside(x, t[h]) /\ Others(v, h, x))
    BY <1>7, <1>8, OthersAre
  <2> QED BY <2>1, <2>2, <2>3, <2>4
<1>11. /\ Loose(Put(v, h, d)) /\ Len(Put(v, h, d)) = Len(v)
       /\ \A x : Has(Put(v, h, d), x) <=> Inside(x, d) \/ Others(v, h, x)
  <2>1. Loose(v) /\ h \in 1..Len(v) /\ d \in AnyArea BY <1>6, <1>7, <1>8
  <2>2. \A x : ~(Inside(x, d) /\ Others(v, h, x)) BY <1>10
  <2> QED BY <2>1, <2>2, PutHas
<1>12. ASSUME Table(t), f \in AreaType PROVE Table(Put(v, h, d))
  <2>1. \A k \in 1..Len(t) : t[k] \in AreaType BY <1>12, TableAreas DEF Table
  <2>2. Table(v) BY <1>2, <1>3, <1>12, DeleteTable
  <2>3. \A j \in 1..(h - 1) : End(v[j]) < d.addr
    <3> SUFFICES ASSUME NEW j \in 1..(h - 1) PROVE End(v[j]) < d.addr
      OBVIOUS
    <3>1. v[j] = t[j] /\ j \in 1..Len(t) /\ j < h BY <1>3, <1>7
    <3> QED BY <1>3, <1>6, <1>12, <3>1 DEF Table
  <2>4. \A j \in (h + 1)..Len(v) : End(d) < v[j].addr
    <3> SUFFICES ASSUME NEW j \in (h + 1)..Len(v) PROVE End(d) < v[j].addr
      OBVIOUS
    <3>1. v[j] = t[j + 1] /\ j + 1 \in 1..Len(t) /\ h + 1 < j + 1 BY <1>3, <1>7
    <3> QED BY <1>3, <1>6, <1>12, <3>1 DEF Table
  <2> QED BY <1>3, <1>6, <1>8, <2>1, <2>2, <2>3, <2>4, ReplaceTable
<1> QED BY <1>7, <1>9, <1>10, <1>11, <1>12 DEF Good

(* Does the area touch one of the table?                                    *)
Neighbour(f, t) == \E k \in 1..Len(t) : End(t[k]) = f.addr \/ End(f) = t[k].addr

(* The area is in the table u, or it has found no place.  Only a table in   *)
(* order shows whether an area touches one of it.                           *)
Kept(f, t, u) == /\ Good(u, f, t)
                 /\ Len(u) <= Len(t) \/ Len(u) <= MEMMAN_FREES
                 /\ Neighbour(f, t) \/ Len(t) < MEMMAN_FREES
Lost(f, t) == /\ ~(Len(t) < MEMMAN_FREES)
              /\ Table(t) /\ f \in AreaType => ~Neighbour(f, t)

(* What memman_free does with the table and its counts, case by case.       *)
LEMMA FreeCases ==
  ASSUME NEW m \in ManType, NEW t, t = m.free, Loose(t),
         NEW f \in AnyArea, Clear(f, t), NEW r, r = memman_free(m, f)
  PROVE  /\ r \in ManType
         /\ \/ Kept(f, t, r.free) /\ r.lostsize = m.lostsize
            \/ Lost(f, t) /\ r.free = t /\ r.lostsize = m.lostsize + f.size
<1> USE DEF ManType
<1> PICK i : i = Behind(t, f.addr) OBVIOUS
<1> DEFINE front == i > 1 /\ End(t[i - 1]) = f.addr
           back == i <= Len(t) /\ End(f) = t[i].addr
<1>1. /\ t \in Seq(AnyArea) /\ Len(t) \in Nat /\ DOMAIN t = 1..Len(t)
      /\ \A k \in 1..Len(t) : t[k] \in AnyArea
      /\ f.addr \in Nat /\ f.size \in Nat /\ MEMMAN_FREES \in Nat
  BY TableAreas, AreaFields, MemmanAssumption DEF Loose
<1>2. i \in 1..(Len(t) + 1)
  BY <1>1, BehindPlace
<1>3. ASSUME Table(t), f \in AreaType
      PROVE  /\ \A j \in 1..(i - 1) : End(t[j]) <= f.addr
             /\ \A j \in i..Len(t) : End(f) <= t[j].addr
             /\ ~front => \A j \in 1..(i - 1) : End(t[j]) < f.addr
             /\ ~back => \A j \in i..Len(t) : End(f) < t[j].addr
  <2>1. /\ \A j \in 1..(i - 1) : End(t[j]) <= f.addr
        /\ \A j \in i..Len(t) : End(f) <= t[j].addr
    BY <1>3, FreePlace
  <2> QED BY <1>2, <1>3, <2>1, FreeStrict
<1>4. ASSUME ~front, ~back, Table(t), f \in AreaType PROVE ~Neighbour(f, t)
  <2> SUFFICES ASSUME NEW k \in 1..Len(t)
               PROVE  End(t[k]) # f.addr /\ End(f) # t[k].addr
    BY DEF Neighbour
  <2>1. t[k].addr \in Nat /\ t[k].addr < End(t[k]) /\ f.addr < End(f)
        /\ End(t[k]) \in Nat /\ f.addr \in Nat /\ End(f) \in Nat
    BY <1>4, TableAreas, EndBehind DEF Table
  <2>2. End(t[k]) < f.addr \/ End(f) < t[k].addr
    BY <1>1, <1>2, <1>3, <1>4
  <2> QED BY <2>1, <2>2
<1>5. front \/ back => Neighbour(f, t)
  BY <1>1, <1>2 DEF Neighbour
<1>6. \A u : Good(u, f, t) => /\ u \in Seq(AnyArea) /\ Len(u) \in Nat
                              /\ [m EXCEPT !.free = u] \in ManType
                              /\ [m EXCEPT !.free = u].free = u
                              /\ [m EXCEPT !.free = u].lostsize = m.lostsize
  BY TableAreas DEF Good, Loose
<1>7. CASE front /\ back
  <2> DEFINE h == i - 1
             c == Area(t[h].addr, t[h].size + f.size)
             d == Area(t[h].addr, t[h].size + f.size + t[i].size)
             u == Delete(Put(t, h, d), i)
  <2>1. h \in 1..(Len(t) - 1) /\ h + 1 = i /\ h \in DOMAIN t
    BY <1>1, <1>2, <1>7
  <2>2. Good(u, f, t) /\ Len(u) = Len(t) - 1
    BY <1>7, <2>1, GoodJoinBoth
  <2>3. [[t EXCEPT ![h] = c] EXCEPT ![h] = Area(@.addr, @.size + t[i].size)]
          = Put(t, h, d)
    BY <2>1 DEF Area, Put
  <2>4. r = [m EXCEPT !.free = Delete([[t EXCEPT ![h] = c] EXCEPT ![h] =
                                         Area(@.addr, @.size + t[i].size)], i)]
    BY <1>7, <2>1 DEF memman_free, JoinsFront, JoinsBack, HasRoom, Lose
  <2>5. r = [m EXCEPT !.free = u] BY <2>3, <2>4
  <2> HIDE DEF u
  <2> QED BY <1>1, <1>5, <1>6, <1>7, <2>2, <2>5 DEF Kept
<1>8. CASE front /\ ~back
  <2> DEFINE h == i - 1
             u == Put(t, h, Area(t[h].addr, t[h].size + f.size))
  <2>1. h \in 1..Len(t) /\ h + 1 = i
    BY <1>1, <1>2, <1>8
  <2>2. Good(u, f, t)
    BY <1>3, <1>8, <2>1, GoodJoinFront
  <2>3. r = [m EXCEPT !.free = u]
    BY <1>8, <2>1, <1>1 DEF memman_free, JoinsFront, JoinsBack, HasRoom, Lose, Put
  <2>4. Len(u) <= Len(t) BY <1>1 DEF Put
  <2> HIDE DEF u
  <2> QED BY <1>5, <1>6, <1>8, <2>2, <2>3, <2>4 DEF Kept
<1>9. CASE ~front /\ back
  <2> DEFINE u == Put(t, i, Area(f.addr, t[i].size + f.size))
  <2>1. i \in 1..Len(t)
    BY <1>1, <1>2, <1>9
  <2>2. Good(u, f, t)
    BY <1>3, <1>9, <2>1, GoodJoinBack
  <2>3. r = [m EXCEPT !.free = u]
    BY <1>9, <2>1, <1>1 DEF memman_free, JoinsFront, JoinsBack, HasRoom, Lose, Put
  <2>4. Len(u) <= Len(t) BY <1>1 DEF Put
  <2> HIDE DEF u
  <2> QED BY <1>5, <1>6, <1>9, <2>2, <2>3, <2>4 DEF Kept
<1>10. CASE ~front /\ ~back /\ Len(t) < MEMMAN_FREES
  <2> DEFINE u == Insert(t, i, f)
             x == IF m.maxfrees < Len(t) + 1 THEN Len(t) + 1 ELSE m.maxfrees
  <2>1. Good(u, f, t)
    BY <1>2, <1>3, <1>10, GoodInsert
  <2>2. r = [m EXCEPT !.free = u, !.maxfrees = x]
    BY <1>10 DEF memman_free, JoinsFront, JoinsBack, HasRoom, Lose
  <2>3. x \in Nat BY <1>1
  <2>4. Len(u) = Len(t) + 1 BY <1>2, InsertHas
  <2> HIDE DEF u, x
  <2>5. r \in ManType /\ r.free = u /\ r.lostsize = m.lostsize
    BY <1>6, <2>1, <2>2, <2>3
  <2> QED BY <1>1, <1>10, <2>1, <2>4, <2>5 DEF Kept
<1>11. CASE ~front /\ ~back /\ ~(Len(t) < MEMMAN_FREES)
  <2>1. r = Lose(m, f)
    BY <1>11 DEF memman_free, JoinsFront, JoinsBack, HasRoom
  <2>2. m.lostsize + f.size \in Nat BY <1>1
  <2>3. r \in ManType /\ r.free = t /\ r.lostsize = m.lostsize + f.size
    BY <2>1, <2>2 DEF Lose
  <2> QED BY <1>4, <1>11, <2>3 DEF Lost
<1> QED BY <1>7, <1>8, <1>9, <1>10, <1>11

-----------------------------------------------------------------------------
(* The invariant *)

\* What the invariant says of the table
LEMMA InvTable ==
  ASSUME Inv, NEW t, t = man.free
  PROVE  /\ Loose(t) /\ t \in Seq(AnyArea)
         /\ \A f \in used : f \in AnyArea /\ Clear(f, t)
         /\ ~emptied => Table(t) /\ used \subseteq AreaType
<1>1. t \in Seq(AnyArea) /\ DOMAIN t = 1..Len(t)
  BY TableAreas DEF Inv, ManType
<1> QED BY <1>1 DEF Inv, NoOverlap, Loose, Clear

\* What a step has to show of it
LEMMA InvAfter ==
  ASSUME NEW u, man' \in ManType, man'.free = u, Loose(u), emptied' \in BOOLEAN,
         \A f \in used' : f \in AnyArea /\ Clear(f, u),
         \A f, g \in used' : f # g => Apart(f, g),
         ~emptied' => Table(u) /\ used' \subseteq AreaType
  PROVE  Inv'
<1>1. DOMAIN u = 1..Len(u)
  BY TableAreas DEF Loose
<1> QED BY <1>1 DEF Inv, NoOverlap, Loose, Clear

\* An allocation takes its memory out of the table.
LEMMA AllocInv ==
  ASSUME Inv, NEW n \in Nat, memman_alloc(n) PROVE Inv'
<1> PICK t : t = man.free OBVIOUS
<1> PICK i : i = Fit(t, n) OBVIOUS
<1>1. /\ Loose(t) /\ t \in Seq(AnyArea) /\ Len(t) \in Nat
      /\ \A f \in used : f \in AnyArea /\ Clear(f, t)
      /\ ~emptied => Table(t) /\ used \subseteq AreaType
  BY InvTable, TableAreas
<1>2. i \in 1..(Len(t) + 1) /\ (i = Len(t) + 1 \/ t[i].size >= n)
  BY <1>1, FitPlace
<1>3. CASE UNCHANGED memVars
  BY <1>3 DEF Inv, NoOverlap, memVars
<1>4. CASE ~UNCHANGED memVars
  <2> PICK a, u : a = Area(t[i].addr, n) /\ u = TakeFrom(t, i, n) OBVIOUS
  <2>1. /\ i \in 1..Len(t) /\ t[i].size >= n
        /\ man' = [man EXCEPT !.free = u] /\ used' = used \cup {a}
        /\ emptied' = (emptied \/ n = 0)
    BY <1>1, <1>2, <1>4 DEF memman_alloc
  <2>2. /\ Loose(u) /\ a \in AnyArea
        /\ \A x : Inside(x, a) => Has(t, x)
        /\ \A x : Has(u, x) <=> Has(t, x) /\ ~Inside(x, a)
        /\ Table(t) => Table(u)
    BY <1>1, <2>1, TakeHas
  <2>3. man' \in ManType /\ man'.free = u
    BY <2>1, <2>2 DEF Inv, ManType, Loose
  <2>4. ASSUME NEW f \in used PROVE Clear(f, u) /\ Apart(f, a) /\ Apart(a, f)
    <3>1. f \in AnyArea /\ \A x : ~(Inside(x, f) /\ Has(t, x))
      BY <1>1, ClearIs
    <3>2. Clear(f, u) BY <2>2, <3>1, ClearIs DEF Loose
    <3>3. Apart(f, a) /\ Apart(a, f) BY <2>2, <3>1, ApartIs
    <3> QED BY <3>2, <3>3
  <2>5. Clear(a, u)
    BY <2>2, ClearIs DEF Loose
  <2>6. ~emptied' => Table(u) /\ used' \subseteq AreaType
    <3>1. n # 0 => a \in AreaType
      <4>1. a.size = n BY DEF Area
      <4> QED BY <2>2, <4>1, AreaFields
    <3> QED BY <1>1, <2>1, <2>2, <3>1
  <2>7. emptied' \in BOOLEAN BY <2>1 DEF Inv
  <2>8. \A f, g \in used' : f # g => Apart(f, g)
    BY <2>1, <2>4 DEF Inv, NoOverlap
  <2>9. \A f \in used' : f \in AnyArea /\ Clear(f, u)
    BY <1>1, <2>1, <2>2, <2>4, <2>5
  <2> QED BY <2>2, <2>3, <2>6, <2>7, <2>8, <2>9, InvAfter
<1> QED BY <1>3, <1>4

\* Giving an area back keeps the invariant, whichever way it is joined.
LEMMA FreeInv ==
  ASSUME Inv, NEW f \in used, Free(f) PROVE Inv'
<1> PICK t : t = man.free OBVIOUS
<1> PICK u : u = man'.free OBVIOUS
<1>1. /\ Loose(t) /\ t \in Seq(AnyArea)
      /\ \A g \in used : g \in AnyArea /\ Clear(g, t)
      /\ ~emptied => Table(t) /\ used \subseteq AreaType
  BY InvTable
<1>2. /\ man' = memman_free(man, f) /\ emptied' = emptied
      /\ used' = used \ {f} \/ (f.size = 0 /\ used' = used)
  BY DEF Free
<1>3. man' \in ManType /\ (u = t \/ Good(u, f, t))
  BY <1>1, <1>2, FreeCases DEF Kept, Inv
<1>4. /\ Loose(u)
      /\ \A x : Has(u, x) => Inside(x, f) \/ Has(t, x)
      /\ Table(t) /\ f \in AreaType => Table(u)
  BY <1>1, <1>3 DEF Good
<1>5. ASSUME NEW g \in used' PROVE g \in AnyArea /\ Clear(g, u)
  <2>1. g \in used /\ g \in AnyArea /\ f \in AnyArea BY <1>1, <1>2
  <2>2. \A x : ~(Inside(x, g) /\ Has(t, x)) BY <1>1, <2>1, ClearIs
  <2>3. \A x : ~(Inside(x, g) /\ Inside(x, f))
    <3>1. CASE g = f
      <4>1. f.size = 0 BY <1>2, <3>1
      <4> QED BY <2>1, <4>1, InsideIs
    <3>2. CASE g # f
      <4>1. Apart(g, f) BY <2>1, <3>2 DEF Inv, NoOverlap
      <4> QED BY <2>1, <4>1, ApartIs
    <3> QED BY <3>1, <3>2
  <2>4. \A x : ~(Inside(x, g) /\ Has(u, x)) BY <1>4, <2>2, <2>3
  <2> QED BY <1>4, <2>1, <2>4, ClearIs DEF Loose
<1>6. \A g, h \in used' : g # h => Apart(g, h)
  BY <1>2 DEF Inv, NoOverlap
<1>7. ~emptied' => Table(u) /\ used' \subseteq AreaType
  BY <1>1, <1>2, <1>4
<1>8. emptied' \in BOOLEAN BY <1>2 DEF Inv
<1> QED BY <1>3, <1>4, <1>5, <1>6, <1>7, <1>8, InvAfter

-----------------------------------------------------------------------------
(* The specification *)

(* What memman_alloc_4k asks for                                            *)
LEMMA RoundUpNat == ASSUME NEW n \in Nat PROVE RoundUp(n) \in Nat
<1>1. Page \in Nat \ {0} BY MemmanAssumption
<1> DEFINE q == (n + Page - 1) \div Page
<1>2. q \in Nat
  BY <1>1
<1> HIDE DEF q
<1>3. q * Page \in Nat
  BY <1>1, <1>2
<1> QED BY <1>3 DEF RoundUp, q

\* The areas of the boot are given back to an empty table.
LEMMA InitInv == ASSUME MemInit PROVE Inv
<1>1. /\ man = [maxfrees |-> 0, lostsize |-> 0, free |-> <<>>]
      /\ used = Areas /\ emptied = FALSE
  BY DEF MemInit, memman_init
<1>2. <<>> \in Seq(AreaType) /\ <<>> \in Seq(AnyArea) /\ Len(<<>>) = 0 /\ DOMAIN <<>> = {}
  BY EmptySeq, LenProperties
<1>3. Areas \subseteq AreaType /\ Areas \subseteq AnyArea
  BY MemmanAssumption DEF AreaType, AnyArea
<1>4. \A f, g \in Areas : f # g => Apart(f, g)
  BY MemmanAssumption DEF Apart, End
<1>5. man.free = <<>> /\ man \in ManType
  BY <1>1, <1>2 DEF ManType
<1>6. NoOverlap
  BY <1>1, <1>2, <1>4, <1>5 DEF NoOverlap
<1>7. Table(man.free)
  BY <1>2, <1>5 DEF Table
<1> QED BY <1>1, <1>3, <1>5, <1>6, <1>7 DEF Inv

\* Every step keeps the invariant.
LEMMA NextInv == ASSUME Inv, [MemNext]_memVars PROVE Inv'
<1>1. ASSUME NEW size \in Requests, memman_alloc(size) PROVE Inv'
  BY <1>1, AllocInv, MemmanAssumption
<1>2. ASSUME NEW size \in Requests4k, memman_alloc(RoundUp(size)) PROVE Inv'
  <2>1. size \in Nat BY MemmanAssumption
  <2> QED BY <1>2, <2>1, AllocInv, RoundUpNat
<1>3. ASSUME NEW f \in used, Free(f) PROVE Inv'
  BY <1>3, FreeInv
<1>4. CASE UNCHANGED memVars
  BY <1>4 DEF memVars, Inv, NoOverlap
<1> QED BY <1>1, <1>2, <1>3, <1>4 DEF MemNext

(* Whatever is asked for and given back in whatever order, memory.c hands   *)
(* out no memory that is in use or still in its table; and until somebody   *)
(* has got no bytes, it keeps the table in the order of the addresses with  *)
(* all neighbours joined (which is also what memory.c:94 says).             *)
THEOREM NoDoubleAllocation == MemSpec => []TableOK
<1>1. MemInit => Inv BY InitInv
<1>2. Inv /\ [MemNext]_memVars => Inv' BY NextInv
<1>3. Inv => TableOK
  BY DEF Inv, Table, TableOK, InOrder
<1> QED BY <1>1, <1>2, <1>3, PTL DEF MemSpec

-----------------------------------------------------------------------------
(* The pool: the addresses of the areas in the table                        *)

Mem(t) == UNION {t[i].addr..(End(t[i]) - 1) : i \in DOMAIN t}

(* An address is available if an area of the table has it.                  *)
LEMMA MemHas ==
  ASSUME NEW t \in Seq(AnyArea), NEW x PROVE x \in Mem(t) <=> Has(t, x)
<1>1. DOMAIN t = 1..Len(t) BY LenProperties
<1> QED BY <1>1 DEF Mem, Has, Inside

\* Between two areas of a table is an address that neither has.
LEMMA Edges ==
  ASSUME NEW t, Table(t), NEW i \in 1..Len(t)
  PROVE  Has(t, t[i].addr) /\ ~Has(t, t[i].addr - 1) /\ ~Has(t, End(t[i]))
<1>1. Len(t) \in Nat /\ \A k \in 1..Len(t) : t[k] \in AreaType
  BY TableAreas DEF Table
<1>2. \A k \in 1..Len(t) : t[k].addr \in Nat /\ End(t[k]) \in Nat /\ t[k].addr < End(t[k])
  BY <1>1, EndBehind
<1>3. Inside(t[i].addr, t[i])
  BY <1>2 DEF Inside
<1>4. ASSUME NEW k \in 1..Len(t)
      PROVE  ~Inside(t[i].addr - 1, t[k]) /\ ~Inside(End(t[i]), t[k])
  <2>1. k = i \/ End(t[k]) < t[i].addr \/ End(t[i]) < t[k].addr
    BY <1>1 DEF Table
  <2> QED BY <1>2, <2>1 DEF Inside
<1> QED BY <1>3, <1>4 DEF Has

\* Two areas of a table have no address in common.
LEMMA OneArea ==
  ASSUME NEW t, Table(t), NEW i \in 1..Len(t), NEW k \in 1..Len(t),
         NEW x, Inside(x, t[i]), Inside(x, t[k])
  PROVE  i = k
<1>1. t[i] \in AreaType /\ t[k] \in AreaType /\ Len(t) \in Nat
  BY TableAreas DEF Table
<1>2. /\ t[i].addr \in Nat /\ End(t[i]) \in Nat
      /\ t[k].addr \in Nat /\ End(t[k]) \in Nat
  BY <1>1, EndBehind
<1>3. i < k => End(t[i]) < t[k].addr BY DEF Table
<1>4. k < i => End(t[k]) < t[i].addr BY DEF Table
<1> QED BY <1>1, <1>2, <1>3, <1>4 DEF Inside

StartsOf(A) == {a \in A : a - 1 \notin A}

\* The stretches of available memory are the areas of the table.
LEMMA StartsAre ==
  ASSUME NEW t, Table(t)
  PROVE  /\ StartsOf(Mem(t)) = {t[i].addr : i \in 1..Len(t)}
         /\ Cardinality(StartsOf(Mem(t))) = Len(t)
<1>1. t \in Seq(AreaType) /\ Len(t) \in Nat /\ \A k \in 1..Len(t) : t[k] \in AreaType
  BY TableAreas DEF Table
<1> DEFINE S == {t[i].addr : i \in 1..Len(t)}
<1>2. \A x : x \in Mem(t) <=> Has(t, x)
  BY TableLoose, MemHas DEF Loose
<1>3. ASSUME NEW i \in 1..Len(t) PROVE t[i].addr \in StartsOf(Mem(t))
  BY <1>2, Edges DEF StartsOf
<1>4. ASSUME NEW a \in StartsOf(Mem(t)) PROVE a \in S
  <2>1. Has(t, a) /\ ~Has(t, a - 1) BY <1>2 DEF StartsOf
  <2>2. PICK k \in 1..Len(t) : Inside(a, t[k]) BY <2>1 DEF Has
  <2>3. ~Inside(a - 1, t[k]) BY <2>1 DEF Has
  <2>4. t[k].addr \in Nat /\ End(t[k]) \in Nat BY <1>1, EndBehind
  <2>5. a = t[k].addr BY <2>2, <2>3, <2>4 DEF Inside
  <2> QED BY <2>5
<1>5. StartsOf(Mem(t)) = S BY <1>3, <1>4
<1>6. ASSUME NEW i \in 1..Len(t), NEW k \in 1..Len(t), t[i].addr = t[k].addr
      PROVE  i = k
  <2>1. Inside(t[i].addr, t[i]) /\ Inside(t[i].addr, t[k])
    BY <1>1, <1>6, EndBehind DEF Inside
  <2> QED BY <2>1, OneArea
<1>7. Cardinality(S) = Len(t)
  <2> DEFINE g == [i \in 1..Len(t) |-> t[i].addr]
             n == Len(t)
  <2>1. g \in [1..n -> S] OBVIOUS
  <2>2. \A i, k \in 1..n : g[i] = g[k] => i = k BY <1>6
  <2>3. \A a \in S : \E i \in 1..n : g[i] = a OBVIOUS
  <2>4. n \in Nat BY <1>1
  <2> HIDE DEF g, n, S
  <2>5. g \in Bijection(1..n, S)
    BY <2>1, <2>2, <2>3 DEF Bijection, Injection, Surjection, IsInjective
  <2>6. IsFiniteSet(1..n) /\ Cardinality(1..n) = n BY <2>4, FS_Interval
  <2>7. ExistsBijection(1..n, S) BY <2>5 DEF ExistsBijection
  <2>8. Cardinality(S) = n BY <2>6, <2>7, FS_Bijection
  <2> QED BY <2>8 DEF n
<1> QED BY <1>5, <1>7

\* A request fits at a start of a stretch if the area there is large enough.
LEMMA FitsArea ==
  ASSUME NEW t, Table(t), NEW a, NEW n \in Nat \ {0}
  PROVE  (a \in StartsOf(Mem(t)) /\ a..(a + n - 1) \subseteq Mem(t))
            <=> \E i \in 1..Len(t) : a = t[i].addr /\ t[i].size >= n
<1>1. t \in Seq(AreaType) /\ Len(t) \in Nat /\ \A k \in 1..Len(t) : t[k] \in AreaType
  BY TableAreas DEF Table
<1>2. \A x : x \in Mem(t) <=> Has(t, x)
  BY TableLoose, MemHas DEF Loose
<1>3. StartsOf(Mem(t)) = {t[i].addr : i \in 1..Len(t)}
  BY StartsAre
<1>4. ASSUME NEW i \in 1..Len(t)
      PROVE  t[i].addr..(t[i].addr + n - 1) \subseteq Mem(t) <=> t[i].size >= n
  <2>1. t[i].addr \in Nat /\ t[i].size \in Nat /\ End(t[i]) = t[i].addr + t[i].size
    BY <1>1 DEF AreaType, End
  <2>2. ASSUME t[i].size >= n, NEW x \in t[i].addr..(t[i].addr + n - 1)
        PROVE  x \in Mem(t)
    <3>1. Inside(x, t[i]) BY <2>1, <2>2 DEF Inside
    <3> QED BY <1>2, <3>1 DEF Has
  <2>3. ASSUME t[i].size < n PROVE End(t[i]) \in t[i].addr..(t[i].addr + n - 1)
    BY <2>1, <2>3
  <2>4. End(t[i]) \notin Mem(t) BY <1>2, Edges
  <2> QED BY <2>1, <2>2, <2>3, <2>4
<1> QED BY <1>3, <1>4

\* The addresses of a table rise.
LEMMA TableRises ==
  ASSUME NEW t, Table(t), NEW i \in 1..Len(t), NEW j \in 1..Len(t), i < j
  PROVE  t[i].addr < t[j].addr
<1>1. t[i] \in AreaType /\ t[j] \in AreaType
  BY ElementOfSeq DEF Table
<1>2. End(t[i]) < t[j].addr BY DEF Table
<1> QED BY <1>1, <1>2, EndBehind

\* memman_alloc takes the lowest stretch that fits.
LEMMA LowestFits ==
  ASSUME NEW t, Table(t), NEW n \in Nat \ {0}, NEW i, i = Fit(t, n)
  PROVE  /\ i \in 1..(Len(t) + 1)
         /\ i <= Len(t) => /\ t[i].size >= n
                           /\ \A j \in 1..Len(t) : t[j].size >= n => t[i].addr <= t[j].addr
         /\ i > Len(t) => \A j \in 1..Len(t) : t[j].size < n
<1>1. t \in Seq(AreaType) /\ Len(t) \in Nat /\ \A k \in 1..Len(t) : t[k] \in AreaType
  BY TableAreas DEF Table
<1>2. /\ i \in 1..(Len(t) + 1) /\ (i = Len(t) + 1 \/ t[i].size >= n)
      /\ \A j \in 1..(i - 1) : t[j].size < n
  BY TableLoose, FitPlace DEF Loose
<1>3. ASSUME i <= Len(t), NEW j \in 1..Len(t), t[j].size >= n
      PROVE  t[i].addr <= t[j].addr
  <2>1. i \in 1..Len(t) BY <1>1, <1>2, <1>3
  <2>2. t[i].addr \in Nat /\ t[j].addr \in Nat /\ t[j].size \in Nat
    <3>1. t[i] \in AreaType /\ t[j] \in AreaType BY ONLY <1>1, <2>1, j \in 1..Len(t)
    <3> QED BY ONLY <3>1 DEF AreaType
  <2>3. ~(j < i) BY ONLY <1>1, <1>2, <1>3, <2>1, <2>2, n \in Nat, j \in 1..Len(t)
  <2>4. CASE i = j BY <2>2, <2>4
  <2>5. CASE i < j
    <3>1. t[i].addr < t[j].addr BY <2>1, <2>5, TableRises
    <3> QED BY <2>2, <3>1
  <2> QED BY <1>1, <2>1, <2>3, <2>4, <2>5
<1> QED BY <1>1, <1>2, <1>3

\* An area has a neighbour if available memory ends or begins where it does.
LEMMA TouchesIsNeighbour ==
  ASSUME NEW t, Table(t), NEW f \in AreaType, Clear(f, t)
  PROVE  Neighbour(f, t) <=> f.addr - 1 \in Mem(t) \/ f.addr + f.size \in Mem(t)
<1>1. t \in Seq(AreaType) /\ \A k \in 1..Len(t) : t[k] \in AreaType
  BY TableAreas DEF Table
<1>2. \A x : x \in Mem(t) <=> Has(t, x)
  BY TableLoose, MemHas DEF Loose
<1>3. /\ f.addr \in Nat /\ f.size \in Nat \ {0} /\ End(f) = f.addr + f.size
      /\ \A k \in 1..Len(t) : t[k].addr \in Nat /\ End(t[k]) \in Nat /\ t[k].addr < End(t[k])
  BY <1>1, EndBehind DEF AreaType, End
<1>4. ASSUME NEW k \in 1..Len(t)
      PROVE  /\ Inside(f.addr - 1, t[k]) <=> End(t[k]) = f.addr
             /\ Inside(f.addr + f.size, t[k]) <=> End(f) = t[k].addr
  <2>1. End(f) <= t[k].addr \/ End(t[k]) <= f.addr BY <1>1, <1>3 DEF Clear, Apart, AreaType
  <2> QED BY <1>3, <2>1, SMTT(20) DEF Inside
<1> QED BY <1>2, <1>4 DEF Neighbour, Has

-----------------------------------------------------------------------------
(* The steps of the pool *)

Within(f) == f.addr..(f.addr + f.size - 1) \subseteq Addresses

Held(u) == {f \in u : f.size > 0}

(* The table has no more areas than places, and there is no memory but the  *)
(* memory that was given at boot.                                           *)
PoolInv ==
  /\ Inv
  /\ Len(man.free) <= MEMMAN_FREES
  /\ Mem(man.free) \subseteq Addresses
  /\ \A f \in used : Within(f)

\* The names of the pool
LEMMA PoolNames ==
  /\ Pool!Starts = StartsOf(Mem(man.free))
  /\ \A a, n : Pool!Fits(a, n) <=>
       a \in StartsOf(Mem(man.free)) /\ a..(a + n - 1) \subseteq Mem(man.free)
  /\ \A f : Pool!Touches(f) <=>
       f.addr - 1 \in Mem(man.free) \/ f.addr + f.size \in Mem(man.free)
  /\ Cardinality(StartsOf(Mem(man.free))) = Pool!Cardinality(Pool!Starts)
BY DEF Pool!Starts, StartsOf, Mem, Pool!Fits, Pool!Block, Pool!Touches,
       Pool!Cardinality, Cardinality

\* In a table in order memman_alloc takes the lowest stretch that fits.
LEMMA TakesLowest ==
  ASSUME Inv, ~emptied, Mem(man.free) \subseteq Addresses, NEW n \in Nat \ {0},
         NEW i, i = Fit(man.free, n), i <= Len(man.free)
  PROVE  LET F == {x \in Addresses : Pool!Fits(x, n)}
         IN  man.free[i].addr \in F /\ man.free[i].addr = Pool!Min(F)
<1> PICK t : t = man.free OBVIOUS
<1> DEFINE F == {x \in Addresses : Pool!Fits(x, n)}
<1>1. Table(t) /\ Len(t) \in Nat /\ \A k \in 1..Len(t) : t[k] \in AreaType
  BY TableAreas DEF Inv, Table
<1>2. /\ i \in 1..Len(t) /\ t[i].size >= n
      /\ \A j \in 1..Len(t) : t[j].size >= n => t[i].addr <= t[j].addr
  <2> HIDE DEF F
  <2>1. Table(t) /\ i = Fit(t, n) /\ i <= Len(t) /\ Len(t) \in Nat BY <1>1
  <2>2. /\ i \in 1..(Len(t) + 1)
        /\ i <= Len(t) => /\ t[i].size >= n
                          /\ \A j \in 1..Len(t) : t[j].size >= n => t[i].addr <= t[j].addr
    BY ONLY <2>1, LowestFits, n \in Nat \ {0}
  <2> QED BY ONLY <2>1, <2>2
<1>3. ASSUME NEW a
      PROVE  Pool!Fits(a, n) <=> \E k \in 1..Len(t) : a = t[k].addr /\ t[k].size >= n
  <2>1. Pool!Fits(a, n) <=> a \in StartsOf(Mem(t)) /\ a..(a + n - 1) \subseteq Mem(t)
    BY PoolNames
  <2>2. (a \in StartsOf(Mem(t)) /\ a..(a + n - 1) \subseteq Mem(t))
           <=> \E k \in 1..Len(t) : a = t[k].addr /\ t[k].size >= n
    <3>1. Table(t) BY <1>1
    <3> HIDE DEF F
    <3> QED BY ONLY <3>1, FitsArea, n \in Nat \ {0}
  <2> QED BY <2>1, <2>2
<1>4. \A a \in F : a \in Nat /\ t[i].addr <= a
  <2> SUFFICES ASSUME NEW a \in F PROVE a \in Nat /\ t[i].addr <= a
    OBVIOUS
  <2>1. PICK k \in 1..Len(t) : a = t[k].addr /\ t[k].size >= n BY <1>3
  <2> QED BY <1>1, <1>2, <2>1 DEF AreaType
<1>5. t[i].addr \in F
  <2>1. Pool!Fits(t[i].addr, n) BY <1>2, <1>3
  <2>2. t[i].addr \in Mem(t) BY <2>1, PoolNames DEF StartsOf
  <2> QED BY <2>1, <2>2
<1> HIDE DEF F
<1>6. \A y \in F : (\A z \in F : y <= z) => y = t[i].addr
  BY <1>4, <1>5
<1>7. t[i].addr = Pool!Min(F)
  BY <1>4, <1>5, <1>6 DEF Pool!Min
<1> QED BY <1>5, <1>7 DEF F

\* memman_alloc is an allocation of the pool, or nothing happens.
LEMMA PoolAlloc ==
  ASSUME PoolInv, NEW n \in Nat, memman_alloc(n)
  PROVE  /\ \/ n # 0 /\ (Pool!Alloc(n) \/ Pool!AllocUntidy(n))
            \/ n = 0 /\ emptied' = TRUE /\ UNCHANGED <<Mem(man.free), Held(used), man.lostsize>>
            \/ UNCHANGED Pool!vars
         /\ PoolInv'
<1> PICK t, i : t = man.free /\ i = Fit(t, n) OBVIOUS
<1>1. Inv' BY AllocInv DEF PoolInv
<1>2. /\ Loose(t) /\ t \in Seq(AnyArea) /\ Len(t) \in Nat
      /\ \A k \in 1..Len(t) : t[k] \in AnyArea
  BY InvTable, TableAreas DEF PoolInv
<1>3. i \in 1..(Len(t) + 1) /\ (i = Len(t) + 1 \/ t[i].size >= n)
  BY <1>2, FitPlace
<1>4. CASE UNCHANGED memVars
  <2>1. UNCHANGED Pool!vars BY <1>4 DEF memVars, Pool!vars
  <2>2. PoolInv' BY <1>1, <1>4 DEF PoolInv, memVars, Mem
  <2> QED BY <2>1, <2>2
<1>5. CASE ~UNCHANGED memVars
  <2> PICK a, u : a = t[i].addr /\ u = TakeFrom(t, i, n) OBVIOUS
  <2> PICK b : b = Area(a, n) OBVIOUS
  <2>1. /\ i \in 1..Len(t) /\ t[i].size >= n
        /\ man' = [man EXCEPT !.free = u] /\ used' = used \cup {b}
        /\ emptied' = (emptied \/ n = 0)
    BY <1>2, <1>3, <1>5 DEF memman_alloc
  <2>2. man'.free = u /\ man'.lostsize = man.lostsize
    BY <2>1 DEF PoolInv, Inv, ManType
  <2>3. b.addr = a /\ b.size = n /\ a \in Nat
    BY <1>2, <2>1, AreaFields DEF Area
  <2>4. /\ Loose(u) /\ Len(u) <= Len(t)
        /\ b \in AnyArea /\ \A x : Inside(x, b) => Has(t, x)
        /\ \A x : Has(u, x) <=> Has(t, x) /\ ~Inside(x, b)
    BY <1>2, <2>1, TakeHas
  <2>5. \A x : Inside(x, b) <=> x \in a..(a + n - 1)
    BY <2>3, <2>4, InsideIs
  <2>6. (\A x : x \in Mem(t) <=> Has(t, x)) /\ (\A x : x \in Mem(u) <=> Has(u, x))
    BY <1>2, <2>4, MemHas DEF Loose
  <2>7. a..(a + n - 1) \subseteq Mem(t) /\ Mem(u) = Mem(t) \ (a..(a + n - 1))
    BY <2>4, <2>5, <2>6
  <2>8. (Mem(man.free))' = Mem(u) BY <2>2 DEF Mem
  <2>9. PoolInv'
    <3>1. Mem(t) \subseteq Addresses BY DEF PoolInv
    <3>2. Len(u) <= MEMMAN_FREES
      <4>1. Len(u) \in Nat BY <2>4, TableAreas DEF Loose
      <4>2. MEMMAN_FREES \in Nat BY MemmanAssumption
      <4>3. Len(t) <= MEMMAN_FREES BY DEF PoolInv
      <4> QED BY <1>2, <2>4, <4>1, <4>2, <4>3
    <3>3. Within(b) BY <2>3, <2>7, <3>1 DEF Within
    <3>4. (\A f \in used : Within(f))'
      BY <2>1, <3>3 DEF PoolInv, Within
    <3> QED BY <1>1, <2>2, <2>7, <2>8, <3>1, <3>2, <3>4 DEF PoolInv
  <2>10. CASE n = 0
    <3>1. a..(a + n - 1) = {} BY <2>3, <2>10
    <3>2. Held(used') = Held(used) BY <2>1, <2>3, <2>10 DEF Held
    <3> QED BY <2>1, <2>2, <2>7, <2>8, <2>9, <2>10, <3>1, <3>2 DEF Held
  <2>11. CASE n # 0
    <3>1. Held(used)' = Held(used) \cup {[addr |-> a, size |-> n]}
      <4>1. b.size > 0 BY <2>3, <2>11
      <4> QED BY <2>1, <4>1 DEF Held, Area
    <3>2. Pool!Take(a, n)
      <4>1. UNCHANGED ~emptied
        <5>1. emptied' = emptied BY <2>1, <2>11 DEF PoolInv, Inv
        <5> QED BY <5>1
      <4>2. (Mem(man.free))' = Mem(man.free) \ Pool!Block(a, n)
        BY <2>7, <2>8 DEF Pool!Block
      <4> QED BY <2>2, <3>1, <4>1, <4>2 DEF Pool!Take, Mem, Held
    <3>3. CASE emptied
      <4>1. a \in Addresses
        <5>1. a \in a..(a + n - 1) BY <2>3, <2>11
        <5> QED BY <2>7, <5>1 DEF PoolInv
      <4>2. Pool!Block(a, n) \subseteq UNION {man.free[k].addr..(End(man.free[k]) - 1) :
                                               k \in DOMAIN man.free}
        BY <2>7 DEF Pool!Block, Mem
      <4> QED BY <2>9, <2>11, <3>2, <3>3, <4>1, <4>2 DEF Pool!AllocUntidy
    <3>4. CASE ~emptied
      <4>1. n \in Nat \ {0} /\ i <= Len(t) /\ Mem(man.free) \subseteq Addresses
        BY <1>2, <2>1, <2>11 DEF PoolInv
      <4>2. /\ a \in {x \in Addresses : Pool!Fits(x, n)}
            /\ a = Pool!Min({x \in Addresses : Pool!Fits(x, n)})
        BY <3>4, <4>1, TakesLowest DEF PoolInv
      <4> QED BY <2>9, <2>11, <3>2, <4>2 DEF Pool!Alloc
    <3> QED BY <3>3, <3>4
  <2> QED BY <2>10, <2>11
<1> QED BY <1>4, <1>5

\* memman_free gives a block back to the pool, or loses it.
LEMMA PoolFree ==
  ASSUME PoolInv, NEW f \in used, Free(f)
  PROVE  /\ (f \in Held(used) /\ Pool!FreeBlock(f)) \/ UNCHANGED Pool!vars
         /\ PoolInv'
<1> PICK t : t = man.free OBVIOUS
<1> PICK u : u = man'.free OBVIOUS
<1>1. /\ Loose(t) /\ t \in Seq(AnyArea) /\ Len(t) \in Nat
      /\ f \in AnyArea /\ Clear(f, t)
      /\ ~emptied => Table(t) /\ used \subseteq AreaType
  BY InvTable, TableAreas DEF PoolInv
<1>2. /\ man' = memman_free(man, f) /\ emptied' = emptied /\ used' \subseteq used
      /\ used' = used \ {f} \/ (f.size = 0 /\ used' = used)
  BY DEF Free
<1>3. \/ Kept(f, t, u) /\ man'.lostsize = man.lostsize
      \/ Lost(f, t) /\ u = t /\ man'.lostsize = man.lostsize + f.size
  BY <1>1, <1>2, FreeCases DEF PoolInv, Inv
<1>4. Inv' BY FreeInv DEF PoolInv
<1>5. (Mem(man.free))' = Mem(u) BY DEF Mem
<1>6. Len(t) <= MEMMAN_FREES /\ Mem(t) \subseteq Addresses /\ Within(f)
  BY DEF PoolInv
<1>7. (\A g \in used : Within(g))'
  BY <1>2 DEF PoolInv, Within
<1>8. /\ f.addr \in Nat /\ f.size \in Nat /\ MEMMAN_FREES \in Nat
      /\ man.lostsize \in Nat /\ emptied \in BOOLEAN
  BY <1>1, AreaFields, MemmanAssumption DEF PoolInv, Inv, ManType
<1>9. ASSUME ~emptied
      PROVE  /\ Table(t) /\ f \in AreaType
             /\ Pool!Touches(f) <=> Neighbour(f, t)
             /\ Pool!Cardinality(Pool!Starts) = Len(t)
  <2>1. Table(t) /\ f \in AreaType BY <1>1, <1>9
  <2>2. Pool!Touches(f) <=> Neighbour(f, t)
    BY <1>1, <2>1, TouchesIsNeighbour, PoolNames
  <2> QED BY <2>1, <2>2, StartsAre, PoolNames
<1>10. CASE Kept(f, t, u) /\ man'.lostsize = man.lostsize
  <2>1. /\ u \in Seq(AnyArea) /\ Len(u) \in Nat
        /\ \A x : Has(u, x) <=> Inside(x, f) \/ Has(t, x)
    BY <1>10, TableAreas DEF Kept, Good, Loose
  <2>2. \A x : Inside(x, f) <=> x \in f.addr..(f.addr + f.size - 1)
    BY <1>1, InsideIs
  <2>3. Mem(u) = Mem(t) \cup (f.addr..(f.addr + f.size - 1))
    <3>1. (\A x : x \in Mem(t) <=> Has(t, x)) /\ (\A x : x \in Mem(u) <=> Has(u, x))
      BY <1>1, <2>1, MemHas
    <3> QED BY <2>1, <2>2, <3>1
  <2>4. Len(u) <= MEMMAN_FREES
    BY <1>1, <1>6, <1>8, <1>10, <2>1 DEF Kept
  <2>5. PoolInv'
    <3>1. Mem(u) \subseteq Addresses BY <1>6, <2>3 DEF Within
    <3> QED BY <1>4, <1>5, <1>7, <2>4, <3>1 DEF PoolInv
  <2>6. CASE f.size = 0
    <3>1. Mem(u) = Mem(t) BY <1>8, <2>3, <2>6
    <3>2. Held(used)' = Held(used) BY <1>2, <2>6 DEF Held
    <3> QED BY <1>2, <1>5, <1>10, <2>5, <3>1, <3>2 DEF Pool!vars, Mem, Held
  <2>7. CASE f.size # 0
    <3>1. Held(used)' = Held(used) \ {f} /\ f \in Held(used)
      BY <1>2, <1>8, <2>7 DEF Held
    <3>2. (Mem(man.free))' = Mem(man.free) \cup Pool!Block(f.addr, f.size)
      BY <1>5, <2>3 DEF Pool!Block
    <3>3. Pool!GiveBack(f)
      BY <1>10, <3>2 DEF Pool!GiveBack, Mem
    <3>4. ~emptied => Pool!Touches(f) \/ Pool!Cardinality(Pool!Starts) < MEMMAN_FREES
      BY <1>9, <1>10 DEF Kept
    <3>5. UNCHANGED ~emptied BY <1>2
    <3>6. Pool!FreeBlock(f)
      BY <3>1, <3>3, <3>4, <3>5 DEF Pool!FreeBlock, Held
    <3> QED BY <2>5, <3>1, <3>6
  <2> QED BY <2>6, <2>7
<1>11. CASE Lost(f, t) /\ u = t /\ man'.lostsize = man.lostsize + f.size
  <2>1. PoolInv'
    BY <1>4, <1>5, <1>6, <1>7, <1>11 DEF PoolInv
  <2>2. (Mem(man.free))' = Mem(man.free) BY <1>5, <1>11
  <2>3. CASE f.size = 0
    <3>1. Held(used)' = Held(used) BY <1>2, <2>3 DEF Held
    <3>2. man'.lostsize = man.lostsize BY <1>8, <1>11, <2>3
    <3> QED BY <1>2, <2>1, <2>2, <3>1, <3>2 DEF Pool!vars, Mem, Held
  <2>4. CASE f.size # 0
    <3>1. Held(used)' = Held(used) \ {f} /\ f \in Held(used)
      BY <1>2, <1>8, <2>4 DEF Held
    <3>2. Pool!Lose(f)
      BY <1>11, <2>2 DEF Pool!Lose, Mem
    <3>3. ASSUME ~emptied
          PROVE  ~Pool!Touches(f) /\ Pool!Cardinality(Pool!Starts) = MEMMAN_FREES
      <4>1. ~(Len(t) < MEMMAN_FREES) /\ ~Neighbour(f, t)
        BY <1>9, <1>11, <3>3 DEF Lost
      <4>2. Len(t) = MEMMAN_FREES BY <1>1, <1>6, <1>8, <4>1
      <4> QED BY <1>9, <3>3, <4>1, <4>2
    <3>4. UNCHANGED ~emptied BY <1>2
    <3>5. Pool!FreeBlock(f)
      BY <3>1, <3>2, <3>3, <3>4 DEF Pool!FreeBlock, Held
    <3> QED BY <2>1, <3>1, <3>5
  <2> QED BY <2>3, <2>4
<1> QED BY <1>3, <1>10, <1>11

\* At boot all the memory is in use and none available.
LEMMA PoolInit ==
  ASSUME MemInit
  PROVE  PoolInv /\ Mem(man.free) = {} /\ man.lostsize = 0 /\ ~emptied
<1>1. /\ man = [maxfrees |-> 0, lostsize |-> 0, free |-> <<>>]
      /\ used = Areas /\ emptied = FALSE
  BY DEF MemInit, memman_init
<1>2. man.free = <<>> /\ man.lostsize = 0 BY <1>1
<1>3. DOMAIN <<>> = {} /\ Len(<<>>) = 0
  BY EmptySeq, LenProperties
<1>4. Mem(man.free) = {} BY <1>2, <1>3 DEF Mem
<1>5. ASSUME NEW f \in Areas PROVE Within(f)
  <2>1. /\ End(f) = f.addr + f.size
        /\ f.addr \in Nat /\ f.size \in Nat /\ End(f) \in Nat
    BY MemmanAssumption DEF End
  <2>2. f.addr..(f.addr + f.size - 1) = f.addr..(End(f) - 1) BY <2>1
  <2> QED BY <2>2 DEF Within, Addresses
<1>6. Len(man.free) <= MEMMAN_FREES BY <1>2, <1>3, MemmanAssumption
<1> QED BY <1>1, <1>2, <1>4, <1>5, <1>6, InitInv DEF PoolInv

\* Every step of memory.c is a step of the pool.
LEMMA PoolNext ==
  ASSUME PoolInv, [MemNext]_memVars
  PROVE  [Pool!Next]_(Pool!vars) /\ PoolInv'
<1> DEFINE Asked == Requests \cup {RoundUp(size) : size \in Requests4k}
<1>1. ASSUME NEW n \in Asked, memman_alloc(n)
      PROVE  [Pool!Next]_(Pool!vars) /\ PoolInv'
  <2>1. n \in Nat BY MemmanAssumption, RoundUpNat
  <2>2. /\ \/ n # 0 /\ (Pool!Alloc(n) \/ Pool!AllocUntidy(n))
           \/ n = 0 /\ emptied' = TRUE /\ UNCHANGED <<Mem(man.free), Held(used), man.lostsize>>
           \/ UNCHANGED Pool!vars
        /\ PoolInv'
    BY <1>1, <2>1, PoolAlloc
  <2>3. CASE n # 0 /\ (Pool!Alloc(n) \/ Pool!AllocUntidy(n))
    BY <2>2, <2>3 DEF Pool!Next
  <2>4. CASE n = 0 /\ emptied' = TRUE /\ UNCHANGED <<Mem(man.free), Held(used), man.lostsize>>
    <3>1. Pool!AllocNothing BY <2>4 DEF Pool!AllocNothing, Mem, Held
    <3> QED BY <2>2, <3>1 DEF Pool!Next
  <2> QED BY <2>2, <2>3, <2>4
<1>2. ASSUME NEW f \in used, Free(f) PROVE [Pool!Next]_(Pool!vars) /\ PoolInv'
  <2>1. /\ (f \in Held(used) /\ Pool!FreeBlock(f)) \/ UNCHANGED Pool!vars
        /\ PoolInv'
    BY <1>2, PoolFree
  <2> QED BY <2>1 DEF Pool!Next, Held
<1>3. CASE UNCHANGED memVars
  BY <1>3 DEF memVars, Pool!vars, PoolInv, Inv, NoOverlap, Mem
<1> QED BY <1>1, <1>2, <1>3 DEF MemNext

(* memory.c implements the pool of addresses.  What memman_alloc hands out  *)
(* was available, all of it and nothing else, and memman_free makes exactly *)
(* what it is given available again, or counts it as lost.  Until somebody  *)
(* has got no bytes, it is the lowest stretch that fits, and an area is     *)
(* lost only when it touches no other and the table is full.                *)
THEOREM IsAPool == MemSpec => ImplementsPool
<1>1. MemInit => PoolInv /\ Mem(man.free) = {} /\ man.lostsize = 0 /\ ~emptied
  BY PoolInit
<1>2. MemInit => Pool!Init
  BY <1>1 DEF Pool!Init, Mem
<1>3. PoolInv /\ [MemNext]_memVars => [Pool!Next]_(Pool!vars) /\ PoolInv'
  BY PoolNext
<1> QED BY <1>1, <1>2, <1>3, PTL DEF MemSpec, ImplementsPool, Pool!Spec
=============================================================================
