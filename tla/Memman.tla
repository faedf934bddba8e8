------------------------------- MODULE Memman -------------------------------
(***************************************************************************)
(* memory.c: the memory manager.  A table of the free areas, in the order  *)
(* of their addresses, from which memman_alloc takes the first that fits   *)
(* and to which memman_free returns an area, joined with its neighbours.   *)
(* The table has MEMMAN_FREES places: an area that finds none is lost.     *)
(*                                                                         *)
(* The table is the sequence of its first `frees' entries: no function     *)
(* reads beyond them.  losts is left out, because nothing reads it.        *)
(* Memory that HariMain has not yet given to the manager is in `used',     *)
(* like the memory that is allocated, so that the two calls of memman_free *)
(* at boot are calls like any other.                                       *)
(*                                                                         *)
(* A request of no bytes, for an empty file, is granted like any other.    *)
(* What is given out may start where a free area does, and given back it   *)
(* is an entry of size 0, perhaps behind an area that it does not lie      *)
(* behind.  The table may then be out of order, and `emptied' remembers    *)
(* that this may be so.                                                    *)
(***************************************************************************)
EXTENDS Integers, Sequences, FiniteSets

CONSTANTS MEMMAN_FREES,   \* the places of the table
          Areas,          \* the memory given at boot: a set of [addr, size]
          Requests,       \* what is asked of memman_alloc
          Requests4k,     \* what is asked of memman_alloc_4k
          Page,           \* 4096
          MaxEmpty        \* bound: areas of no bytes, in use or in the table

ASSUME MemmanAssumption ==
  /\ MEMMAN_FREES \in Nat \ {0}
  /\ Areas \subseteq [addr : Nat \ {0}, size : Nat \ {0}]
  /\ \A f, g \in Areas :
       f # g => f.addr + f.size <= g.addr \/ g.addr + g.size <= f.addr
  /\ Requests \cup Requests4k \subseteq Nat
  /\ Page \in Nat \ {0}
  /\ MaxEmpty \in Nat

VARIABLES man,            \* struct MEMMAN
          used,           \* the areas that are in use
          emptied         \* history: no bytes have been asked for, and granted

memVars == <<man, used, emptied>>

Area(addr, size) == [addr |-> addr, size |-> size]
End(f) == f.addr + f.size

-----------------------------------------------------------------------------
(* The functions of memory.c.  free is the table; positions start at 1.      *)

\* "free[i] is gone, so move the rest forward"
Delete(free, i) ==
  [j \in 1..(Len(free) - 1) |-> IF j < i THEN free[j] ELSE free[j + 1]]

\* "move what is behind free[i] back, and make a gap"
Insert(free, i, f) ==
  [j \in 1..(Len(free) + 1) |-> IF j < i THEN free[j]
                                ELSE IF j = i THEN f ELSE free[j - 1]]

memman_init == [maxfrees |-> 0, lostsize |-> 0, free |-> <<>>]

\* Mutant: an area that would be used up is passed over.
FitNeverExactly(free, size) ==
  CHOOSE i \in 1..(Len(free) + 1) :
    /\ i = Len(free) + 1 \/ free[i].size > size
    /\ \A j \in 1..(i - 1) : free[j].size <= size

\* The place of the first area with room for size; none if it is beyond
Fit(free, size) ==
  CHOOSE i \in 1..(Len(free) + 1) :
    /\ i = Len(free) + 1 \/ free[i].size >= size
    /\ \A j \in 1..(i - 1) : free[j].size < size

\* Mutant: the area becomes smaller, but still starts where it did.
TakeFromEnd(free, i, size) ==
  IF free[i].size = size THEN Delete(free, i)
  ELSE [free EXCEPT ![i] = Area(@.addr, @.size - size)]

\* memman_alloc, when there is room at place i
TakeFrom(free, i, size) ==
  IF free[i].size = size THEN Delete(free, i)
  ELSE [free EXCEPT ![i] = Area(@.addr + size, @.size - size)]

\* The place of the first area behind addr
Behind(free, addr) ==
  CHOOSE i \in 1..(Len(free) + 1) :
    /\ i = Len(free) + 1 \/ free[i].addr > addr
    /\ \A j \in 1..(i - 1) : free[j].addr <= addr

JoinsFront(free, i, f) == i > 1 /\ End(free[i - 1]) = f.addr

\* Mutant: an area is joined with the one in front of it only.
JoinsNothingBehind(free, i, f) == FALSE

JoinsBack(free, i, f) == i <= Len(free) /\ End(f) = free[i].addr

HasRoom(free) == Len(free) < MEMMAN_FREES

Lose(m, f) == [m EXCEPT !.lostsize = @ + f.size]

memman_free(m, f) ==
  LET free == m.free
      i == Behind(free, f.addr)
      front == JoinsFront(free, i, f)
      back == JoinsBack(free, i, f)
      grown == [free EXCEPT ![i - 1] = Area(@.addr, @.size + f.size)]
  IN  IF front /\ back
        THEN [m EXCEPT !.free = Delete([grown EXCEPT ![i - 1] =
                                  Area(@.addr, @.size + free[i].size)], i)]
      ELSE IF front THEN [m EXCEPT !.free = grown]
      ELSE IF back THEN [m EXCEPT !.free[i] = Area(f.addr, @.size + f.size)]
      ELSE IF HasRoom(free)
        THEN [m EXCEPT !.free = Insert(free, i, f),
                       !.maxfrees = IF @ < Len(free) + 1 THEN Len(free) + 1 ELSE @]
      ELSE Lose(m, f)

\* memman_alloc_4k and memman_free_4k round the size up.
RoundUp(size) == ((size + Page - 1) \div Page) * Page

-----------------------------------------------------------------------------
MemInit ==
  /\ man = memman_init
  /\ used = Areas
  /\ emptied = FALSE

EmptyAreas ==
  Cardinality({f \in used : f.size = 0})
    + Cardinality({i \in DOMAIN man.free : man.free[i].size = 0})

\* A caller that gets 0 has nothing to give back.
memman_alloc(size) ==
  LET i == Fit(man.free, size)
  IN  \/ /\ i <= Len(man.free)
         /\ size = 0 => EmptyAreas < MaxEmpty
         /\ man' = [man EXCEPT !.free = TakeFrom(@, i, size)]
         /\ used' = used \cup {Area(man.free[i].addr, size)}
         /\ emptied' = (emptied \/ size = 0)
      \/ /\ i > Len(man.free)
         /\ UNCHANGED memVars

\* Of an area of no bytes there may be several owners, whom `used' does not
\* count: when one gives it back, another may have it still.
Free(f) ==
  /\ man' = memman_free(man, f)
  /\ \/ used' = used \ {f}
     \/ f.size = 0 /\ used' = used
  /\ UNCHANGED emptied

MemNext ==
  \/ \E size \in Requests : memman_alloc(size)
  \/ \E size \in Requests4k : memman_alloc(RoundUp(size))
  \/ \E f \in used : Free(f)

MemSpec == MemInit /\ [][MemNext]_memVars

-----------------------------------------------------------------------------
(* Properties *)

\* The table is in the order of the addresses ("free[i - 1].addr < addr <
\* free[i].addr", memory.c:94), and neighbours are joined: no memory is cut into
\* areas that would each be too small.
InOrder ==
  \A i, j \in 1..Len(man.free) :
    i < j => End(man.free[i]) < man.free[j].addr

\* f and g have no byte in common.
Apart(f, g) == f.size = 0 \/ g.size = 0 \/ End(f) <= g.addr \/ End(g) <= f.addr

\* No two areas overlap, be they free or in use: memory that is handed out
\* twice is overwritten by its other owner.
NoOverlap ==
  /\ \A f, g \in used : f # g => Apart(f, g)
  /\ \A f \in used : \A i \in DOMAIN man.free : Apart(f, man.free[i])
  /\ \A i, j \in DOMAIN man.free : i # j => Apart(man.free[i], man.free[j])

\* Allocations and frees in any order never hand out memory that someone has,
\* and leave a table that is sorted and joined, as long as nobody has asked for
\* no bytes: memman_free finds the right place only in a table in order.
TableOK == NoOverlap /\ (~emptied => InOrder)

\* memory.c implements the pool.
Addresses == UNION {f.addr..(End(f) - 1) : f \in Areas}
Pool == INSTANCE MemoryPool WITH
  Memory <- Addresses, MaxRuns <- MEMMAN_FREES,
  Sizes <- Requests \cup {RoundUp(size) : size \in Requests4k},
  avail <- UNION {man.free[i].addr..(End(man.free[i]) - 1) : i \in DOMAIN man.free},
  held <- {f \in used : f.size > 0}, lost <- man.lostsize, tidy <- ~emptied

\* memory.c implements the pool of addresses.
ImplementsPool == Pool!Spec
=============================================================================
