------------------------------- MODULE Memtest ------------------------------
(***************************************************************************)
(* memory.c, naskfunc.nas: how much memory there is is found by writing    *)
(* into one word of each page.  A 486 would write into its cache, whether  *)
(* there is memory or not; a 386 has none, and does not keep the flag AC.  *)
(*                                                                         *)
(* The machine is external: a word of a page without memory reads as       *)
(* Floating, and an enabled cache takes what is written.  It holds nothing *)
(* of these pages before, which nothing has used yet.                      *)
(***************************************************************************)
EXTENDS Integers

CONSTANTS start, end,      \* in pages: 0x00400 and 0xbffff
          Floating         \* what is read where nothing is

ASSUME MemtestAssumption == start \in Nat /\ end \in Nat /\ start <= end

VARIABLES is486,
          machine,         \* [memory, cache: words by page; enabled: the cache is]
          before,          \* the words of the memory, as they were
          flg486,          \* what memtest believes
          mts,             \* where memtest is
          page             \* i

memtestVars == <<is486, machine, before, flg486, mts, page>>

Pages == start..end
pat0 == "aa55aa55"
pat1 == "55aa55aa"

\* XOR 0xffffffff
Inverted(x) == CASE x = pat0 -> pat1 [] x = pat1 -> pat0 [] OTHER -> "other"

-----------------------------------------------------------------------------
(* The machine *)

ReadWord(m, p) ==
  CASE p \in DOMAIN m.cache -> m.cache[p]
    [] p \notin DOMAIN m.cache /\ p \in DOMAIN m.memory -> m.memory[p]
    [] OTHER -> Floating

WriteWord(m, p, x) ==
  IF m.enabled
    THEN [m EXCEPT !.cache = [k \in DOMAIN @ \cup {p} |-> IF k = p THEN x ELSE @[k]]]
    ELSE [m EXCEPT !.memory = [k \in DOMAIN @ |-> IF k = p THEN x ELSE @[k]]]

Complement(m, p) == WriteWord(m, p, Inverted(ReadWord(m, p)))

-----------------------------------------------------------------------------
(* memtest *)

\* The memory may have holes.  The cache of a 486 is as the BIOS leaves it.
MemtestInit ==
  /\ is486 \in BOOLEAN
  /\ \E present \in SUBSET Pages : before \in [present -> {pat0, pat1, "other"}]
  /\ \E enabled \in {FALSE, is486} :
       machine = [memory |-> before, cache |-> <<>>, enabled |-> enabled]
  /\ flg486 = FALSE /\ mts = "eflags" /\ page = start

\* Mutant: the cache stays as it is.
CacheLeft(m) == m

CacheDisabled(m) == [m EXCEPT !.enabled = FALSE]

Recognise ==
  /\ mts = "eflags" /\ mts' = "loop"
  /\ flg486' = is486
  /\ machine' = IF flg486' THEN CacheDisabled(machine) ELSE machine
  /\ UNCHANGED <<is486, before, page>>

\* mts_loop, for one page: the word is put back in either case.
Tested ==
  LET old == ReadWord(machine, page)
      m1 == Complement(WriteWord(machine, page, pat0), page)
      m2 == Complement(m1, page)
  IN  IF ReadWord(m1, page) # pat1 THEN [ok |-> FALSE, machine |-> WriteWord(m1, page, old)]
      ELSE [ok |-> ReadWord(m2, page) = pat0, machine |-> WriteWord(m2, page, old)]

TestPage ==
  /\ mts = "loop"
  /\ machine' = Tested.machine
  /\ page' = IF Tested.ok THEN page + 1 ELSE page
  /\ mts' = IF Tested.ok /\ page' <= end THEN "loop" ELSE "fin"
  /\ UNCHANGED <<is486, before, flg486>>

Finish ==
  /\ mts = "fin" /\ mts' = "done"
  /\ machine' = IF flg486 THEN [machine EXCEPT !.enabled = TRUE] ELSE machine
  /\ UNCHANGED <<is486, before, flg486, page>>

MemtestNext == Recognise \/ TestPage \/ Finish

MemtestSpec == MemtestInit /\ [][MemtestNext]_memtestVars

-----------------------------------------------------------------------------
(* Properties *)

\* memtest returns the first page without memory, on either machine and
\* whatever is read there, has changed no word of the memory it went through,
\* and leaves the cache of a 486 enabled.
MemoryMeasured ==
  mts = "done" =>
    /\ page \in start..(end + 1) /\ page \notin DOMAIN before
    /\ start..(page - 1) \subseteq DOMAIN before
    /\ machine.memory = before
    /\ machine.enabled = is486
=============================================================================
