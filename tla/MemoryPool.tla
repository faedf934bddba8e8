----------------------------- MODULE MemoryPool -----------------------------
(***************************************************************************)
(* What the memory manager of Haribote OS promises: it hands out blocks of *)
(* memory that nobody else holds, the lowest one that fits, and takes them *)
(* back.  Its table has room for MaxRuns separate stretches of available   *)
(* memory; a block that would start one more is lost.  Once somebody has   *)
(* asked for a block of no bytes, the table may be untidy: then another    *)
(* block may be handed out than the lowest, or none, and a block may be    *)
(* lost for want of a place; but still nobody gets what another one holds, *)
(* and no byte disappears uncounted.  Memman.tla shows that memory.c       *)
(* implements this.                                                        *)
(***************************************************************************)
EXTENDS Integers, FiniteSets, FiniteSetsExt

CONSTANTS Memory,    \* the addresses of the memory
          Sizes,     \* the sizes that are asked for
          MaxRuns    \* the stretches that can be remembered

VARIABLES avail,     \* the addresses that may be handed out
          held,      \* the blocks that are in use
          lost,      \* how much memory has been lost
          tidy       \* nobody has got a block of no bytes

vars == <<avail, held, lost, tidy>>

Block(a, n) == a..(a + n - 1)

\* Where the stretches of available memory start
Starts == {a \in avail : a - 1 \notin avail}

\* The stretch that starts at a has room for n.
Fits(a, n) == a \in Starts /\ Block(a, n) \subseteq avail

Touches(b) == b.addr - 1 \in avail \/ b.addr + b.size \in avail

Take(a, n) ==
  /\ avail' = avail \ Block(a, n)
  /\ held' = held \cup {[addr |-> a, size |-> n]}
  /\ UNCHANGED <<lost, tidy>>

Alloc(n) ==
  \/ /\ \E a \in Memory : Fits(a, n)
     /\ Take(Min({x \in Memory : Fits(x, n)}), n)
  \/ /\ \A a \in Memory : ~Fits(a, n)
     /\ UNCHANGED vars

\* Nothing is asked for.
AllocNothing ==
  /\ 0 \in Sizes
  /\ tidy' = FALSE
  /\ UNCHANGED <<avail, held, lost>>

AllocUntidy(n) ==
  /\ ~tidy
  /\ \E a \in Memory : Block(a, n) \subseteq avail /\ Take(a, n)

GiveBack(b) == avail' = avail \cup Block(b.addr, b.size) /\ UNCHANGED lost
Lose(b) == lost' = lost + b.size /\ UNCHANGED avail

FreeBlock(b) ==
  /\ b \in held
  /\ held' = held \ {b}
  /\ \/ GiveBack(b) /\ (tidy => Touches(b) \/ Cardinality(Starts) < MaxRuns)
     \/ Lose(b) /\ (tidy => ~Touches(b) /\ Cardinality(Starts) = MaxRuns)
  /\ UNCHANGED tidy

Next ==
  \/ \E n \in Sizes \ {0} : Alloc(n) \/ AllocUntidy(n)
  \/ AllocNothing
  \/ \E b \in held : FreeBlock(b)

Init == avail = {} /\ lost = 0 /\ tidy = TRUE

Spec == Init /\ [][Next]_vars
=============================================================================
