------------------------------ MODULE TekRange ------------------------------
(***************************************************************************)
(* tek.c: the range decoder of tek5.  Each bit divides the range that is   *)
(* left in two, in the proportion of a probability that follows the bits;  *)
(* code says in which part the file is.  In the format z2 the models, that *)
(* is how fast and how exactly probabilities follow, change as well.       *)
(*                                                                         *)
(* What a bit means and which probability belongs to it is TekLzma's; here *)
(* any context may be next.                                                *)
(***************************************************************************)
EXTENDS Integers

CONSTANTS Radix,           \* 256
          Top,             \* 2^24; an UINT32 has room for less than Radix * Top
          One,             \* 2^16, the probability 1
          Grain,           \* rmsk: 2^11 in stk5, where low bits of the range are
                           \* not multiplied, otherwise 1
          Contexts,        \* the probabilities, repg3 being one of them
          Models,          \* [t, m, lt]: 2^t, 2^m and whether the model may change
          Life             \* lt0, the bits until then

Word == Radix * Top

\* The largest multiple of t up to p: its low bits are masked.
Whole(p, t) == (p \div t) * t

ASSUME RangeAssumption ==
  /\ Radix \in Nat \ {0, 1} /\ Top \in Nat \ {0} /\ One \in Nat \ {0, 1}
  /\ Grain \in Nat \ {0} /\ Whole(Top, Grain) = Top /\ Top >= One
  /\ Life \in Nat \ {0}
  /\ Models \subseteq [t : Nat \ {0}, m : Nat \ {0, 1}, lt : BOOLEAN]
  /\ \A b \in Models : b.t < One /\ Whole(One, b.t) = One

VARIABLES range, code,
          prob,            \* the probabilities of a 1, in parts of One
          bm,              \* the model in use
          lt               \* its life left; 0 stands for ever

rangeVars == <<range, code, prob, bm, lt>>

-----------------------------------------------------------------------------
(* tek_setbm5: p is kept in parts of t, and so that it can still move. *)

Prb0(b) == IF b.m * b.t <= One THEN b.m * b.t - b.t ELSE One - b.t
Prb1(b) == IF b.m * b.t < One THEN One - b.m * b.t + b.t ELSE b.t

\* Mutant: what is too small for the new model is cut down to its parts.
OnlyWhole(p, b) == IF p > Prb1(b) THEN Prb1(b) ELSE Whole(p, b.t)

\* p < bm->prb0, p > bm->prb1, p & bm->ntm
Fixed(p, b) ==
  IF p < Prb0(b) THEN Prb0(b) ELSE IF p > Prb1(b) THEN Prb1(b) ELSE Whole(p, b.t)

Up(p, b) == p + Whole((One - p) \div b.m, b.t)
Down(p, b) == p - Whole(p \div b.m, b.t)

\* (range & rmsk) * p >> 16
Share(r, p) == (Whole(r, Grain) * p) \div One

\* Mutant: the upper part keeps its place.
BitNotTaken(r, c, i) == IF c < i THEN <<i, c>> ELSE <<r - i, c>>

\* The part that code is in
Taken(r, c, i) == IF c < i THEN <<i, c>> ELSE <<r - i, c - i>>

-----------------------------------------------------------------------------
\* src[0] to src[3]: no compressor writes a code beyond the range.
RangeInit ==
  /\ range = Word - 1
  /\ code \in 0..(Word - 2)
  /\ prob \in [Contexts -> {One \div 2, One - 1}]
  /\ bm \in Models
  /\ lt = IF bm.lt THEN 1 ELSE 0

\* while (range < 1 << 24)
Normalize ==
  /\ range < Top
  /\ range' = range * Radix
  /\ \E byte \in 0..(Radix - 1) : code' = code * Radix + byte
  /\ UNCHANGED <<prob, bm, lt>>

\* "the end of its life": the bits that describe the new model are read with
\* models that live for ever.
Renew ==
  /\ lt = 1
  /\ bm' \in {b \in Models : b.lt}
  /\ lt' = Life + 1
  /\ UNCHANGED <<range, code, prob>>

\* tek_rdget1: a bit with probability c, of a model that lives for ever or not
GetBit(c) ==
  LET p == IF lt > 0 THEN Fixed(prob[c], bm) ELSE prob[c]
      i == Share(range, p)
      part == Taken(range, code, i)
  IN  /\ range >= Top /\ lt # 1
      /\ range' = part[1] /\ code' = part[2]
      /\ prob' = [prob EXCEPT ![c] = IF code < i THEN Up(p, bm) ELSE Down(p, bm)]
      /\ lt' = IF lt = 0 THEN 0 ELSE lt - 1
      /\ UNCHANGED bm

\* tek_rdget0: a bit of which nothing is known.  No compressor writes a code in
\* what is left over of an odd range.
GetEvenBit ==
  /\ range >= Top /\ code < 2 * (range \div 2)
  /\ range' = range \div 2
  /\ code' = IF code >= range \div 2 THEN code - range \div 2 ELSE code
  /\ UNCHANGED <<prob, bm, lt>>

RangeNext == Normalize \/ Renew \/ (\E c \in Contexts : GetBit(c)) \/ GetEvenBit
RangeSpec == RangeInit /\ [][RangeNext]_rangeVars

-----------------------------------------------------------------------------
(* Properties *)

\* The decoder never loses its place: code stays below a range that is never
\* empty and always fits into 32 bits.  Otherwise every bit that follows is wrong,
\* which nothing in the file would tell.
InPlaceOf == code \in 0..(range - 1) /\ range \in 1..(Word - 1)

\* Each bit remains possible in every context, however often a context has seen
\* the other one and however coarse the models are between which it changes:
\* a probability of 0 or 1 could never move again.
BothPossible ==
  /\ \A c \in Contexts : prob[c] \in 1..(One - 1)
  /\ range >= Top => \A c \in Contexts : Share(range, prob[c]) \in 1..(range - 1)

\* Each needs the other: a part of the range is neither empty nor all of it only
\* because of the probability, and because the range has grown again.
RangeOK == InPlaceOf /\ BothPossible
=============================================================================
