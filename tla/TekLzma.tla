------------------------------- MODULE TekLzma ------------------------------
(***************************************************************************)
(* tek.c: the main loop of tek5, tek_decmain5.  The range decoder gives it *)
(* the symbols of one command after the other: a byte, a copy from a new   *)
(* distance, or one from a distance that was used before.  Probabilities   *)
(* are kept apart by context, and the decoder has to find the contexts     *)
(* that the compressor (external) has used.  It knows the text, the        *)
(* commands, and in which order the last distances were used.              *)
(***************************************************************************)
EXTENDS Integers, Sequences, SequencesExt, Bitwise

CONSTANTS Bits,            \* 8, of a byte
          Alphabet,        \* bytes of texts
          GroupMask,       \* lit0cntmsk >> 4: a byte's bits have a model each (0),
                           \* for two (1), for four (3), or for all (7)
          Align,           \* 6, or 4 in stk5: bits of a distance with a context
          osiz,            \* the size of the text
          Lengths,         \* of copies
          MaxNumber        \* bound: lengths and distances that are coded

VARIABLES text, commands, recent,
          out, rep, s, pmch,
          lit,             \* the byte that is read bit by bit: [byte, j, k, pm, bm];
                           \* k bits are left
          number           \* a length or a distance

lzmaVars == <<text, commands, recent, out, rep, s, pmch, lit, number>>

-----------------------------------------------------------------------------
(* Lengths and distances, less their minima.  BitLength and what is left of  *)
(* a number below its highest bit:                                           *)

BitLength(n) == CHOOSE b \in 0..15 : n < 2^b /\ (b > 0 => 2^(b - 1) <= n)
Below(n) == n - 2^(BitLength(n) - 1)

\* As the compressor writes them (external; lengths as in t5lzma_p.txt)
PutLen(n) ==
  LET bits == BitLength(n - 263)
  IN  CASE n < 8 -> <<"low", 8 + n>>
        [] n \in 8..15 -> <<"mid", n>>
        [] n \in 16..263 -> <<"high", 256 + n - 16>>
        [] n > 263 -> <<"high", 504 + BitLength(bits) - 1, Below(bits), Below(n - 263)>>

\* tek_revbit
revbit(data, len) ==
  FoldLeft(LAMBDA r, i : 2 * r + ((data \div 2^(i - 1)) % 2), 0, [i \in 1..len |-> i])

PutDis(n) ==
  LET high == n \div 2^(BitLength(n) - 2)
      k == BitLength(n) - 2
      low == n % 2^k
  IN  IF n < 4 THEN [slot |-> n]
      ELSE IF k < 6 THEN [slot |-> 2 * k + high, tree |-> revbit(low, k)]
      ELSE [slot |-> 2 * k + high, direct |-> low \div 2^Align, align |-> revbit(low % 2^Align, Align)]

\* Mutant: the second number is read without the one in front of it.
GetLenOneShort(c) ==
  IF c[1] = "low" THEN c[2] & 7 ELSE IF c[1] = "mid" THEN c[2]
  ELSE 264 + (IF c[2] <= 504 THEN c[2] - 504 ELSE 2^(2^(c[2] - 504) + c[3] - 1) + c[4])

\* lenlow, lenmid and lenhigh; behind a high symbol a number of bits and as many bits
tek_getlen5(c) ==
  LET i == c[2] - 504
      more == 2^i + c[3] - 1
  IN  CASE c[1] = "low" -> c[2] & 7
        [] c[1] = "mid" -> c[2]
        [] c[1] = "high" -> 264 + (IF i > 0 THEN 2^more + c[4] - 1 ELSE i)

\* rep[0] before it is complemented
Distance(c) ==
  LET k == c.slot \div 2 - 1
      base == (2 + (c.slot % 2)) * 2^k
  IN  IF c.slot < 4 THEN c.slot
      ELSE IF c.slot < 14 THEN base + revbit(c.tree, k)
      ELSE base + c.direct * 2^Align + revbit(c.align, Align)

\* The places of spdis[slot & 1] that the bits behind slot are read with
Places(slot) ==
  LET k == slot \div 2 - 1
  IN  {2^k - 2 + i : i \in 0..(2^k - 2)}

-----------------------------------------------------------------------------
NoByte == [byte |-> 0, j |-> 1, k |-> 0, pm |-> 0, bm |-> 0]

LzmaInit ==
  /\ text = <<>> /\ commands = <<>> /\ recent = <<1, 2, 3, 4>>
  /\ out = <<>> /\ rep = <<-1, -2, -3, -4>> /\ s = 0 /\ pmch = 0 /\ lit = NoByte
  /\ number = 0

\* while (pos < osiz); numbers are asked for without a text.
Ready == lit.k = 0 /\ Len(out) < osiz /\ number = 0

\* Mutant: a byte behind two copies in a row counts as one behind a new distance.
StateTableShort == <<0, 0, 0, 0, 1, 2, 3, 4, 5, 6, 4, 4>>

state_table == <<0, 0, 0, 0, 1, 2, 3, 4, 5, 6, 4, 5>>

\* A byte: read at once, or bit by bit next to the byte that a copy would go on
\* with, since it differs from that one.
Byte(c) ==
  /\ Ready
  /\ text' = Append(text, c)
  /\ commands' = Append(commands, "byte")
  /\ s' = state_table[s + 1]
  /\ IF pmch = 0 THEN out' = Append(out, c) /\ UNCHANGED lit
     ELSE /\ lit' = [byte |-> c, j |-> 1, k |-> Bits, pm |-> out[Len(out) + 1 + rep[1]], bm |-> 0]
          /\ UNCHANGED out
  /\ UNCHANGED <<recent, rep, pmch, number>>

\* Mutant: the bits that remain are read with the first model again.
NextModelLate(k, bm) == IF k = 0 THEN bm + 1 ELSE bm

NextModel(k, bm) == IF (k & GroupMask) = 0 THEN bm + 1 ELSE bm

\* A pass of the loop over the bits: until the first that differs, after which
\* tek_rdget1 reads the others.
LitBit ==
  LET k == lit.k - 1
      j == 2 * lit.j + ((lit.byte \div 2^k) % 2)
      matched == (lit.pm \div 2^(Bits - 1)) % 2 = j % 2
  IN  /\ lit.k > 0
      /\ IF matched /\ k > 0
           THEN /\ lit' = [lit EXCEPT !.j = j, !.k = k, !.pm = 2 * @, !.bm = NextModel(k, @)]
                /\ UNCHANGED <<out, pmch>>
           ELSE /\ out' = Append(out, (j * 2^k + (lit.byte % 2^k)) % 2^Bits)
                /\ lit' = NoByte
                /\ pmch' = 0
      /\ UNCHANGED <<text, commands, recent, rep, s, number>>

\* Copies go on for len bytes or to the end of the text.
Cut(t, len) == IF len > osiz - Len(t) THEN osiz - Len(t) ELSE len

Copied(ds, len) ==
  LET new[i \in 1..len] == IF i + ds <= 0 THEN out[Len(out) + i + ds] ELSE new[i + ds]
  IN  out \o [i \in 1..len |-> new[i]]

Lz(kind, dis, len, ds) ==
  /\ Ready /\ dis <= Len(text)
  /\ text' = text \o [i \in 1..Cut(text, len) |-> text[Len(text) - dis + 1 + ((i - 1) % dis)]]
  /\ commands' = Append(commands, kind)
  /\ out' = Copied(ds, Cut(out, len))
  /\ pmch' = 1
  /\ UNCHANGED <<lit, number>>

\* len/dis
Match(dis, len) ==
  /\ Lz("match", dis, len, -1 - Distance(PutDis(dis - 1)))
  /\ recent' = <<dis>> \o SubSeq(recent, 1, 3)
  /\ rep' = <<-1 - Distance(PutDis(dis - 1)), rep[1], rep[2], rep[3]>>
  /\ s' = IF s < 7 THEN 7 ELSE 10

\* rep0 with one byte
ShortRep ==
  /\ Lz("short", recent[1], 1, rep[1])
  /\ s' = IF s < 7 THEN 9 ELSE 11
  /\ UNCHANGED <<recent, rep>>

\* Mutant: the second and the third change places.
Swapped(n) == IF n = 3 THEN <<rep[3], rep[2], rep[1], rep[4]>> ELSE SubSeq(rep, 1, 4)

\* rep0 to rep3
Reused(n) ==
  CASE n = 1 -> rep
    [] n = 2 -> <<rep[2], rep[1], rep[3], rep[4]>>
    [] n = 3 -> <<rep[3], rep[1], rep[2], rep[4]>>
    [] n = 4 -> <<rep[4], rep[1], rep[2], rep[3]>>

RepeatDis(n, len) ==
  /\ Lz("rep", recent[n], len, Reused(n)[1])
  /\ recent' = <<recent[n]>> \o RemoveAt(recent, n)
  /\ rep' = Reused(n)
  /\ s' = IF s < 7 THEN 8 ELSE 11

\* One length or distance
Number ==
  /\ text = <<>> /\ number = 0
  /\ number' \in 1..MaxNumber
  /\ UNCHANGED <<text, commands, recent, out, rep, s, pmch, lit>>

LzmaNext ==
  \/ \E c \in Alphabet : Byte(c)
  \/ LitBit
  \/ \E len \in Lengths : \/ \E dis \in 1..osiz : Match(dis, len)
                          \/ \E n \in 1..4 : RepeatDis(n, len)
  \/ ShortRep
  \/ Number

-----------------------------------------------------------------------------
(* Properties *)

\* What is written is the text, whatever distances are used again and in which
\* order, copies that overlap themselves and a last one that is cut included.
TextRestored ==
  /\ IsPrefix(out, text)
  /\ lit.k = 0 => out = text

\* s tells what the last commands were, as far as the compressor looks back:
\* one of 12 cases by the number of bytes since the last copy, its kind, and
\* whether another copy stood right before it; and a byte is read next to
\* another one just when it follows a copy.
StateIsHistory ==
  LET bytes == CHOOSE n \in 0..Len(commands) :
                 /\ \A i \in 1..n : commands[Len(commands) + 1 - i] = "byte"
                 /\ n < Len(commands) => commands[Len(commands) - n] # "byte"
      last == Len(commands) - bytes
      again == last > 1 /\ commands[last - 1] # "byte"
      kind == IF commands[last] = "match" THEN 0
              ELSE IF commands[last] = "rep" \/ again THEN 1 ELSE 2
  IN  /\ lit.k = 0 => (pmch = 0 <=> bytes > 0 \/ last = 0)
      /\ s = IF last = 0 \/ bytes > 2 THEN 0
             ELSE CASE bytes = 2 -> 1 + kind
                    [] bytes = 1 -> 4 + kind
                    [] bytes = 0 -> IF again THEN 10 + kind ELSE 7 + kind

\* lit1[(i + j) << 1 | pmch >> 7] has a place of its own for the bits read so far
\* and the next bit of the other byte.  pmch is shifted and never masked, and the
\* bits that leave its byte fall on those of j, which are the same until the
\* first difference.  The model is that of a byte that is read at once.
LiteralContext ==
  lit.k > 0 =>
    LET other == out[Len(out) + 1 + rep[1]]
    IN  /\ (2 * lit.j) | (lit.pm \div 2^(Bits - 1)) = 2 * lit.j + ((other \div 2^(lit.k - 1)) % 2)
        /\ lit.bm = (Bits - lit.k) \div (GroupMask + 1)

\* Every length and every distance is read as it was written, and the bits of
\* different distances share no probability and stay inside their table.
NumbersRead ==
  LET slot == PutDis(number).slot
  IN  /\ tek_getlen5(PutLen(number)) = number
      /\ Distance(PutDis(number)) = number
      /\ slot \in 4..13 => /\ Places(slot) \subseteq 0..61
                           /\ \A other \in 4..13 : other % 2 = slot % 2 /\ other # slot
                                => Places(other) \cap Places(slot) = {}

\* The decoder looks for a symbol where the compressor has put it, and makes of
\* it what the compressor meant.
ContextsFound == StateIsHistory /\ LiteralContext /\ NumbersRead
=============================================================================
