-------------------------------- MODULE TekLz -------------------------------
(***************************************************************************)
(* tek.c: the formats stk1 (0x83) and stk2 (0x85).  A file is a number of  *)
(* rounds, each of bytes that stand for themselves and of copies from what *)
(* is already restored.                                                    *)
(*                                                                         *)
(* The compressor (external) knows the rounds; `original' is the text they *)
(* mean, and src what it makes of them and of which the decoder has not    *)
(* read yet.  In stk2 the bits of counts are collected in bytes that stand *)
(* where the first of their bits is wanted.                                *)
(***************************************************************************)
EXTENDS Integers, Sequences, SequencesExt

CONSTANTS Plans            \* what is compressed: sequences of rounds [bytes, copies],
                           \* a copy being [dis, len, how]

ASSUME TekLzAssumption ==
  \A p \in Plans : p # <<>> /\ \A i \in DOMAIN p :
    p[i].bytes # <<>> /\ (i < Len(p) => p[i].copies # <<>>)

VARIABLES original, format, src,
          outsiz,
          phase,           \* where the decoder is: "by", "bytes", "lz", "copy"
          j, lz,           \* its counters
          bits,            \* bylz and cbylz: the bits left of a byte of counts
          repdis,
          q                \* what is restored

lzVars == <<original, format, src, outsiz, phase, j, lz, bits, repdis, q>>

-----------------------------------------------------------------------------
(* Numbers of seven bits a byte, the last with its lowest bit set *)

Rest(s, n) == SubSeq(s, n + 1, Len(s))

Stop(s) == SelectInSeq(s, LAMBDA b : b % 2 = 1)

\* s = s << 7 | *p++ up to that byte; s is even until then.
Num(start, s) == FoldLeft(LAMBDA n, b : 128 * n + b, start, SubSeq(s, 1, Stop(s))) \div 2

AfterNum(s) == Rest(s, Stop(s))

tek_getnum_s7s(s) == Num(0, s)

\* b: as many as there are shorter numbers
tek_getnum_s7(s) ==
  Num(0, s) + FoldLeft(LAMBDA b, i : 128 * (b + 1), 0, SubSeq(s, 1, Stop(s) - 1))

-----------------------------------------------------------------------------
(* The compressor (external) *)

Bytes7(v, n) ==
  [i \in 1..n |-> 2 * ((v \div 128^(n - i)) % 128) + (IF i = n THEN 1 ELSE 0)]
Offset(n) == IF n = 1 THEN 0 ELSE IF n = 2 THEN 128 ELSE 16512
PutS7s(v) == Bytes7(v, CHOOSE n \in 1..3 : v < 128^n /\ (n > 1 => v >= 128^(n - 1)))
PutS7(v) == LET n == CHOOSE m \in 1..2 : v >= Offset(m) /\ v < Offset(m + 1)
            IN  Bytes7(v - Offset(n), n)

Nibble(n) == IF n \in 1..15 THEN n ELSE 0
Extended(n) == IF n \in 1..15 THEN <<>> ELSE PutS7s(n)

Copy1(c) ==
  LET x == c.dis - 1
      n == CHOOSE m \in 0..2 : x < 8 * 128^m /\ (m > 0 => x >= 8 * 128^(m - 1))
      low == 2 * (x \div 128^n) + (IF n = 0 THEN 1 ELSE 0)
  IN  <<16 * Nibble(c.len - 1) + low>> \o Bytes7(x % 128^n, n) \o Extended(c.len - 1)

Round1(r) ==
  LET by == Len(r.bytes)
      copies == IF r.copies = <<>> THEN 1 ELSE Len(r.copies)
  IN  <<16 * Nibble(copies) + Nibble(by)>> \o Extended(by) \o Extended(copies)
        \o r.bytes \o FlattenSeq([i \in DOMAIN r.copies |-> Copy1(r.copies[i])])

Stk1(p) == FlattenSeq([i \in DOMAIN p |-> Round1(p[i])])

\* In stk2 the four distances that were used last have numbers; mru has them in
\* order.  A bit b is written as 256 + b until the bytes of bits are formed.
Unary(n) ==
  IF n <= 16 THEN [i \in 1..n |-> IF i = n THEN 257 ELSE 256]
  ELSE [i \in 1..16 |-> 256] \o PutS7s(n - 17)

Copy2(a, c) ==
  LET rep == SelectInSeq(a.mru, LAMBDA d : d = c.dis)
      near == a.mru[1]
      code == IF c.how = "rep" /\ rep > 0 THEN rep - 1
              ELSE IF c.how = "near" /\ c.dis > near THEN 4
              ELSE IF c.how = "near" /\ c.dis < near THEN 5
              ELSE c.dis + 5
      long == IF code < 8 THEN <<>> ELSE PutS7(code \div 8 - 1)
      by == CASE code = 4 -> PutS7(c.dis - near - 1)
              [] code = 5 -> PutS7(near - c.dis - 1)
              [] OTHER -> <<>>
      low == 2 * (code % 8) + (IF code < 8 THEN 1 ELSE 0)
  IN  [items |-> a.items \o <<16 * (IF c.len <= 16 THEN c.len - 1 ELSE 0) + low>> \o long \o by
                   \o (IF c.len <= 16 THEN <<>> ELSE PutS7(c.len - 17)),
       mru |-> IF code < 4 THEN <<c.dis>> \o RemoveAt(a.mru, code + 1)
               ELSE <<c.dis>> \o SubSeq(a.mru, 1, 3)]

Round2(a, r) ==
  LET counted == [a EXCEPT !.items = @ \o Unary(Len(r.bytes)) \o r.bytes \o Unary(Len(r.copies))]
  IN  FoldLeft(Copy2, counted, r.copies)

\* A byte of bits, the first one lowest, in the place of each eighth bit
Formed(items) ==
  LET bit == SelectSeq(items, LAMBDA x : x >= 256)
      Nth(i) == Len(SelectSeq(SubSeq(items, 1, i), LAMBDA x : x >= 256))
      Place(n) == IF n > Len(bit) THEN 0 ELSE bit[n] - 256
      Byte(n) == FoldLeft(LAMBDA b, k : 2 * b + Place(n + 8 - k), 0, [k \in 1..8 |-> k])
      kept == SelectSeq([i \in DOMAIN items |-> i],
                        LAMBDA i : items[i] < 256 \/ Nth(i) % 8 = 1)
  IN  [k \in DOMAIN kept |-> IF items[kept[k]] < 256 THEN items[kept[k]] ELSE Byte(Nth(kept[k]))]

Stk2(p) == Formed(FoldLeft(Round2, [items |-> <<>>, mru |-> <<1, 2, 3, 4>>], p).items)

\* What the rounds mean: a copy of more than its distance repeats itself.
Meant(text, c) == text \o [i \in 1..c.len |-> text[Len(text) - c.dis + 1 + ((i - 1) % c.dis)]]
Text(p) == FoldLeft(LAMBDA t, r : FoldLeft(Meant, t \o r.bytes, r.copies), <<>>, p)

\* Behind the 16 bytes of tek_getsize: the size, hed (blocks of 256 << n, bit 6:
\* a number to be skipped), and no further buffers
Header(size, hed) == PutS7s(size) \o PutS7s(hed) \o (IF hed >= 64 THEN PutS7s(300) ELSE <<>>) \o <<1>>

-----------------------------------------------------------------------------
(* The decoder *)

LzInit ==
  /\ original = <<>> /\ format = 0 /\ src = <<>> /\ outsiz = 0 /\ phase = "idle"
  /\ j = 0 /\ lz = 0 /\ bits = [bylz |-> 0, cbylz |-> 0] /\ repdis = <<-1, -2, -3, -4>>
  /\ q = <<>>

\* Only the beginning of the last copy may belong to the text.
Compress(p, f, hed, cut) ==
  /\ phase = "idle"
  /\ cut <= Len(Last(p).copies)
  /\ original' = Text(p) /\ format' = f
  /\ src' = Header(Len(original') - cut, hed) \o (IF f = 1 THEN Stk1(p) ELSE Stk2(p))
  /\ phase' = "header"
  /\ UNCHANGED <<outsiz, j, lz, bits, repdis, q>>

\* tek_decode1 and tek_decode2
ReadHeader ==
  LET afterSize == AfterNum(src)
      hed == tek_getnum_s7s(afterSize)
      afterHed == AfterNum(afterSize)
      options == IF (hed \div 64) % 2 = 1 THEN AfterNum(afterHed) ELSE afterHed
  IN  /\ phase = "header"
      /\ outsiz' = tek_getnum_s7s(src)
      /\ src' = AfterNum(options)
      /\ IF \/ outsiz' > 256 * 2^((hed \div 2) % 16)
            \/ hed % 2 = 0 \/ (hed \div 32) % 2 = 1
            \/ tek_getnum_s7s(options) # 0
           THEN phase' = "error"
           ELSE phase' = "by"
      /\ UNCHANGED <<original, format, j, lz, bits, repdis, q>>

\* stk1: a byte has both counts, unless they are 0 or more than 15.
Counts ==
  LET by == src[1] % 16
      afterBy == IF by = 0 THEN AfterNum(Tail(src)) ELSE Tail(src)
      longLz == src[1] \div 16 = 0
  IN  /\ format = 1 /\ phase = "by"
      /\ j' = IF by = 0 THEN tek_getnum_s7s(Tail(src)) ELSE by
      /\ lz' = IF longLz THEN tek_getnum_s7s(afterBy) ELSE src[1] \div 16
      /\ src' = IF longLz THEN AfterNum(afterBy) ELSE afterBy
      /\ phase' = "bytes"
      /\ UNCHANGED <<original, format, outsiz, bits, repdis, q>>

\* stk2: one bit of a count.  A count that reaches 17 goes on with a number.
CountBit ==
  LET fetched == IF bits.cbylz = 0 THEN src[1] ELSE bits.bylz
      next == IF phase = "by" THEN "bytes" ELSE "copy"
  IN  /\ format = 2 /\ phase \in {"by", "lz"}
      /\ \/ /\ j + 1 >= 17
            /\ j' = j + 1 + tek_getnum_s7s(src)
            /\ src' = AfterNum(src)
            /\ phase' = next
            /\ UNCHANGED bits
         \/ /\ j + 1 < 17
            /\ j' = j + 1
            /\ src' = IF bits.cbylz = 0 THEN Tail(src) ELSE src
            /\ bits' = [bylz |-> fetched \div 2,
                        cbylz |-> (IF bits.cbylz = 0 THEN 8 ELSE bits.cbylz) - 1]
            /\ phase' = IF fetched % 2 = 1 THEN next ELSE phase
      /\ UNCHANGED <<original, format, outsiz, lz, repdis, q>>

Literals ==
  /\ phase = "bytes"
  /\ q' = q \o SubSeq(src, 1, j)
  /\ src' = Rest(src, j)
  /\ IF Len(q') >= outsiz THEN phase' = "done" /\ j' = j
     ELSE IF format = 1 THEN phase' = "copy" /\ j' = lz
     ELSE phase' = "lz" /\ j' = 0
  /\ UNCHANGED <<original, format, outsiz, lz, bits, repdis>>

\* *q = *(q + ds), forwards: what is copied may be copied again.
Restore(cp, ds) ==
  LET n == IF cp < outsiz - Len(q) THEN cp ELSE outsiz - Len(q)
      new[i \in 1..n] == IF i + ds <= 0 THEN q[Len(q) + i + ds] ELSE new[i + ds]
  IN  q \o [i \in 1..n |-> new[i]]

\* The end of a pass: an error, the next copy, the next round, or the end
CopyTo(cp, ds) ==
  IF Len(q) + ds < 0 THEN phase' = "error" /\ UNCHANGED <<j, q>>
  ELSE /\ q' = Restore(cp, ds)
       /\ IF j > 1 THEN phase' = phase /\ j' = j - 1
          ELSE /\ j' = 0
               /\ phase' = IF Len(q') < outsiz THEN "by" ELSE "done"

Copy1Step ==
  LET cp == src[1] \div 16
      low == src[1] % 16
      afterDs == IF low % 2 = 0 THEN AfterNum(Tail(src)) ELSE Tail(src)
      ds == -1 - (IF low % 2 = 0 THEN Num(low, Tail(src)) ELSE low \div 2)
  IN  /\ format = 1 /\ phase = "copy"
      /\ src' = IF cp = 0 THEN AfterNum(afterDs) ELSE afterDs
      /\ CopyTo((IF cp = 0 THEN Num(0, afterDs) ELSE cp) + 1, ds)
      /\ UNCHANGED <<original, format, outsiz, lz, bits, repdis>>

\* Mutant: the last but one is not put back when the last but two is used.
KeepsThird(i, ds) ==
  CASE i = 0 -> repdis
    [] i = 1 -> <<ds, repdis[1], repdis[3], repdis[4]>>
    [] OTHER -> <<ds, repdis[1], repdis[2], repdis[4]>>

Renewed(i, ds) ==
  CASE i = 0 -> repdis
    [] i = 1 -> <<ds, repdis[1], repdis[3], repdis[4]>>
    [] i = 2 -> <<ds, repdis[1], repdis[2], repdis[4]>>
    [] OTHER -> <<ds, repdis[1], repdis[2], repdis[3]>>

Copy2Step ==
  LET low == src[1] % 16
      long == low % 2 = 0
      afterI == IF long THEN AfterNum(Tail(src)) ELSE Tail(src)
      i == low \div 2 + (IF long THEN 8 * (tek_getnum_s7(Tail(src)) + 1) ELSE 0)
      by == tek_getnum_s7(afterI) + 1
      ds == IF i < 4 THEN repdis[i + 1]
            ELSE IF i = 4 THEN repdis[1] - by
            ELSE IF i = 5 THEN repdis[1] + by
            ELSE -1 - (i - 6)
      afterDs == IF i \in {4, 5} THEN AfterNum(afterI) ELSE afterI
      cp == src[1] \div 16
  IN  /\ format = 2 /\ phase = "copy"
      /\ src' = IF cp = 0 THEN AfterNum(afterDs) ELSE afterDs
      /\ repdis' = Renewed(i, ds)
      /\ CopyTo((IF cp = 0 THEN tek_getnum_s7(afterDs) + 16 ELSE cp) + 1, ds)
      /\ UNCHANGED <<original, format, outsiz, lz, bits>>

LzNext ==
  \/ \E p \in Plans, f \in {1, 2} : Compress(p, f, 1, 1) \/ Compress(p, f, 67, 0)
  \/ ReadHeader \/ Counts \/ CountBit \/ Literals \/ Copy1Step \/ Copy2Step

-----------------------------------------------------------------------------
(* Properties *)

\* What is restored is what was compressed, from its first byte on, and when it
\* is complete everything has been read: whatever counts, distances and lengths
\* are written as numbers, wherever a byte of bits falls between them, and
\* however often a copy overlaps itself.  A text of more than one block is
\* refused before anything is written.
Restored ==
  /\ phase = "error" => outsiz > 256 /\ q = <<>>
  /\ IsPrefix(q, original)
  /\ phase = "done" => Len(q) = outsiz /\ src = <<>>
=============================================================================
