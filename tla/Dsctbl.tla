------------------------------- MODULE Dsctbl -------------------------------
(***************************************************************************)
(* dsctbl.c: how the numbers of a segment and of a gate are laid into the  *)
(* fields of a descriptor, of 20 bits for a limit of 32, for example.      *)
(* Numbers are unsigned, of 32 bits, and ar of 16.                         *)
(***************************************************************************)
EXTENDS Integers

CONSTANTS Segments,        \* what set_segmdesc is called with: [limit, base, ar]
          Gates            \* and set_gatedesc: [offset, selector, ar]

\* 2^16, 2^24, the bit G of ar, and 2^12
Half == 65536
HighByte == 16777216
G_bit == 32768
Page == 4096

\* Numbers of 32 bits (which TLC cannot name)
Long(n) == n \in Nat /\ n \div Half < Half

\* No call has G in ar.
IsSegment(s) == Long(s.limit) /\ Long(s.base) /\ s.ar \in Nat /\ s.ar < G_bit

IsGate(g) == Long(g.offset) /\ {g.selector, g.ar} \subseteq Nat /\ g.selector < Half /\ g.ar < Half

ASSUME DsctblAssumption ==
  (\A s \in Segments : IsSegment(s)) /\ (\A g \in Gates : IsGate(g))

VARIABLES asked,           \* [segment, gate]: the last calls' parameters
          sd, gd           \* what it wrote

dsctblVars == <<asked, sd, gd>>

Nowhere == [segment |-> [limit |-> 0, base |-> 0, ar |-> 0],
            gate |-> [offset |-> 0, selector |-> 0, ar |-> 0]]

-----------------------------------------------------------------------------

\* The largest limit that the field has room for
FieldMax == 1048575

\* Mutant: a long limit is counted in pages, but G is not set.
GMissing(s) ==
  IF s.limit > FieldMax THEN [limit |-> s.limit \div Page, ar |-> s.ar]
  ELSE [limit |-> s.limit, ar |-> s.ar]

\* limit > 0xfffff: ar |= 0x8000; limit /= 0x1000
Granular(s) ==
  IF s.limit > FieldMax THEN [limit |-> s.limit \div Page, ar |-> s.ar + G_bit]
  ELSE [limit |-> s.limit, ar |-> s.ar]

High(n, ar) == ((n \div Half) % 16) + 16 * (ar \div Page)

Segment(s) ==
  [limit_low |-> Granular(s).limit % Half,
   base_low |-> s.base % Half,
   base_mid |-> (s.base \div Half) % 256,
   access_right |-> Granular(s).ar % 256,
   limit_high |-> High(Granular(s).limit, Granular(s).ar),
   base_high |-> s.base \div HighByte]

Gate(g) ==
  [offset_low |-> g.offset % Half, selector |-> g.selector,
   dw_count |-> g.ar \div 256, access_right |-> g.ar % 256,
   offset_high |-> g.offset \div Half]

\* init_gdtidt clears every descriptor with both.
DsctblInit == asked = Nowhere /\ sd = Segment(Nowhere.segment) /\ gd = Gate(Nowhere.gate)

set_segmdesc(s) == asked' = [asked EXCEPT !.segment = s] /\ sd' = Segment(s) /\ UNCHANGED gd
set_gatedesc(g) == asked' = [asked EXCEPT !.gate = g] /\ gd' = Gate(g) /\ UNCHANGED sd

DsctblNext == (\E s \in Segments : set_segmdesc(s)) \/ (\E g \in Gates : set_gatedesc(g))

DsctblSpec == DsctblInit /\ [][DsctblNext]_dsctblVars

-----------------------------------------------------------------------------
(* Properties: how the processor reads descriptors (external) *)

In3(low, mid, high) == low + Half * mid + HighByte * high
BaseOf(d) == In3(d.base_low, d.base_mid, d.base_high)
LimitOf(d) ==
  LET n == In3(d.limit_low, d.limit_high % 16, 0)
  IN  IF d.limit_high \div 128 = 1 THEN Page * n + Page - 1 ELSE n
RightsOf(d) == <<d.access_right, (d.limit_high \div 16) % 8>>

\* A segment begins where it was asked to; its limit is the one that was asked
\* for if that is below 1 MB, and otherwise not below it, and by less than a page
\* above.  A gate leads to its offset.  No part of a number runs over into the
\* field of another: the rights are the bits 0 to 7 and 12 to 14 of ar.
DescribesWhatWasAsked ==
  LET s == asked.segment
      g == asked.gate
  IN  /\ BaseOf(sd) = s.base
      /\ LimitOf(sd) - s.limit \in 0..(IF s.limit <= FieldMax THEN 0 ELSE Page - 1)
      /\ RightsOf(sd) = <<s.ar % 256, s.ar \div Page>>
      /\ In3(gd.offset_low, gd.offset_high, 0) = g.offset
      /\ gd.selector = g.selector
      /\ gd.access_right + 256 * gd.dw_count = g.ar
=============================================================================
