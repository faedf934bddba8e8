------------------------------- MODULE LineWin ------------------------------
(***************************************************************************)
(* hrb_api 13: hrb_api_linewin paints a line pixel by pixel, in fixed      *)
(* point, and the rectangle between its ends is brought to the screen.     *)
(***************************************************************************)
EXTENDS Integers

CONSTANTS Scale,           \* 1 << 10
          Lines            \* what is drawn: [x0, y0, x1, y1]

VARIABLES line,            \* the ends
          i, x, y,         \* of the loop
          painted          \* the pixels

lineVars == <<line, i, x, y, painted>>

NoLine == [x0 |-> 0, y0 |-> 0, x1 |-> -1, y1 |-> -1]

-----------------------------------------------------------------------------
Size(a) == IF a < 0 THEN -a ELSE a

\* Division in C: towards 0
Divided(a, n) == IF a < 0 THEN -(-a \div n) ELSE a \div n

\* if (dx >= dy)
Flat == Size(line.x1 - line.x0) >= Size(line.y1 - line.y0)

len == 1 + (IF Flat THEN Size(line.x1 - line.x0) ELSE Size(line.y1 - line.y0))

Along(from, to) == IF from > to THEN -Scale ELSE Scale

\* Mutant: the end does not count.
AcrossExclusive(from, to) == Divided((to - from) * Scale, len)

\* One pixel more than there are between the ends
Across(from, to) ==
  IF from <= to THEN Divided((to - from + 1) * Scale, len)
  ELSE Divided((to - from - 1) * Scale, len)

dx == IF Flat THEN Along(line.x0, line.x1) ELSE Across(line.x0, line.x1)
dy == IF Flat THEN Across(line.y0, line.y1) ELSE Along(line.y0, line.y1)

-----------------------------------------------------------------------------
LineInit == line = NoLine /\ i = 0 /\ x = 0 /\ y = 0 /\ painted = {}

hrb_api_linewin(l) ==
  /\ line = NoLine
  /\ line' = l
  /\ x' = l.x0 * Scale /\ y' = l.y0 * Scale
  /\ UNCHANGED <<i, painted>>

Pixel == <<x \div Scale, y \div Scale>>

LinePass ==
  /\ line # NoLine /\ i < len
  /\ painted' = painted \cup {Pixel}
  /\ x' = x + dx /\ y' = y + dy
  /\ i' = i + 1
  /\ UNCHANGED line

LineNext == (\E l \in Lines : hrb_api_linewin(l)) \/ LinePass

-----------------------------------------------------------------------------
(* Properties *)

\* How far a pixel is from the straight line, across it, in parts of len - 1
Off(p) ==
  LET along == IF Flat THEN Size(p[1] - line.x0) ELSE Size(p[2] - line.y0)
      across == IF Flat THEN p[2] - line.y0 ELSE p[1] - line.x0
      height == IF Flat THEN line.y1 - line.y0 ELSE line.x1 - line.x0
  IN  across * (len - 1) - height * along

\* Towards larger x or y the line leaves its rectangle nowhere, so that
\* sheet_refresh shows all of it; towards smaller ones, by one pixel at most.
Backwards == IF Flat THEN line.y1 < line.y0 ELSE line.x1 < line.x0

Within(a, from, to) ==
  IF from <= to THEN a \in from..to
  ELSE a \in (IF Backwards THEN to - 1 ELSE to)..from

\* No pixel of a line is two pixels off, although the steps across are rounded and
\* added up; it has no gap; and a line of at most 32 pixels that does not go
\* backwards ends where it should.
LineStraight ==
  line # NoLine =>
    /\ \A p \in painted :
         /\ len = 1 \/ Size(Off(p)) < 2 * (len - 1)
         /\ Within(p[1], line.x0, line.x1) /\ Within(p[2], line.y0, line.y1)
         /\ p # <<line.x0, line.y0>> =>
              \E before \in painted \ {p} :
                 Size(p[1] - before[1]) <= 1 /\ Size(p[2] - before[2]) <= 1
    /\ i = len /\ len <= 32 /\ ~Backwards => <<line.x1, line.y1>> \in painted
=============================================================================
