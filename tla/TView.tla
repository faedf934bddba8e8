-------------------------------- MODULE TView -------------------------------
(***************************************************************************)
(* tview: a text is shown in a window of w columns and h lines, from the   *)
(* line `top' (p) on and without its first xskip columns; a tab goes to    *)
(* the next multiple of `tab' (t).  In a Japanese text a character of two  *)
(* bytes has two columns; where the window's edge cuts one, it is blank.   *)
(*                                                                         *)
(* A text consists of "x" and " " (one byte), "1" and "2" (the bytes of a  *)
(* longer one), and the control characters.  Bound: it is well formed.     *)
(***************************************************************************)
EXTENDS Integers, Sequences, SequencesExt, FiniteSets

CONSTANTS Width, Height,   \* w and h
          Texts,           \* sequences of characters, each a sequence of bytes
          Tabs,            \* what tab can be: 2 for 2, 4, 8, ...
          Speeds,          \* the columns or lines of one key: 1, 2, 4, ... 32
          MaxSkip          \* bound: of xskip

VARIABLES file, lang,
          txtbuf,          \* what is kept of the file, between a newline and a 0
          top, xskip, tab,
          key,             \* the key that is handled; "" when the window is up to date
          rows             \* the lines in the window

tviewVars == <<file, lang, txtbuf, top, xskip, tab, key, rows>>

NL == "newline"
End == "0"

-----------------------------------------------------------------------------
(* lineview: line is [s, x, p] *)

\* What stands in the places from x on, as far as they are in the window
Put(line, bytes) ==
  LET x == line.x
  IN  [line EXCEPT !.s = [k \in 0..(Width - 1) |->
                           IF k \in x..(x + Len(bytes) - 1) THEN bytes[k - x + 1] ELSE @[k]],
                   !.x = x + Len(bytes)]

\* puttab: to the next multiple of t, but at least one place
puttab(line) ==
  LET column == line.x + xskip
  IN  Put(line, [k \in 1..(tab - (column % tab)) |-> " "])

\* Mutant: the first byte alone is put in the last place.
CutBehind(line, bytes) == Put(line, IF line.x = -1 THEN <<" ", " ">> ELSE bytes)

\* x == -1, x == w - 1
CutAtEdge(line, bytes) ==
  Put(line, IF line.x \in {-1, Width - 1} THEN <<" ", " ">> ELSE bytes)

\* One pass of the loop
Pass(line) ==
  LET b == txtbuf[line.p]
  IN  IF b = "tab" THEN [puttab(line) EXCEPT !.p = @ + 1]
      ELSE IF lang # 0 /\ b = "1"
        THEN [CutAtEdge(line, <<b, txtbuf[line.p + 1]>>) EXCEPT !.p = @ + 2]
      ELSE [Put(line, <<b>>) EXCEPT !.p = @ + 1]

RECURSIVE lineview(_)
lineview(line) ==
  IF txtbuf[line.p] = End THEN line
  ELSE IF txtbuf[line.p] = NL THEN [line EXCEPT !.p = @ + 1]
  ELSE lineview(Pass(line))

\* What api_putstrwin is given.  Places of s that are not written hold anything.
Printed(line) ==
  [k \in 1..(IF line.x > Width THEN Width ELSE line.x) |-> line.s[k - 1]]

\* textview: each call goes on where the last one stopped.
textview ==
  LET NewLine(from) == [s |-> [k \in 0..(Width - 1) |-> "?"], x |-> -xskip, p |-> from]
      call[k \in 0..Height] ==
        IF k = 0 THEN NewLine(top) ELSE lineview(NewLine(call[k - 1].p))
  IN  [k \in 1..Height |-> Printed(call[k])]

-----------------------------------------------------------------------------
(* HariMain *)

TViewInit ==
  /\ file = <<>> /\ lang = 0 /\ txtbuf = <<>>
  /\ top = 2 /\ xskip = 0 /\ tab = 4 /\ key = "" /\ rows = <<>>

\* The file is read, and 0x0d is taken out of it.
Load(text, l) ==
  /\ txtbuf = <<>>
  /\ file' = text /\ lang' = l
  /\ txtbuf' = <<NL>> \o SelectSeq(FlattenSeq(text), LAMBDA b : b # "0x0d") \o <<End>>
  /\ key' = "file"
  /\ UNCHANGED <<top, xskip, tab, rows>>

Draw ==
  /\ key # ""
  /\ rows' = textview /\ key' = ""
  /\ UNCHANGED <<file, lang, txtbuf, top, xskip, tab>>

\* api_getkey(1), or api_getkey(0) as long as the same key comes again
Pressed(k) == txtbuf # <<>> /\ key \in {"", k} /\ key' = k

\* '4' and '6'
Skip(k, n) ==
  /\ Pressed(k)
  /\ xskip' = IF k = "6" THEN xskip + n ELSE IF n > xskip THEN 0 ELSE xskip - n
  /\ xskip' <= MaxSkip
  /\ UNCHANGED <<file, lang, txtbuf, top, tab, rows>>

\* '8': back to behind the last newline but one, unless this is the first line
Back(from) ==
  IF from = 2 THEN from
  ELSE CHOOSE q \in 2..(from - 1) : /\ txtbuf[q - 1] = NL
                                    /\ \A k \in q..(from - 2) : txtbuf[k] # NL

\* '2': behind the next newline, if there is one
Forth(from) ==
  LET q == CHOOSE k \in from..Len(txtbuf) :
             txtbuf[k] \in {NL, End} /\ \A j \in from..(k - 1) : txtbuf[j] # NL
  IN  IF txtbuf[q] = End THEN from ELSE q + 1

Scroll(k, n) ==
  LET line[j \in 0..n] == IF j = 0 THEN top ELSE IF k = "8" THEN Back(line[j - 1]) ELSE Forth(line[j - 1])
  IN  /\ Pressed(k)
      /\ top' = line[n]
      /\ UNCHANGED <<file, lang, txtbuf, xskip, tab, rows>>

\* '<' and '>'
SetTab(k, n) ==
  /\ Pressed(k) /\ key = ""
  /\ tab' = n
  /\ UNCHANGED <<file, lang, txtbuf, top, xskip, rows>>

TViewNext ==
  \/ \E text \in Texts, l \in {0, 1} : Load(text, l)
  \/ Draw
  \/ \E n \in Speeds : \/ \E k \in {"4", "6"} : Skip(k, n)
                       \/ \E k \in {"8", "2"} : Scroll(k, n)
  \/ tab \div 2 \in Tabs /\ SetTab("<", tab \div 2)
  \/ tab * 2 \in Tabs /\ SetTab(">", tab * 2)

-----------------------------------------------------------------------------
(* Properties *)

\* The lines of the file
Lines0 ==
  FoldLeft(LAMBDA ls, c : IF c = <<NL>> THEN Append(ls, <<>>)
                          ELSE IF c = <<"0x0d">> THEN ls
                          ELSE [ls EXCEPT ![Len(ls)] = Append(@, c)], << <<>> >>, file)

\* The columns of a line: [byte, the how manyth of its character, of how many]
Laid(line) ==
  FoldLeft(LAMBDA row, c :
             row \o (IF c = <<"tab">> THEN [k \in 1..(tab - (Len(row) % tab)) |-> <<" ", 1, 1>>]
                     ELSE IF lang = 0 THEN [k \in DOMAIN c |-> <<c[k], 1, 1>>]
                     ELSE [k \in DOMAIN c |-> <<c[k], k, Len(c)>>]),
           <<>>, line)

\* What of it is in the window: no half characters
InWindow(line) ==
  LET laid == Laid(line)
      row == SubSeq(laid, xskip + 1, IF xskip + Width < Len(laid) THEN xskip + Width ELSE Len(laid))
  IN  [k \in DOMAIN row |-> IF (k = 1 /\ row[k][2] = 2) \/ (k = Width /\ row[k][2] < row[k][3])
                              THEN " " ELSE row[k][1]]

\* The window shows the lines of the file from the line p on, in its columns,
\* however tabs and characters of two bytes lie across its edges, whatever the
\* keys were, and wherever the file's last line ends.
FileInWindow ==
  key = "" /\ txtbuf # <<>> =>
    LET n == Cardinality({k \in 2..(top - 1) : txtbuf[k] = NL})
    IN  /\ txtbuf[top - 1] = NL
        /\ rows = [k \in 1..Height |->
                     IF n + k <= Len(Lines0) THEN InWindow(Lines0[n + k]) ELSE <<>>]
=============================================================================
