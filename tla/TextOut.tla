------------------------------- MODULE TextOut ------------------------------
(***************************************************************************)
(* The text that an application writes: cons_putchar, with characters of   *)
(* one byte and of two (Shift JIS, langmode 1; EUC, langmode 2).  The two  *)
(* bytes come one after the other; the first leaves a blank and is kept in *)
(* langbyte1, the second draws the left half where that blank is.          *)
(*                                                                         *)
(* A character of two bytes is its row and column in the table of JIS X    *)
(* 0208, and the font has the characters in this order.  Column 0 of the   *)
(* screen is the frame of the window.                                      *)
(***************************************************************************)
EXTENDS Integers, Sequences, SequencesExt

CONSTANTS Columns,         \* 30
          Rows,            \* bound: as many as the text needs
          Ascii,           \* characters of one byte, by their codes
          Kanji,           \* and of two: <<row, column>> of 94 by 94
          MaxChars         \* bound

VARIABLES langmode, langbyte1,
          cur_x, cur_y,    \* the column, 1 for 8 pixels, and the row
          buf, shown,      \* the window's buffer, and what the screen has of it
          rest,            \* the byte that is still to come of a character
          sent,            \* what has been written: bytes, and places in the font
          split            \* whether a line ended in the middle of a character of EUC

textVars == <<langmode, langbyte1, cur_x, cur_y, buf, shown, rest, sent, split>>

-----------------------------------------------------------------------------
(* The encodings (external) *)

Sjis(c) ==
  <<(IF c[1] <= 62 THEN 129 ELSE 193) + (c[1] - 1) \div 2,
    IF c[1] % 2 = 0 THEN c[2] + 158 ELSE IF c[2] < 64 THEN c[2] + 63 ELSE c[2] + 64>>
Euc(c) == <<c[1] + 160, c[2] + 160>>
Place(c) == 94 * (c[1] - 1) + c[2] - 1

-----------------------------------------------------------------------------
(* graphic.c, window.c *)

Empty == <<>>

IsFirst(b) ==
  CASE langmode = 0 -> FALSE
    [] langmode = 1 -> b \in 129..159 \/ b \in 224..252
    [] langmode = 2 -> b \in 129..254

\* Mutant: the gap behind 0x7e is forgotten.
GlyphNoGap(b1, b2) ==
  IF langmode = 2 THEN (b1 - 161) * 94 + b2 - 161
  ELSE LET k == IF b1 \in 129..159 THEN (b1 - 129) * 2 ELSE (b1 - 224) * 2 + 62
       IN  IF b2 < 159 THEN k * 94 + b2 - 64 ELSE (k + 1) * 94 + b2 - 159

\* k * 94 + t
Glyph(b1, b2) ==
  IF langmode = 2 THEN (b1 - 161) * 94 + b2 - 161
  ELSE LET k == IF b1 \in 129..159 THEN (b1 - 129) * 2 ELSE (b1 - 224) * 2 + 62
       IN  IF b2 \in 64..126 THEN k * 94 + b2 - 64
           ELSE IF b2 \in 128..158 THEN k * 94 + b2 - 128 + 63
           ELSE (k + 1) * 94 + b2 - 159

\* putfonts8_asc_sht: the place is cleared and the byte drawn.
Drawn(b) ==
  IF langbyte1 # 0
    THEN [buf EXCEPT ![cur_y][cur_x - 1] = <<"left", Glyph(langbyte1, b)>>,
                     ![cur_y][cur_x] = <<"right", Glyph(langbyte1, b)>>]
  ELSE [buf EXCEPT ![cur_y][cur_x] = IF IsFirst(b) THEN Empty ELSE <<"half", b>>]

\* sheet_refresh
Refreshed == IF langmode # 0 /\ langbyte1 # 0 THEN {cur_x - 1, cur_x} ELSE {cur_x}

-----------------------------------------------------------------------------
(* console.c *)

TextInit ==
  /\ langmode = 0 /\ langbyte1 = 0 /\ cur_x = 1 /\ cur_y = 1
  /\ buf = [y \in 1..Rows |-> [x \in 0..Columns |-> Empty]]
  /\ shown = buf
  /\ rest = <<>> /\ sent = <<>> /\ split = FALSE

\* Mutant: a line always begins at its first place.
FirstColumn(first) == 1

\* cons_newline leaves room for the left half.
LineStart(first) == IF langmode = 1 /\ first # 0 THEN 2 ELSE 1

cons_newline(first) == cur_x' = LineStart(first) /\ cur_y' = cur_y + 1

cons_putchar(b) ==
  LET first == IF langbyte1 = 0 /\ IsFirst(b) THEN b ELSE 0
  IN  /\ buf' = Drawn(b)
      /\ shown' = [shown EXCEPT ![cur_y] =
                    [x \in DOMAIN @ |-> IF x \in Refreshed THEN buf'[cur_y][x] ELSE @[x]]]
      /\ langbyte1' = first
      /\ IF cur_x = Columns THEN cons_newline(first)
         ELSE cur_x' = cur_x + 1 /\ UNCHANGED cur_y
      /\ split' = (split \/ (langmode = 2 /\ first # 0 /\ cur_x = Columns))

WriteAscii(b) ==
  /\ rest = <<>> /\ Len(sent) < MaxChars /\ cur_y < Rows
  /\ cons_putchar(b)
  /\ sent' = Append(sent, <<"half", b>>)
  /\ UNCHANGED <<langmode, rest>>

WriteKanji(c) ==
  LET bytes == IF langmode = 1 THEN Sjis(c) ELSE Euc(c)
  IN  /\ langmode # 0 /\ rest = <<>> /\ Len(sent) < MaxChars /\ cur_y < Rows
      /\ cons_putchar(bytes[1])
      /\ rest' = <<bytes[2], Place(c)>>
      /\ UNCHANGED <<langmode, sent>>

WriteRest ==
  /\ rest # <<>>
  /\ cons_putchar(rest[1])
  /\ sent' = Append(sent, <<"whole", rest[2]>>)
  /\ rest' = <<>>
  /\ UNCHANGED langmode

\* cmd_app
ByteAfterApp == 0

\* The application ends, whatever it was writing.
TextEnds ==
  /\ cur_y < Rows
  /\ langbyte1' = ByteAfterApp /\ rest' = <<>>
  /\ cons_newline(ByteAfterApp)
  /\ UNCHANGED <<langmode, buf, shown, sent, split>>

\* No application runs.
cmd_langmode(mode) ==
  /\ rest = <<>> /\ langbyte1 = 0 /\ cur_x = 1 /\ cur_y < Rows
  /\ langmode' = mode
  /\ cons_newline(0)
  /\ UNCHANGED <<langbyte1, buf, shown, rest, sent, split>>

TextNext ==
  \/ \E b \in Ascii : WriteAscii(b)
  \/ \E c \in Kanji : WriteKanji(c)
  \/ WriteRest \/ TextEnds
  \/ \E mode \in 0..2 : cmd_langmode(mode)

-----------------------------------------------------------------------------
(* Properties *)

\* The pieces of a row, with the two halves of a character made one
ReadRow(row) ==
  LET parts == SelectSeq([x \in 1..(Columns + 1) |-> row[x - 1]], LAMBDA p : p # Empty)
  IN  FlattenSeq([i \in DOMAIN parts |->
        IF parts[i][1] = "half" THEN <<parts[i]>>
        ELSE IF parts[i][1] = "left" /\ i < Len(parts) /\ parts[i + 1] = <<"right", parts[i][2]>>
          THEN <<(<<"whole", parts[i][2]>>)>>
        ELSE IF parts[i][1] = "right" /\ i > 1 /\ parts[i - 1] = <<"left", parts[i][2]>>
          THEN <<>>
        ELSE <<(<<"torn", parts[i][2]>>)>>])

\* The screen has what was written, character by character, in both encodings,
\* with line ends between the two bytes of one, and after an application that
\* ended between them.  (Half a character at its end is not seen.)
CharactersKept == FlattenSeq([y \in 1..Rows |-> ReadRow(shown[y])]) = sent

\* Nothing is drawn on the frame of the window, unless a character of EUC does
\* not fit into its line: cons_newline leaves room for those of Shift JIS only.
FrameKept == split \/ \A y \in 1..Rows : buf[y][0] = Empty

\* Line ends between the two bytes of a character tear neither it nor the window.
ReadsAsWritten == CharactersKept /\ FrameKept
=============================================================================
