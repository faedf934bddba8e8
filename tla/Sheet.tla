-------------------------------- MODULE Sheet --------------------------------
(***************************************************************************)
(* sheet.c: the sheets (windows, background, mouse cursor) and how they    *)
(* overlap.  ctl->sheets[] is the stack of the visible sheets; ctl->map    *)
(* says for each pixel which sheet is seen there, so that a sheet that     *)
(* draws need not look at the others; the screen is only written where the *)
(* map has the sheet's number.                                             *)
(*                                                                         *)
(* An action is what one handler does: a click, a key, a call of hrb_api.  *)
(* Every pixel of every buffer has a colour of its own, so that a pixel    *)
(* taken from a wrong place of a buffer is seen.                           *)
(***************************************************************************)
EXTENDS Integers, Sequences, FiniteSets, FiniteSetsExt

CONSTANTS MAX_SHEETS,      \* struct SHEET slots
          xsize, ysize,    \* the screen
          Windows,         \* the sizes of windows: a set of [bxsize, bysize]
          Corners,         \* where windows are put
          MouseAt,         \* where the mouse goes
          Strokes          \* what is drawn: areas of a sheet

\* Windows are put at multiples of four pixels ("& ~3").
ASSUME SheetAssumption ==
  /\ MAX_SHEETS \in Nat /\ MAX_SHEETS >= 3
  /\ xsize \in Nat \ {0} /\ ysize \in Nat \ {0}
  /\ Windows \subseteq [bxsize : Nat \ {0}, bysize : Nat \ {0}] /\ Windows # {}
  /\ Corners \subseteq Int \X Int /\ \A at \in Corners : at[1] % 4 = 0
  /\ MouseAt \subseteq (0..(xsize - 1)) \X (0..(ysize - 1)) /\ MouseAt # {}

VARIABLE ctl               \* struct SHTCTL

Slots == 0..(MAX_SHEETS - 1)
Pixels == 0..(xsize * ysize - 1)
NoSheet == MAX_SHEETS      \* a place of sheets[] that was never written

sht_back == 0
sht_mouse == 2             \* slot 1 is the first console

Transparent == 99          \* the transparent colour of the mouse cursor
Opaque == -1               \* col_inv of a sheet that has none

Colour(sid, i, shade) == 1000 * (sid + 1) + 2 * i + shade

-----------------------------------------------------------------------------
(* Areas.  x1 and y1 are beyond the area. *)

Rect(x0, y0, x1, y1) == [x0 |-> x0, y0 |-> y0, x1 |-> x1, y1 |-> y1]
AreaOf(sht) == Rect(sht.vx0, sht.vy0, sht.vx0 + sht.bxsize, sht.vy0 + sht.bysize)
Moved(a, dx, dy) == Rect(a.x0 + dx, a.y0 + dy, a.x1 + dx, a.y1 + dy)
Clip(a, b) == Rect(Max({a.x0, b.x0}), Max({a.y0, b.y0}),
                   Min({a.x1, b.x1}), Min({a.y1, b.y1}))
Within(a, x, y) == a.x0 <= x /\ x < a.x1 /\ a.y0 <= y /\ y < a.y1
Screen == Rect(0, 0, xsize, ysize)

X(p) == p % xsize
Y(p) == p \div xsize

\* The pixel of the sheet's buffer that lies at p
BufAt(sht, p) == (Y(p) - sht.vy0) * sht.bxsize + X(p) - sht.vx0

\* Does the sheet have a pixel at p that is not transparent?
Shows(sht, p) == /\ Within(AreaOf(sht), X(p), Y(p))
                 /\ sht.col_inv = Opaque \/ sht.buf[BufAt(sht, p)] # sht.col_inv

-----------------------------------------------------------------------------
(* The functions of sheet.c: c is the struct SHTCTL a call works on. *)

\* Mutant: the highest sheet is forgotten.
RefreshMapBelowTop(c, area, h0) ==
  LET Over(p) == {h \in h0..(c.top - 1) : Shows(c.sheets0[c.sheets[h]], p)}
  IN  [c EXCEPT !.map = [p \in Pixels |->
         IF Within(area, X(p), Y(p)) /\ Over(p) # {}
           THEN c.sheets[Max(Over(p))] ELSE c.map[p]]]

\* The map is painted sheet by sheet from height h0 up, so the highest sheet
\* that shows something wins.
sheet_refreshmap(c, area, h0) ==
  LET Over(p) == {h \in h0..c.top : Shows(c.sheets0[c.sheets[h]], p)}
  IN  [c EXCEPT !.map = [p \in Pixels |->
         IF Within(area, X(p), Y(p)) /\ Over(p) # {}
           THEN c.sheets[Max(Over(p))] ELSE c.map[p]]]

Quotient(a) == IF a >= 0 THEN a \div 4 ELSE -((-a) \div 4)    \* a / 4

\* Mutant: the pixels behind the last whole word are not drawn.
ColumnsInWords(sht, bx0, bx1) ==
  IF sht.vx0 % 4 # 0 THEN bx0..(bx1 - 1) ELSE bx0..(4 * Quotient(bx1) - 1)

\* The columns bx that sheet_refreshsub visits.  An aligned sheet is drawn in
\* words of four pixels, between two remainders drawn one by one; the number
\* of words can come out negative, and then the last remainder starts early.
Columns(sht, bx0, bx1) ==
  LET words == Quotient(bx1) - Quotient(bx0 + 3)
      first == IF bx0 >= bx1 THEN bx0 ELSE Min({bx1, 4 * Quotient(bx0 + 3)})
  IN  IF sht.vx0 % 4 # 0 THEN bx0..(bx1 - 1)
      ELSE (bx0..(bx1 - 1)) \cup ((first + 4 * words)..(bx1 - 1))

\* Does sheet_refreshsub visit the pixel <<bx, by>> of the sheet?
Visits(sht, area, bx, by) ==
  LET b == Clip(Moved(Clip(area, Screen), -sht.vx0, -sht.vy0),
                Rect(0, 0, sht.bxsize, sht.bysize))
  IN  b.y0 <= by /\ by < b.y1 /\ bx \in Columns(sht, b.x0, b.x1)

\* The pixels of the sheet that it may copy to p: the one that lies there and,
\* as the screen is one array, the one beyond the left end of the next line.
CopiedTo(sht, area, p) ==
  LET bx == X(p) - sht.vx0
      by == Y(p) - sht.vy0
  IN  {b \in {<<bx, by>>, <<bx - xsize, by + 1>>} : Visits(sht, area, b[1], b[2])}

sheet_refreshsub(c, area, h0, h1) ==
  LET Owner(p) == c.sheets0[c.map[p]]
      Drawn(p) == /\ \E h \in h0..h1 : c.sheets[h] = c.map[p]
                  /\ CopiedTo(Owner(p), area, p) # {}
      Pixel(sht, b) == sht.buf[b[2] * sht.bxsize + b[1]]
  IN  [c EXCEPT !.vram = [p \in Pixels |->
         IF Drawn(p) THEN Pixel(Owner(p), CHOOSE b \in CopiedTo(Owner(p), area, p) : TRUE)
                     ELSE c.vram[p]]]

\* The places of H take the sheets that are d above them, and these sheets
\* learn their new heights.
Shift(c, H, d) ==
  LET Comes(h, sid) == c.sheets[h + d] = sid
  IN  [c EXCEPT
        !.sheets = [h \in Slots |-> IF h \in H THEN c.sheets[h + d] ELSE c.sheets[h]],
        !.sheets0 = [sid \in Slots |->
           IF \E h \in H : Comes(h, sid)
             THEN [c.sheets0[sid] EXCEPT !.height = CHOOSE h \in H : Comes(h, sid)]
             ELSE c.sheets0[sid]]]

PutAt(c, sid, height) ==
  [c EXCEPT !.sheets[height] = sid, !.sheets0[sid].height = height]

Lower(c, sid, height) ==
  PutAt(Shift(c, (height + 1)..c.sheets0[sid].height, -1), sid, height)

Raise(c, sid, height) ==
  PutAt(Shift(c, c.sheets0[sid].height..(height - 1), 1), sid, height)

Show(c, sid, height) ==
  [PutAt(Shift(c, (height + 1)..(c.top + 1), -1), sid, height) EXCEPT !.top = @ + 1]

\* Mutant: the sheets above stay where they are.
HideOnly(c, sid) == [c EXCEPT !.top = @ - 1, !.sheets0[sid].height = -1]

Hide(c, sid) ==
  [Shift(c, c.sheets0[sid].height..(c.top - 1), 1)
     EXCEPT !.top = @ - 1, !.sheets0[sid].height = -1]

\* "if it is too low or too high, correct it"
Corrected(c, height) == Max({-1, Min({height, c.top + 1})})

\* The map and then the screen are brought up to date.
Redrawn(c, area, h0, h1) == sheet_refreshsub(sheet_refreshmap(c, area, h0), area, h0, h1)

\* The sheet moves from height old to another one; area is where it lies.
Updown(c, sid, old, height, area) ==
  IF old > height /\ height >= 0
    THEN Redrawn(Lower(c, sid, height), area, height + 1, old)
  ELSE IF old > height THEN Redrawn(Hide(c, sid), area, 0, old - 1)
  ELSE IF old < height /\ old >= 0
    THEN Redrawn(Raise(c, sid, height), area, height, height)
  ELSE IF old < height THEN Redrawn(Show(c, sid, height), area, height, height)
  ELSE c

sheet_updown(c, sid, wanted) ==
  Updown(c, sid, c.sheets0[sid].height, Corrected(c, wanted), AreaOf(c.sheets0[sid]))

sheet_refresh(c, sid, area) ==
  LET sht == c.sheets0[sid]
  IN  IF sht.height < 0 THEN c
      ELSE sheet_refreshsub(c, Moved(area, sht.vx0, sht.vy0), sht.height, sht.height)

sheet_slide(c, sid, vx0, vy0) ==
  LET old == AreaOf(c.sheets0[sid])
      d == [c EXCEPT !.sheets0[sid].vx0 = vx0, !.sheets0[sid].vy0 = vy0]
      new == AreaOf(d.sheets0[sid])
      h == c.sheets0[sid].height
      e == sheet_refreshmap(sheet_refreshmap(d, old, 0), new, h)
  IN  IF h < 0 THEN d
      ELSE sheet_refreshsub(sheet_refreshsub(e, old, 0, h - 1), new, h, h)

sheet_free(c, sid) ==
  LET d == IF c.sheets0[sid].height >= 0 THEN sheet_updown(c, sid, -1) ELSE c
  IN  [d EXCEPT !.sheets0[sid].flags = 0]

\* sheet_alloc and sheet_setbuf of the slot sid
Allocated(c, sid, size, buf, col_inv) ==
  [c EXCEPT !.sheets0[sid] =
     [@ EXCEPT !.flags = 1, !.height = -1, !.buf = buf, !.col_inv = col_inv,
               !.bxsize = size.bxsize, !.bysize = size.bysize]]

shtctl_init ==
  [top |-> -1, sheets |-> [h \in Slots |-> NoSheet],
   map |-> [p \in Pixels |-> NoSheet], vram |-> [p \in Pixels |-> 0],
   sheets0 |-> [sid \in Slots |-> [flags |-> 0, height |-> -1, vx0 |-> 0, vy0 |-> 0,
                  bxsize |-> 0, bysize |-> 0, buf |-> <<>>, col_inv |-> Opaque]]]

-----------------------------------------------------------------------------
Painted(sid, size) == [i \in 0..(size.bxsize * size.bysize - 1) |-> Colour(sid, i, 0)]

\* The cursor is two pixels wide and high, and transparent in one corner.
Cursor == [Painted(sht_mouse, [bxsize |-> 2, bysize |-> 2]) EXCEPT ![3] = Transparent]

\* HariMain: the background, a console and the mouse
SheetInit ==
  \E size \in Windows, corner \in Corners, at \in MouseAt :
    LET a == Allocated(shtctl_init, sht_back, [bxsize |-> xsize, bysize |-> ysize],
                       Painted(sht_back, [bxsize |-> xsize, bysize |-> ysize]), Opaque)
        b == Allocated(a, 1, size, Painted(1, size), Opaque)
        c == Allocated(b, sht_mouse, [bxsize |-> 2, bysize |-> 2], Cursor, Transparent)
        d == sheet_slide(sheet_slide(c, 1, corner[1], corner[2]),
                         sht_mouse, at[1], at[2])
    IN  ctl = sheet_updown(sheet_updown(sheet_updown(d, sht_back, 0), 1, 1),
                           sht_mouse, 2)

Height(sid) == ctl.sheets0[sid].height
InUse(sid) == ctl.sheets0[sid].flags # 0
WindowSlots == {sid \in Slots \ {sht_back, sht_mouse} : InUse(sid)}

\* hrb_api 5, cmd_start and Shift+F2: a new window, just under the mouse
OpenWindow(size, corner) ==
  /\ \E sid \in Slots : ~InUse(sid)
  /\ LET sid == Min({s \in Slots : ~InUse(s)})
         c == Allocated(ctl, sid, size, Painted(sid, size), Opaque)
     IN  ctl' = sheet_updown(sheet_slide(c, sid, corner[1], corner[2]), sid, ctl.top)

\* A click on a sheet raises it.
Click(sid) ==
  /\ 0 < Height(sid) /\ Height(sid) < ctl.top
  /\ ctl' = sheet_updown(ctl, sid, ctl.top - 1)

F11 == ctl' = sheet_updown(ctl, ctl.sheets[1], ctl.top - 1)

\* The close button of a console hides it, until the console has ended.
ClickClose(sid) ==
  /\ sid \in WindowSlots /\ Height(sid) > 0
  /\ ctl' = sheet_updown(ctl, sid, -1)

\* hrb_api 14, the end of an application, close_console
CloseWindow(sid) ==
  /\ sid \in WindowSlots
  /\ ctl' = sheet_free(ctl, sid)

MoveMouse(at) == ctl' = sheet_slide(ctl, sht_mouse, at[1], at[2])

Drag(sid, corner) ==
  /\ sid \in WindowSlots
  /\ ctl' = sheet_slide(ctl, sid, corner[1], corner[2])

\* A window draws into its buffer and has the area refreshed.
Draw(sid, stroke, shade) ==
  LET sht == ctl.sheets0[sid]
      area == Clip(stroke, Rect(0, 0, sht.bxsize, sht.bysize))
      Inside(i) == Within(area, i % sht.bxsize, i \div sht.bxsize)
      drawn == [i \in DOMAIN sht.buf |->
                  IF Inside(i) THEN Colour(sid, i, shade) ELSE sht.buf[i]]
  IN  /\ sid \in WindowSlots
      /\ ctl' = sheet_refresh([ctl EXCEPT !.sheets0[sid].buf = drawn], sid, area)

SheetNext ==
  \/ F11
  \/ \E sid \in Slots : \/ Click(sid) \/ ClickClose(sid) \/ CloseWindow(sid)
                        \/ \E corner \in Corners : Drag(sid, corner)
                        \/ \E stroke \in Strokes, shade \in {0, 1} : Draw(sid, stroke, shade)
  \/ \E size \in Windows, corner \in Corners : OpenWindow(size, corner)
  \/ \E at \in MouseAt : MoveMouse(at)

SheetSpec == SheetInit /\ [][SheetNext]_ctl

-----------------------------------------------------------------------------
(* Properties *)

\* The heights and the stack agree: a sheet that is visible is in the stack at
\* its height, and only there.
StackOK ==
  /\ ctl.top \in -1..(MAX_SHEETS - 1)
  /\ \A h \in 0..ctl.top : ctl.sheets[h] \in Slots /\ Height(ctl.sheets[h]) = h
  /\ \A sid \in Slots : Height(sid) >= 0 =>
       Height(sid) <= ctl.top /\ ctl.sheets[Height(sid)] = sid /\ InUse(sid)

\* The map is right: at each pixel it has the highest sheet that shows there.
MapIsTopmost ==
  \A p \in Pixels :
    ctl.map[p] = ctl.sheets[Max({h \in 0..ctl.top : Shows(ctl.sheets0[ctl.sheets[h]], p)})]

\* The three pictures that sheet.c has of the windows (heights, stack, map) agree
\* after every call: each of them is brought up to date separately, and only
\* where something moved.
SheetsAgree == StackOK /\ MapIsTopmost

\* sheet.c implements a stack of windows.
Stack == INSTANCE WindowStack WITH
  Windows <- Slots, Clear <- -1,
  stack <- [i \in 1..(ctl.top + 1) |-> ctl.sheets[i - 1]],
  looks <- [sid \in Slots |->
              [p \in Pixels |-> IF Shows(ctl.sheets0[sid], p)
                                  THEN ctl.sheets0[sid].buf[BufAt(ctl.sheets0[sid], p)]
                                  ELSE -1]],
  screen <- ctl.vram

\* What is seen after each call of sheet.c is the stack, seen from above.
ImplementsStack == Stack!Spec
=============================================================================
