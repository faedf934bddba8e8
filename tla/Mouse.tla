-------------------------------- MODULE Mouse -------------------------------
(***************************************************************************)
(* The mouse: mouse.c and the mouse part of HariMain.  The bytes of the    *)
(* mouse come through task A's FIFO and are put together to reports; a     *)
(* report moves the pointer, and with the button held the window that was  *)
(* grabbed.  Drawing is put off until the FIFO is empty.                   *)
(*                                                                         *)
(* The mouse itself is external: it acknowledges MOUSECMD_ENABLE and then  *)
(* sends three bytes a report.  There is one window, on the background.    *)
(***************************************************************************)
EXTENDS TaskAFifo, FiniteSetsExt

CONSTANTS Reports,         \* [dx, dy, btn]: movement up is positive.  Bound: what
                           \* nine bits hold, so that there is no overflow bit
          scrnx, scrny,    \* the screen
          bxsize, bysize,  \* the window
          Corner           \* where the window is at first

ASSUME MouseAssumption ==
  /\ scrnx \in Nat \ {0} /\ scrny \in Nat \ {0}
  /\ Corner \in [x : Int, y : Int]
  /\ Reports \subseteq [dx : -256..255, dy : -256..255, btn : 0..7]

VARIABLES mdec,            \* struct MOUSE_DEC
          pointer,         \* mx, my and new_mx, new_my
          drag,            \* mmx, mmy, mmx2 and new_wx, new_wy
          sheets,          \* the places of the cursor and of the window
          mouse,           \* the bytes it has yet to send, the reports it may yet
                           \* make, and where they should have moved the pointer
          grip             \* where in the window it was grabbed

mouseVars == <<mdec, pointer, drag, sheets, mouse, grip>>

NotMoved == 2147483647     \* new_wx: 0x7fffffff

InScreen(x, y) == [x |-> Max({0, Min({scrnx - 1, x})}), y |-> Max({0, Min({scrny - 1, y})})]

-----------------------------------------------------------------------------
(* The mouse *)

\* The report as three bytes, numbered
Bytes(r) ==
  <<[dat |-> 8 + r.btn + (IF r.dx < 0 THEN 16 ELSE 0) + (IF r.dy < 0 THEN 32 ELSE 0),
     nth |-> 1],
    [dat |-> r.dx % 256, nth |-> 2], [dat |-> r.dy % 256, nth |-> 3]>>

\* Bound, as for the keys: until something is lost.
Report(r) ==
  /\ ~overrun /\ mouse.bytes = <<>>
  /\ mouse.left > 0
  /\ mouse' = [bytes |-> Bytes(r), left |-> mouse.left - 1,
               aim |-> InScreen(mouse.aim.x + r.dx, mouse.aim.y - r.dy)]
  /\ UNCHANGED <<mdec, fifo, overrun, pointer, drag, sheets, grip>>

inthandler2c ==
  /\ mouse.bytes # <<>>
  /\ Put(Head(mouse.bytes))
  /\ mouse' = [mouse EXCEPT !.bytes = Tail(@)]
  /\ UNCHANGED <<mdec, pointer, drag, sheets, grip>>

-----------------------------------------------------------------------------
(* mouse_decode: m is the struct MOUSE_DEC a call works on.  buf holds the  *)
(* numbered bytes.                                                         *)

Bits(dat, mask) == (dat \div mask) % 2 = 1

\* (dat & 0xc8) == 0x08
IsFirst(dat) == Bits(dat, 8) /\ ~Bits(dat, 64) /\ ~Bits(dat, 128)

\* Mutant: the sign is taken from the movement's own byte.
EightBits(dat, sign) == IF dat >= 128 THEN dat - 256 ELSE dat

\* The movement is the byte with the sign bit of the first byte above it.
Signed(dat, sign) == IF sign THEN dat - 256 ELSE dat

Decoded(buf) == [x |-> Signed(buf[2].dat, Bits(buf[1].dat, 16)),
                 y |-> -Signed(buf[3].dat, Bits(buf[1].dat, 32)),
                 btn |-> buf[1].dat % 8]

\* A report is complete with its third byte.
Completes(m) == m.phase = 3

mouse_decode(m, byte) ==
  CASE m.phase = 0 -> [m EXCEPT !.phase = IF byte.dat = 250 THEN 1 ELSE 0]
    [] m.phase = 1 /\ IsFirst(byte.dat) -> [m EXCEPT !.phase = 2, !.buf[1] = byte]
    [] m.phase = 1 /\ ~IsFirst(byte.dat) -> m
    [] m.phase = 2 -> [m EXCEPT !.phase = 3, !.buf[2] = byte]
    [] m.phase = 3 -> [m EXCEPT !.phase = 1, !.buf[3] = byte]

-----------------------------------------------------------------------------
(* HariMain *)

MouseInit(n) ==
  /\ mdec = [phase |-> 0, buf |-> [i \in 1..3 |-> [dat |-> 0, nth |-> i]]]
  /\ LET middle == [x |-> (scrnx - 16) \div 2, y |-> (scrny - 28 - 16) \div 2]
     IN  /\ pointer = [mx |-> middle.x, my |-> middle.y, new_mx |-> None, new_my |-> 0]
         /\ sheets = [mouse |-> middle, window |-> Corner, shown |-> TRUE]
         /\ mouse = [bytes |-> <<[dat |-> 250, nth |-> 0]>>, left |-> n,
                     aim |-> middle]
  /\ drag = [mmx |-> None, mmy |-> None, mmx2 |-> 0, new_wx |-> NotMoved, new_wy |-> 0]
  /\ grip = [x |-> 0, y |-> 0]

\* mx, my and new_mx, new_my after a report
Moved(d) ==
  LET at == InScreen(pointer.mx + d.x, pointer.my + d.y)
  IN  [mx |-> at.x, my |-> at.y, new_mx |-> at.x, new_my |-> at.y]

\* The pointer in the window's own coordinates
Inside(at) == [x |-> at.mx - sheets.window.x, y |-> at.my - sheets.window.y]
OnWindow(w) == /\ sheets.shown
               /\ 0 <= w.x /\ w.x < bxsize /\ 0 <= w.y /\ w.y < bysize
OnTitle(w) == OnWindow(w) /\ 3 <= w.x /\ w.x < bxsize - 3 /\ 3 <= w.y /\ w.y < 21
OnClose(w) == OnWindow(w) /\ bxsize - 21 <= w.x /\ w.x < bxsize - 5 /\ 5 <= w.y /\ w.y < 19

\* "to window movement mode"
Grabbed(at) ==
  [drag EXCEPT !.mmx = at.mx, !.mmy = at.my, !.mmx2 = sheets.window.x,
               !.new_wy = sheets.window.y]

\* The button is pressed and no window is being moved.
Press(at) ==
  /\ drag.mmx < 0
  /\ LET w == Inside(at)
     IN  /\ drag' = IF OnTitle(w) THEN Grabbed(at) ELSE drag
         /\ grip' = IF OnTitle(w) THEN w ELSE grip
         /\ sheets' = [sheets EXCEPT !.shown = @ /\ ~OnClose(w)]

\* (mmx2 + x + 2) & ~3
Rounded(x) == ((drag.mmx2 + x + 2) \div 4) * 4

\* The button is held, and the window follows the pointer.
Follow(at) ==
  /\ drag.mmx >= 0
  /\ drag' = [drag EXCEPT !.new_wx = Rounded(at.mx - drag.mmx),
                          !.new_wy = @ + at.my - drag.mmy, !.mmy = at.my]
  /\ UNCHANGED <<sheets, grip>>

\* Mutant: the window is not put where it belongs.
LetGoAtOnce ==
  /\ drag' = [drag EXCEPT !.mmx = None, !.new_wx = NotMoved]
  /\ UNCHANGED <<sheets, grip>>

\* The button is not held: the last movement of the window is made now.
ButtonUp ==
  /\ drag' = [drag EXCEPT !.mmx = None, !.new_wx = NotMoved]
  /\ sheets' = IF drag.new_wx = NotMoved THEN sheets
               ELSE [sheets EXCEPT !.window = [x |-> drag.new_wx, y |-> drag.new_wy]]
  /\ UNCHANGED grip

HasLeft(btn) == btn % 2 = 1

\* The report that is in mdec after its last byte
Handle(d) ==
  \E at \in {Moved(d)} :
    /\ pointer' = at
    /\ \/ HasLeft(d.btn) /\ (Press(at) \/ Follow(at))
       \/ ~HasLeft(d.btn) /\ ButtonUp

\* A byte from the FIFO
TakeByte ==
  /\ fifo # <<>> /\ Head(fifo).nth # Key
  /\ fifo' = Tail(fifo)
  /\ UNCHANGED <<overrun, mouse>>
  /\ \E m \in {mouse_decode(mdec, Head(fifo))} :
       /\ mdec' = m
       /\ \/ Completes(mdec) /\ Handle(Decoded(m.buf))
          \/ ~Completes(mdec) /\ UNCHANGED <<pointer, drag, sheets, grip>>

\* The FIFO is empty, and there is drawing that was put off.
DrawPointer ==
  /\ fifo = <<>> /\ pointer.new_mx >= 0
  /\ sheets' = [sheets EXCEPT !.mouse = [x |-> pointer.new_mx, y |-> pointer.new_my]]
  /\ pointer' = [pointer EXCEPT !.new_mx = None]
  /\ UNCHANGED <<mdec, fifo, overrun, drag, mouse, grip>>

DrawWindow ==
  /\ fifo = <<>> /\ pointer.new_mx < 0 /\ drag.new_wx # NotMoved
  /\ sheets' = [sheets EXCEPT !.window = [x |-> drag.new_wx, y |-> drag.new_wy]]
  /\ drag' = [drag EXCEPT !.new_wx = NotMoved]
  /\ UNCHANGED <<mdec, fifo, overrun, pointer, mouse, grip>>

MouseTask == TakeByte \/ DrawPointer \/ DrawWindow

-----------------------------------------------------------------------------
(* Properties *)

\* What is on its way to task A, and where in it the bytes of the mouse are
OnTheWay == fifo \o mouse.bytes
Undecoded == {i \in DOMAIN OnTheWay : OnTheWay[i].nth # Key}

\* No report is misread: the decoder is always where the mouse is, and when
\* everything is decoded the pointer is where the mouse has moved it, and the
\* cursor is there or about to be drawn there.
PointerFollows ==
  ~overrun => /\ \A i \in Undecoded :
                   (\A j \in Undecoded : i <= j) => OnTheWay[i].nth = mdec.phase
              /\ Undecoded = {} =>
                   /\ [x |-> pointer.mx, y |-> pointer.my] = mouse.aim
                   /\ mouse.aim = IF pointer.new_mx < 0 THEN sheets.mouse
                                  ELSE [x |-> pointer.new_mx, y |-> pointer.new_my]

LetGo == drag.mmx >= 0 /\ drag'.mmx < 0

\* When the button is let go, the window is where it was last shown or was
\* about to be shown: no movement is lost between the last drawing and the
\* release.
NothingLost ==
  [][LetGo => sheets'.window.y = pointer.my - grip.y
              /\ sheets'.window.x - (pointer.mx - grip.x) \in -2..2]_mouseVars
=============================================================================
