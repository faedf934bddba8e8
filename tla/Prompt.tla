------------------------------- MODULE Prompt -------------------------------
(***************************************************************************)
(* A console on the inside: the loop of console_task with its line editor, *)
(* cons_putchar and the blinking cursor, and the messages an application   *)
(* takes for it in hrb_api 15.                                             *)
(*                                                                         *)
(* Columns and lines are counted from 1 (cur_x is 8 * x, cur_y is          *)
(* 12 + 16 * y).  What a command prints is any text of Texts; langmode is 0. *)
(***************************************************************************)
EXTENDS Integers, Sequences, FiniteSets

CONSTANTS Cols, Lines,     \* 30 and 8
          FifoSize,        \* places in the console's FIFO
          Keys,            \* characters that are typed
          AppData,         \* what the timers of an application send: 256 and more
          Texts            \* what commands and applications print

Chars == Keys \cup AppData

\* A timer could send 8 + 256 or 10 + 256, like the keys of the line editor; the
\* applications send 128 + 256.  "cursor" is a white cell, which nobody prints, and "mark" the ">".
ASSUME PromptAssumption ==
  /\ Cols \in Nat /\ Cols >= 3 /\ Lines \in Nat \ {0} /\ FifoSize \in Nat
  /\ Chars \cap {"space", "cursor", "mark", "tab", "newline"} = {}
  /\ Chars \cap {"0", "1", "on", "off", "back", "enter", "close"} = {}
  /\ Texts \subseteq Seq(Chars \cup {"space", "mark", "tab", "newline"})

VARIABLES cons,            \* struct CONSOLE, and what its window shows
          cmdline,
          timer,           \* the datum that cons.timer will put, or "idle"
          fifo,
          overrun,         \* has the FIFO refused a datum?
          mode,            \* "prompt": in the loop of console_task; "app": the
                           \* application runs; "gone": after cmd_exit
          window           \* for task A the window is "key", "open" or "closed"

promptVars == <<cons, cmdline, timer, fifo, overrun, mode, window>>

BlankLine == [x \in 1..Cols |-> "space"]

-----------------------------------------------------------------------------
(* cons_putchar and cons_newline; s is the struct CONSOLE *)

Paint(s, cell) == IF s.sht THEN [s EXCEPT !.shown[s.y][s.x] = cell] ELSE s

Scrolled(s) == IF s.sht THEN [s EXCEPT !.shown = Append(Tail(@), BlankLine)] ELSE s

cons_newline(s) ==
  [(IF s.y < Lines THEN [s EXCEPT !.y = @ + 1] ELSE Scrolled(s)) EXCEPT !.x = 1]

\* cur_x += 8, and a new line when the text box is full
Advance(s) == IF s.x = Cols THEN cons_newline(s) ELSE [s EXCEPT !.x = @ + 1]

PutSpace(s) == Advance(Paint(s, "space"))

\* The spaces of a tab: up to the next multiple of four or to the next line
TabStop(s) == CHOOSE n \in 1..4 : /\ (s.x + n - 1) % 4 = 0 \/ s.x + n > Cols
                                  /\ \A k \in 1..(n - 1) : /\ (s.x + k - 1) % 4 # 0
                                                           /\ s.x + k <= Cols

Spaces(s, n) ==
  LET after[i \in 0..n] == IF i = 0 THEN s ELSE PutSpace(after[i - 1])
  IN  after[n]

cons_putchar(s, chr) ==
  IF chr = "tab" THEN Spaces(s, TabStop(s))
  ELSE IF chr = "newline" THEN cons_newline(s)
  ELSE Advance(Paint(s, chr))

cons_putstr0(s, text) ==
  LET after[i \in 0..Len(text)] == IF i = 0 THEN s ELSE cons_putchar(after[i - 1], text[i])
  IN  after[Len(text)]

\* "show the cursor again"
DrawCursor(s) ==
  IF s.c = "off" THEN s ELSE Paint(s, IF s.c = "white" THEN "cursor" ELSE "space")

NewPrompt(s) == DrawCursor(cons_putchar(s, "mark"))

-----------------------------------------------------------------------------
(* Messages *)

\* The FIFO with as many of these data as it has room for.  Bound: the model
\* follows a behaviour until a datum is lost (overrun).
Put(data) ==
  /\ ~overrun
  /\ fifo' = fifo \o SubSeq(data, 1, IF Len(fifo) + Len(data) <= FifoSize
                                     THEN Len(data) ELSE FifoSize - Len(fifo))
  /\ overrun' = (overrun \/ Len(fifo) + Len(data) > FifoSize)

Take(datum) == fifo # <<>> /\ Head(fifo) = datum /\ fifo' = Tail(fifo)

\* inthandler20: the cursor's timer runs out.
Tick ==
  /\ timer # "idle"
  /\ Put(<<timer>>)
  /\ timer' = "idle"
  /\ UNCHANGED <<cons, cmdline, mode, window>>

\* Task A passes a key on to the key window.
Type ==
  /\ window = "key"
  /\ \E k \in Keys \cup {"back", "enter"} : Put(<<k>>)
  /\ UNCHANGED <<cons, cmdline, timer, mode, window>>

keywin_on ==
  /\ window = "open"
  /\ window' = "key"
  /\ Put(<<"on">>)
  /\ UNCHANGED <<cons, cmdline, timer, mode>>

keywin_off ==
  /\ window = "key"
  /\ window' = "open"
  /\ Put(<<"off">>)
  /\ UNCHANGED <<cons, cmdline, timer, mode>>

\* A click on the close button: the window becomes the key window, and then
\* it is hidden and another one is.
ClickClose ==
  /\ window # "closed"
  /\ window' = "closed"
  /\ Put((IF window = "key" THEN <<>> ELSE <<"on">>) \o <<"off", "close">>)
  /\ UNCHANGED <<cons, cmdline, timer, mode>>

-----------------------------------------------------------------------------
(* The loop of console_task *)

\* With a window, or without one and with the command of ncst in the FIFO
PromptInit ==
  /\ cons \in {cons_putchar([sht |-> s, x |-> 1, y |-> 1, c |-> "off",
                             shown |-> [y \in 1..Lines |-> BlankLine]], "mark") : s \in BOOLEAN}
  /\ cmdline = [i \in 0..(Cols - 1) |-> "junk"]
  /\ timer = IF cons.sht THEN "1" ELSE "idle"
  /\ \/ cons.sht /\ window = "open" /\ fifo = <<>>
     \/ ~cons.sht /\ window = "closed" /\ fifo \in {<<k, "enter">> : k \in Keys}
  /\ overrun = FALSE
  /\ mode = "prompt"

\* "the next is 0", "the next is 1"
NextBlink(datum) == IF datum = "1" THEN "0" ELSE "1"

Blink(datum) ==
  /\ Take(datum)
  /\ timer' = IF cons.sht THEN NextBlink(datum) ELSE timer
  /\ cons' = IF ~cons.sht THEN cons
             ELSE IF cons.c = "off" THEN cons
             ELSE DrawCursor([cons EXCEPT !.c = IF datum = "1" THEN "white" ELSE "black"])
  /\ UNCHANGED <<cmdline, overrun, mode, window>>

CursorOn ==
  /\ Take("on")
  /\ cons' = DrawCursor([cons EXCEPT !.c = "white"])
  /\ UNCHANGED <<cmdline, timer, overrun, mode, window>>

CursorOff ==
  /\ Take("off")
  /\ cons' = [Paint(cons, "space") EXCEPT !.c = "off"]
  /\ UNCHANGED <<cmdline, timer, overrun, mode, window>>

cmd_exit ==
  /\ mode' = "gone"
  /\ timer' = IF cons.sht THEN "idle" ELSE timer

CloseClicked ==
  /\ Take("close")
  /\ cmd_exit
  /\ UNCHANGED <<cons, cmdline, overrun, window>>

\* Mutant: the prompt itself can be taken back.
BackToEdge(s) == IF s.x > 1 THEN [Paint(s, "space") EXCEPT !.x = @ - 1] ELSE s

\* The cursor is erased and goes back one character.
BackOne(s) == IF s.x > 2 THEN [Paint(s, "space") EXCEPT !.x = @ - 1] ELSE s

Backspace ==
  /\ Take("back")
  /\ cons' = DrawCursor(BackOne(cons))
  /\ UNCHANGED <<cmdline, timer, overrun, mode, window>>

Character(chr) ==
  /\ Take(chr)
  /\ IF cons.x < Cols
       THEN /\ cmdline' = [cmdline EXCEPT ![cons.x - 2] = chr]
            /\ cons' = DrawCursor(cons_putchar(cons, chr))
       ELSE /\ cons' = DrawCursor(cons)
            /\ UNCHANGED cmdline
  /\ UNCHANGED <<timer, overrun, mode, window>>

\* Mutant: the cursor is left where it is.
JustNewline(s) == cons_newline(s)

\* "erase the cursor with a space and then begin a new line"
EndLine(s) == cons_newline(Paint(s, "space"))

cmd_cls(s) == [s EXCEPT !.shown = [y \in 1..Lines |-> BlankLine], !.y = 1]

ShowPrompt(s) == s.sht /\ cons' = NewPrompt(s) /\ mode' = "prompt" /\ UNCHANGED timer

\* After cons_runcmd has returned with the console in the state s
BackInLoop(s) == ShowPrompt(s) \/ (~s.sht /\ cons' = s /\ cmd_exit)

\* cons_runcmd: an empty line; a command that prints something and ends the
\* line; cls; exit; an application.
RunCommand(s) ==
  \/ cmdline'[0] = "0" /\ BackInLoop(s)
  \/ /\ cmdline'[0] # "0"
     /\ \/ \E t \in Texts : BackInLoop(cons_newline(cons_putstr0(s, t)))
        \/ ShowPrompt(cmd_cls(s))
        \/ cons' = s /\ cmd_exit
        \/ cons' = s /\ mode' = "app" /\ UNCHANGED timer

Enter ==
  /\ Take("enter")
  /\ cmdline' = [cmdline EXCEPT ![cons.x - 2] = "0"]
  /\ RunCommand(EndLine(cons))
  /\ UNCHANGED <<overrun, window>>

Loop ==
  /\ ~overrun /\ mode = "prompt"
  /\ \/ \E d \in {"0", "1"} : Blink(d)
     \/ CursorOn \/ CursorOff \/ CloseClicked \/ Backspace \/ Enter
     \/ \E chr \in Chars : Character(chr)

-----------------------------------------------------------------------------
(* While an application runs *)

AppPrints ==
  /\ \E t \in Texts : cons' = cons_putstr0(cons, t)
  /\ UNCHANGED <<cmdline, timer, fifo, overrun, mode, window>>

AppTimer ==
  /\ \E d \in AppData : Put(<<d>>)
  /\ UNCHANGED <<cons, cmdline, timer, mode, window>>

\* hrb_api 15 takes a datum: the cursor's messages are heeded but nothing is
\* drawn; a key or the datum of a timer goes to the application.
GetBlink(datum) ==
  /\ Take(datum)
  /\ timer' = IF cons.sht THEN "1" ELSE timer
  /\ UNCHANGED <<cons, cmdline, overrun, mode, window>>

\* Mutant: the application throws the message away.
CursorIgnored(datum) ==
  /\ Take(datum)
  /\ UNCHANGED <<cons, cmdline, timer, overrun, mode, window>>

GetCursor(datum) ==
  /\ Take(datum)
  /\ cons' = [cons EXCEPT !.c = IF datum = "on" THEN "white" ELSE "off"]
  /\ UNCHANGED <<cmdline, timer, overrun, mode, window>>

\* Mutant: the cursor's timer goes on.
CloseAndBlink ==
  /\ Take("close")
  /\ cons' = [cons EXCEPT !.sht = FALSE]
  /\ UNCHANGED <<cmdline, timer, overrun, mode, window>>

\* "close only the console": the application goes on without it.
GetClose ==
  /\ Take("close")
  /\ timer' = "idle"
  /\ cons' = [cons EXCEPT !.sht = FALSE]
  /\ UNCHANGED <<cmdline, overrun, mode, window>>

GetKey ==
  /\ \E d \in Chars \cup {"back", "enter"} : Take(d)
  /\ UNCHANGED <<cons, cmdline, timer, overrun, mode, window>>

\* The application ends, by itself or by Shift+F1 (after task A has printed).
AppEnds ==
  /\ \E t \in {<<>>, <<"newline", "newline">>} :
       BackInLoop(cons_newline(cons_putstr0(cons, t)))
  /\ UNCHANGED <<cmdline, fifo, overrun, window>>

hrb_api ==
  /\ ~overrun /\ mode = "app"
  /\ \/ AppPrints \/ AppTimer \/ GetClose \/ GetKey \/ AppEnds
     \/ \E d \in {"0", "1"} : GetBlink(d)
     \/ \E d \in {"on", "off"} : GetCursor(d)

TaskA == mode # "gone" /\ (Type \/ keywin_on \/ keywin_off \/ ClickClose)

PromptNext == Tick \/ Loop \/ hrb_api \/ TaskA

PromptSpec == PromptInit /\ [][PromptNext]_promptVars

-----------------------------------------------------------------------------
(* Properties *)

\* What you see is what is run: between two messages the line shows the prompt,
\* the characters of cmdline up to the cursor, the cursor, and nothing more
\* (unless a message was lost).
LineIsCmdline ==
  ~overrun /\ mode = "prompt" /\ cons.sht =>
    LET line == cons.shown[cons.y]
    IN  /\ cons.x >= 2 /\ line[1] = "mark"
        /\ \A x \in 2..(cons.x - 1) : line[x] = cmdline[x - 2]
        /\ line[cons.x] = IF cons.c = "white" THEN "cursor" ELSE "space"
        /\ \A x \in (cons.x + 1)..Cols : line[x] = "space"

\* No cursor is left behind on the screen, and none is seen while an
\* application runs.
NoGhostCursor ==
  \A y \in 1..Lines, x \in 1..Cols :
    cons.shown[y][x] = "cursor" => mode # "app" /\ y = cons.y /\ x = cons.x

Blinks == Cardinality({i \in DOMAIN fifo : fifo[i] \in {"0", "1"}})

\* A console with a window always has its timer running or the timer's message
\* in the FIFO, never both and never two; without a window no timer runs.
OneBlink ==
  /\ ~overrun /\ cons.sht /\ mode # "gone" => Blinks + (IF timer = "idle" THEN 0 ELSE 1) = 1
  /\ ~cons.sht \/ mode = "gone" => timer = "idle"

FocusHandled == \A i \in DOMAIN fifo : fifo[i] \notin {"on", "off"}

\* When the messages of task A are handled, the cursor is on exactly in the key
\* window, also if an application has handled them.
CursorIsFocus ==
  ~overrun /\ FocusHandled /\ mode # "gone" => (cons.c # "off" <=> window = "key")

\* There is one cursor, in the window that has the keys, whoever has taken the
\* messages that switch it and make it blink.
OneCursor == NoGhostCursor /\ CursorIsFocus
=============================================================================
