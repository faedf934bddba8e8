------------------------------- MODULE Console -------------------------------
(***************************************************************************)
(* The life of consoles, applications and their windows: bootpack.c and    *)
(* console.c.  Task A handles keys, clicks and the messages with which     *)
(* consoles ask to be closed; it has a higher level than the consoles, so  *)
(* each of its handlers is one step.  A console can be interrupted between *)
(* any two of its steps, by task A and by other consoles.                  *)
(*                                                                         *)
(* A sheet is in the stack when it is visible, the lowest first; the       *)
(* background is below the stack and the mouse cursor above it.  Where a   *)
(* handler would use a pointer that is NULL, the model has no step.        *)
(***************************************************************************)
EXTENDS Integers, Sequences, FiniteSets, FiniteSetsExt, SequencesExt

CONSTANTS Tasks,           \* the task slots for consoles
          Sheets           \* the sheet slots for windows

ASSUME ConsoleAssumption ==
  /\ Tasks \subseteq Nat \ {0} /\ IsFiniteSet(Tasks)
  /\ Sheets \subseteq Nat \ {0} /\ IsFiniteSet(Sheets) /\ Tasks # {} /\ Sheets # {}

NULL == 0
sht_back == -1             \* the background

SHEET_USE == "use"         \* sht->flags
APP == "app"               \* 0x10
CURSOR == "cursor"         \* 0x20

VARIABLES tasks0,          \* struct TASK and CONSOLE, and where the task is
          sheets0,         \* struct SHEET
          stack,           \* the visible windows
          key_win,         \* the window that gets the keys
          fifo,            \* the closing messages in task A's FIFO
          held             \* the memory that is allocated for consoles

vars == <<tasks0, sheets0, stack, key_win, fifo, held>>

\* A task is FREE; or it STARTs; waits at its PROMPT; OPENs another console;
\* runs an application (APP); cleans up behind one (ENDING); or is GONE to sleep
\* in cmd_exit.  ASTRAY it goes on at asm_end_app with a stack that it has
\* left already: what it does then is not followed.
State(t) == tasks0[t].state
Used(s) == s = sht_back \/ SHEET_USE \in sheets0[s].flags
Owner(s) == IF s = sht_back THEN NULL ELSE sheets0[s].task

FreeTasks == {t \in Tasks : State(t) = "FREE"}
FreeSheets == {s \in Sheets : ~Used(s)}

-----------------------------------------------------------------------------
(* Helpers *)

NoTask == [state |-> "FREE", sht |-> NULL, asked |-> FALSE, opens |-> NULL]
NoSheet == [flags |-> {}, task |-> NULL]

\* The memory of open_constask
Blocks(t) == {<<"stack", t>>, <<"fifo", t>>}

\* open_constask, for a window or for none
Opened(s) == [state |-> "START", sht |-> s, asked |-> FALSE, opens |-> NULL]

\* Where a window is in the stack
Height(st, s) == CHOOSE h \in DOMAIN st : st[h] = s

\* sheet_updown to -1: the windows above it come down by one.
Hidden(st, s) ==
  IF ~Contains(st, s) THEN st
  ELSE [h \in 1..(Len(st) - 1) |-> IF h < Height(st, s) THEN st[h] ELSE st[h + 1]]

Raised(st, s) == Append(Hidden(st, s), s)

\* ctl->sheets[ctl->top - 1], the sheet below the mouse
BelowMouse(st) == IF st = <<>> THEN sht_back ELSE Last(st)

\* key_win after the test at the beginning of each event
Focus == IF key_win = NULL \/ Used(key_win) THEN key_win
         ELSE IF stack = <<>> THEN NULL ELSE Last(stack)

-----------------------------------------------------------------------------
(* HariMain has opened the first console. *)
Init ==
  /\ tasks0 = [t \in Tasks |-> IF t = Min(Tasks) THEN Opened(Min(Sheets)) ELSE NoTask]
  /\ sheets0 = [s \in Sheets |-> IF s = Min(Sheets)
                  THEN [flags |-> {SHEET_USE, CURSOR}, task |-> Min(Tasks)] ELSE NoSheet]
  /\ stack = <<Min(Sheets)>>
  /\ key_win = Min(Sheets)
  /\ fifo = <<>>
  /\ held = Blocks(Min(Tasks)) \cup {<<"buf", Min(Sheets)>>}

-----------------------------------------------------------------------------
(* Task A *)

\* An event that closes and opens nothing: a mouse movement, a character for
\* the task of key_win
Event ==
  /\ key_win' = Focus
  /\ UNCHANGED <<tasks0, sheets0, stack, fifo, held>>

Tab ==
  /\ Contains(stack, Focus)
  /\ key_win' = IF Height(stack, Focus) = 1 THEN Last(stack) ELSE stack[Height(stack, Focus) - 1]
  /\ UNCHANGED <<tasks0, sheets0, stack, fifo, held>>

\* Shift+F1: the application of the window's task is ended.
BreakKey ==
  /\ Focus # NULL
  /\ Owner(Focus) # NULL
  /\ State(Owner(Focus)) = "APP"
  /\ tasks0' = [tasks0 EXCEPT ![Owner(Focus)].state = "ENDING"]
  /\ key_win' = Focus
  /\ UNCHANGED <<sheets0, stack, fifo, held>>

\* Shift+F2
open_console ==
  /\ FreeTasks # {} /\ FreeSheets # {}
  /\ LET t == Min(FreeTasks)
         s == Min(FreeSheets)
     IN  /\ tasks0' = [tasks0 EXCEPT ![t] = Opened(s)]
         /\ sheets0' = [sheets0 EXCEPT ![s] = [flags |-> {SHEET_USE, CURSOR}, task |-> t]]
         /\ stack' = Append(stack, s)
         /\ key_win' = s
         /\ held' = held \cup Blocks(t) \cup {<<"buf", s>>}
  /\ UNCHANGED fifo

F11 ==
  /\ Len(stack) > 1
  /\ stack' = Raised(stack, stack[1])
  /\ key_win' = Focus
  /\ UNCHANGED <<tasks0, sheets0, fifo, held>>

\* A click on a window raises it and gives it the keys.
Click(s) ==
  /\ Contains(stack, s)
  /\ Focus # NULL
  /\ stack' = Raised(stack, s)
  /\ key_win' = s
  /\ UNCHANGED <<tasks0, sheets0, fifo, held>>

\* The close button of an application's window ends the application.  Nobody
\* tests whether it has ended already and only its window is still there.
BreakMouse(s) ==
  /\ Contains(stack, s)
  /\ Focus # NULL
  /\ APP \in sheets0[s].flags
  /\ stack' = Raised(stack, s)
  /\ key_win' = s
  /\ tasks0' = [tasks0 EXCEPT ![Owner(s)].state =
                               IF @ = "APP" THEN "ENDING" ELSE "ASTRAY"]
  /\ UNCHANGED <<sheets0, fifo, held>>

\* The close button of a console hides its window and sends the console a 4.
AskToClose(s) ==
  /\ Contains(stack, s)
  /\ Focus # NULL
  /\ APP \notin sheets0[s].flags
  /\ stack' = Hidden(stack, s)
  /\ key_win' = BelowMouse(stack')
  /\ tasks0' = [tasks0 EXCEPT ![Owner(s)].asked = TRUE]
  /\ UNCHANGED <<sheets0, fifo, held>>

\* sheet_free
FreeSheet(s) ==
  /\ sheets0' = [sheets0 EXCEPT ![s].flags = {}]
  /\ stack' = Hidden(stack, s)

\* Message 768 + s: the console and its window
close_console ==
  /\ fifo # <<>> /\ Head(fifo).kind = "console"
  /\ LET s == Head(fifo).slot
         t == sheets0[s].task
     IN  /\ FreeSheet(s)
         /\ tasks0' = [tasks0 EXCEPT ![t].state = "FREE"]
         /\ held' = held \ (Blocks(t) \cup {<<"buf", s>>})
  /\ fifo' = Tail(fifo)
  /\ key_win' = Focus

\* Mutant: the memory stays allocated.
CloseTaskOnly ==
  /\ fifo # <<>> /\ Head(fifo).kind = "task"
  /\ tasks0' = [tasks0 EXCEPT ![Head(fifo).slot].state = "FREE"]
  /\ fifo' = Tail(fifo)
  /\ key_win' = Focus
  /\ UNCHANGED <<sheets0, stack, held>>

\* Message 1024 + t: a console that has no window
close_constask ==
  /\ fifo # <<>> /\ Head(fifo).kind = "task"
  /\ tasks0' = [tasks0 EXCEPT ![Head(fifo).slot].state = "FREE"]
  /\ held' = held \ Blocks(Head(fifo).slot)
  /\ fifo' = Tail(fifo)
  /\ key_win' = Focus
  /\ UNCHANGED <<sheets0, stack>>

\* Message 2024 + s: only the window of a console
close_sheet ==
  /\ fifo # <<>> /\ Head(fifo).kind = "sheet"
  /\ FreeSheet(Head(fifo).slot)
  /\ held' = held \ {<<"buf", Head(fifo).slot>>}
  /\ fifo' = Tail(fifo)
  /\ key_win' = Focus
  /\ UNCHANGED tasks0

-----------------------------------------------------------------------------
(* A console *)

\* console_task up to its loop
Start(t) ==
  /\ State(t) = "START"
  /\ tasks0' = [tasks0 EXCEPT ![t].state = "PROMPT"]
  /\ held' = held \cup {<<"fat", t>>}
  /\ UNCHANGED <<sheets0, stack, key_win, fifo>>

\* cmd_start, up to the call of open_constask
OpenSheet(t) ==
  /\ State(t) = "PROMPT"
  /\ FreeSheets # {}
  /\ LET s == Min(FreeSheets)
     IN  /\ tasks0' = [tasks0 EXCEPT ![t].state = "OPEN", ![t].opens = s]
         /\ sheets0' = [sheets0 EXCEPT ![s] = [flags |-> {SHEET_USE}, task |-> NULL]]
         /\ held' = held \cup {<<"buf", s>>}
  /\ UNCHANGED <<stack, key_win, fifo>>

\* The rest of cmd_start: the new task, and the window appears.
OpenTask(t) ==
  /\ State(t) = "OPEN"
  /\ FreeTasks # {}
  /\ LET n == Min(FreeTasks)
         s == tasks0[t].opens
     IN  /\ tasks0' = [tasks0 EXCEPT ![t].state = "PROMPT", ![t].opens = NULL,
                                     ![n] = Opened(s)]
         /\ sheets0' = [sheets0 EXCEPT ![s] = [flags |-> {SHEET_USE, CURSOR}, task |-> n]]
         /\ stack' = Append(stack, s)
         /\ held' = held \cup Blocks(n)
  /\ UNCHANGED <<key_win, fifo>>

\* cmd_ncst: a console that has no window
cmd_ncst(t) ==
  /\ State(t) = "PROMPT"
  /\ FreeTasks # {}
  /\ tasks0' = [tasks0 EXCEPT ![Min(FreeTasks)] = Opened(NULL)]
  /\ held' = held \cup Blocks(Min(FreeTasks))
  /\ UNCHANGED <<sheets0, stack, key_win, fifo>>

\* The message of cmd_exit
Farewell(t) == IF tasks0[t].sht # NULL THEN [kind |-> "console", slot |-> tasks0[t].sht]
                                       ELSE [kind |-> "task", slot |-> t]

\* Mutant: the console goes on after its message.
ExitReturns(t) ==
  /\ fifo' = Append(fifo, Farewell(t))
  /\ held' = held \ {<<"fat", t>>}
  /\ UNCHANGED <<tasks0, sheets0, stack, key_win>>

\* Mutant: the console sleeps without a message.
ExitSilently(t) ==
  /\ tasks0' = [tasks0 EXCEPT ![t].state = "GONE"]
  /\ held' = held \ {<<"fat", t>>}
  /\ UNCHANGED <<sheets0, stack, key_win, fifo>>

cmd_exit(t) ==
  /\ tasks0' = [tasks0 EXCEPT ![t].state = "GONE"]
  /\ fifo' = Append(fifo, Farewell(t))
  /\ held' = held \ {<<"fat", t>>}
  /\ UNCHANGED <<sheets0, stack, key_win>>

\* By the command exit, by the message 4, or after the only command of a
\* console that has no window
Exit(t) == State(t) = "PROMPT" /\ cmd_exit(t)

cmd_app(t) ==
  /\ State(t) = "PROMPT"
  /\ tasks0' = [tasks0 EXCEPT ![t].state = "APP"]
  /\ UNCHANGED <<sheets0, stack, key_win, fifo, held>>

\* hrb_api 5 and 14: the application opens and closes a window.
ApiOpen(t) ==
  /\ State(t) = "APP"
  /\ FreeSheets # {}
  /\ LET s == Min(FreeSheets)
     IN  /\ sheets0' = [sheets0 EXCEPT ![s] = [flags |-> {SHEET_USE, APP}, task |-> t]]
         /\ stack' = Append(stack, s)
  /\ UNCHANGED <<tasks0, key_win, fifo, held>>

OwnWindows(t) == {s \in Sheets : {SHEET_USE, APP} \subseteq sheets0[s].flags /\ Owner(s) = t}

ApiClose(t) ==
  /\ State(t) = "APP"
  /\ \E s \in OwnWindows(t) : FreeSheet(s)
  /\ UNCHANGED <<tasks0, key_win, fifo, held>>

\* Mutant: the console still believes that it has a window.
CloseButKeep(t) ==
  /\ State(t) = "APP"
  /\ tasks0[t].asked
  /\ fifo' = Append(fifo, [kind |-> "sheet", slot |-> tasks0[t].sht])
  /\ tasks0' = [tasks0 EXCEPT ![t].asked = FALSE]
  /\ UNCHANGED <<sheets0, stack, key_win, held>>

\* hrb_api 15 finds the message 4: the window is closed, the application goes on.
ApiGetkeyClose(t) ==
  /\ State(t) = "APP"
  /\ tasks0[t].asked
  /\ fifo' = Append(fifo, [kind |-> "sheet", slot |-> tasks0[t].sht])
  /\ tasks0' = [tasks0 EXCEPT ![t].asked = FALSE, ![t].sht = NULL]
  /\ UNCHANGED <<sheets0, stack, key_win, held>>

\* hrb_api 4, an exception, or asm_end_app
AppEnds(t) ==
  /\ State(t) = "APP"
  /\ tasks0' = [tasks0 EXCEPT ![t].state = "ENDING"]
  /\ UNCHANGED <<sheets0, stack, key_win, fifo, held>>

\* "an application left a sheet open"
CleanUp(t) ==
  /\ State(t) = "ENDING"
  /\ OwnWindows(t) # {}
  /\ FreeSheet(Min(OwnWindows(t)))
  /\ UNCHANGED <<tasks0, key_win, fifo, held>>

\* Mutant: the windows are left open.
BackWithWindows(t) ==
  /\ State(t) = "ENDING"
  /\ \/ tasks0[t].sht = NULL /\ cmd_exit(t)
     \/ /\ tasks0[t].sht # NULL
        /\ tasks0' = [tasks0 EXCEPT ![t].state = "PROMPT"]
        /\ UNCHANGED <<sheets0, stack, key_win, fifo, held>>

\* Back in the console's loop
Back(t) ==
  /\ State(t) = "ENDING"
  /\ OwnWindows(t) = {}
  /\ \/ tasks0[t].sht = NULL /\ cmd_exit(t)
     \/ /\ tasks0[t].sht # NULL
        /\ tasks0' = [tasks0 EXCEPT ![t].state = "PROMPT"]
        /\ UNCHANGED <<sheets0, stack, key_win, fifo, held>>

-----------------------------------------------------------------------------
Closing == close_console \/ close_constask \/ close_sheet

TaskA == \/ Event \/ Tab \/ BreakKey \/ open_console \/ F11 \/ Closing
         \/ \E s \in Sheets : Click(s) \/ BreakMouse(s) \/ AskToClose(s)

console_task(t) ==
  \/ Start(t) \/ OpenSheet(t) \/ OpenTask(t) \/ cmd_ncst(t) \/ Exit(t) \/ cmd_app(t)
  \/ ApiOpen(t) \/ ApiClose(t) \/ ApiGetkeyClose(t) \/ AppEnds(t) \/ CleanUp(t) \/ Back(t)

Next == TaskA \/ \E t \in Tasks : console_task(t)

\* Task A takes what is in its FIFO; a console goes on with what it has begun.
Spec == /\ Init /\ [][Next]_vars
        /\ WF_vars(Closing)
        /\ \A t \in Tasks : WF_vars(Start(t) \/ CleanUp(t) \/ Back(t))

-----------------------------------------------------------------------------
(* Properties *)

Messages == {fifo[i] : i \in DOMAIN fifo}
Alive(t) == t \in Tasks /\ State(t) # "FREE"
Message(kind, slot) == [kind |-> kind, slot |-> slot]

\* A console draws only into a window that is its own; what closes a console
\* closes its window first, and nobody reuses a sheet while a console has it.
DrawsOnOwn ==
  \A t \in Tasks : Alive(t) /\ tasks0[t].sht # NULL
    => /\ Used(tasks0[t].sht) /\ Owner(tasks0[t].sht) = t
       /\ CURSOR \in sheets0[tasks0[t].sht].flags

\* Every window has an owner that is alive, except while it is being made:
\* a click or a key goes to nobody who has left.
OwnersLive ==
  \A s \in Sheets : Used(s) =>
    \/ Alive(Owner(s)) /\ (APP \in sheets0[s].flags
                            => State(Owner(s)) \in {"APP", "ENDING", "ASTRAY"})
    \/ /\ Owner(s) = NULL /\ ~Contains(stack, s)
       /\ \E t \in Tasks : State(t) = "OPEN" /\ tasks0[t].opens = s

\* Each console is closed once: there is one message for each task that has
\* gone and for each window that was given up, and the message still means
\* what it meant when it was sent.
ClosedOnce ==
  /\ IsInjective(fifo)
  /\ \A t \in Tasks : State(t) = "GONE" <=>
       \/ Message("task", t) \in Messages
       \/ \E s \in Sheets : Message("console", s) \in Messages /\ Owner(s) = t
                            /\ tasks0[t].sht = s
  /\ \A s \in Sheets : Message("sheet", s) \in Messages =>
       Used(s) /\ \A t \in Tasks : Alive(t) => tasks0[t].sht # s

\* No memory leaks, and none is given back while it is in use.
MemoryExact ==
  held = (UNION {Blocks(t) : t \in {u \in Tasks : Alive(u)}})
         \cup {<<"fat", t>> : t \in {u \in Tasks : Alive(u) /\ State(u) \notin {"START", "GONE"}}}
         \cup {<<"buf", s>> : s \in {r \in Sheets : Used(r) /\ APP \notin sheets0[r].flags}}

\* A console that has gone is closed, and its slot can be used again.
GoneIsClosed == \A t \in Tasks : State(t) = "GONE" ~> State(t) = "FREE"
=============================================================================
