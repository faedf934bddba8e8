# Haribote OS: TLA+ models and proofs

The repository holds every step of the book from which Haribote OS comes. These
modules are about the last one, `src/haribote/projects/30_day/harib27f/haribote`
(C and assembler, comments in Shift-JIS). File names below are relative to that
directory, and `file.c:12` is a line of it.

Contents: [the system](#the-system), [the modules](#the-modules),
[the runs](#the-runs), [fairness](#fairness), [the proofs](#the-proofs),
[disagreements](#disagreements-between-the-code-and-what-it-says),
[what is not modelled](#what-is-not-modelled), [plan](#plan).

## The system

A preemptive multitasking system for one 32-bit processor, with windows, consoles
and applications. Everything happens in

- *interrupt handlers* (timer, keyboard, mouse), which run with interrupts disabled
  and do little more than put a number into a FIFO;
- *task A* (`HariMain`), which owns the keyboard, the mouse, the windows and the end
  of every console; it has level 1, above all consoles;
- *consoles* (`console_task`, level 2), each of which runs commands and, in its own
  task, at most one application at a time;
- the *idle task* on the lowest level.

Tasks share memory without locks. What protects shared data is `io_cli`, the levels
(a console never interrupts task A) and, often, nothing: the timer interrupt may
switch tasks between any two statements that run with interrupts enabled.

### Inventory

**FIFO buffers** (`fifo.c`). State: a ring with the positions `p` and `q`, the number
of free places, an overrun flag and the task to wake. Operations: `fifo32_init`,
`fifo32_put`, `fifo32_get`, `fifo32_status`. Every other component sends its events
through a FIFO; one number tells what they are (0, 1 the cursor's timer; 2, 3 cursor on
and off; 4 close; 256 to 511 keys; 512 to 767 mouse; 768 and more, closing messages).
Hard: a full FIFO drops what comes, the consumer sleeps when it is empty, and a call
that is not protected can be interrupted by another one. Correct when data leave in
order, nothing but what was refused is lost, and no wakeup is lost.

**Scheduler** (`mtask.c`). State: ten levels, each with a list of running tasks and
the place `now` of the current one; the current level; `lv_change`. Operations:
`task_init`, `task_alloc`, `task_run`, `task_sleep`, `task_switch`. Called by the
timer (`task_switch`), by `fifo32_put` (`task_run`), by the event loops (`task_sleep`)
and by task A when it closes a console. Hard: lists shrink while pointers into them
are in use, a change of level is put off, one call runs with interrupts enabled.
Correct when the lists hold exactly the running tasks, `task_now()` is who executes,
the highest level runs, and tasks of a level take turns.

**Timers** (`timer.c`). State: 500 slots and a linked list of the running timers in
order of their times, with a sentinel; the counter; the time of the first one.
Operations: `timer_alloc`, `timer_free`, `timer_init`, `timer_settime`,
`timer_cancel`, `timer_cancelall`, the interrupt. One timer drives the scheduler, one
per console blinks its cursor, the others belong to applications. Hard: a cancel races
with the interrupt, the scheduler's timer is set again within the interrupt that still
walks the list, applications can do with their timers what they like. Correct when
every timer fires at its tick and the scheduler's never stops.

**Memory manager** (`memory.c`). State: a sorted table of at most 4090 free areas.
Operations: `memman_alloc`, `memman_free`, the same in pages of 4096 bytes,
`memman_total`. Hard: joining with neighbours, a full table, requests of no bytes.
Correct when no memory is handed out twice and none disappears unaccounted.

**Sheets** (`sheet.c`). State: 256 slots, the stack of visible sheets, a map that has
for each pixel the sheet that is seen there, the screen. Operations: `sheet_alloc`,
`sheet_setbuf`, `sheet_updown`, `sheet_slide`, `sheet_refresh`, `sheet_free`. Called by
task A and by applications. Hard: the map is brought up to date in the rectangles that
changed only, and the screen in words of four pixels with remainders, clipped at the
edges. Correct when heights and stack agree, the map has the topmost sheet, and the
screen shows what the map says.

**Consoles, windows and applications** (`bootpack.c`, `console.c`). State: tasks with
their console, window, stack, FIFO, FAT and files; `key_win`. Operations: opening by
Shift+F2, `start` and `ncst`; closing by `exit`, by the close button and, while an
application runs, of the window alone; starting and ending applications by themselves,
by an exception, by Shift+F1 and by their close button; Tab, F11 and clicks. A console
that ends sends task A a message with the number of its window or task and sleeps for
ever; task A frees it. Hard: slots are reused while messages and pointers name them.
Correct when windows have living owners, each console is closed exactly once, memory
is given back exactly once, and the keys go to somebody.

**Console line and cursor** (`console.c`). State: cursor position and colour, the
command line, the screen, the cursor's timer. Hard: typing, printing, focus changes
and the blinking interleave, and an application takes the console's messages out of
the FIFO. Correct when the line on the screen is what is run, and there is one cursor,
in the window that has the keys.

**Keyboard** (`keyboard.c`, `bootpack.c`). State: `key_leds`, `key_shift`, the bytes
for the keyboard (`keycmd`) and the one that waits for its acknowledgement. Hard:
answers come between keys and the bytes of the mouse, bytes are lost and sent again.
Correct when one byte is under way at a time, commands and their arguments stay together,
and lamps and shift keys end up right.

**Mouse** (`mouse.c`, `bootpack.c`). State: the phase of the three-byte decoder, the
pointer, the drag, the drawing that is put off. Hard: bytes lose their step; drawing is
late. Correct when no report is misread and a dragged window stays where it was
grabbed.

**Files** (`file.c`, `hrb_api` 21 to 25). State: the FAT, the open files, their
buffers. Hard: sizes at cluster boundaries, compressed files with two buffers, names.
Correct when what is read is the file, and its memory is given back.

**Boot sector** (`ipl09.nas`). State: registers and memory. Hard: tracks, the 64KB
border of the DMA controller, 8-bit arithmetic, retries. Correct when every sector gets
to its place, or the machine stops with a message.

**Decompression** (`tek.c`). State while a file is restored: a place in it, the last four
distances, in stk1 and stk2 counts and bits, in tek5 a range and its code, some thousand
probabilities, the models by which they change, and the state `s` that stands for the last
commands. Hard: numbers in half a byte to four bytes, bits between bytes, rounding that must
be the compressor's, contexts that are computed by shifting. Correct when the text that was
compressed comes out, which has no check in the file.

**Text of two-byte characters** (`graphic.c`, `window.c`, `console.c`). State: `langmode`,
and `langbyte1`, the first byte of a character until the second is there. Hard: a line or an
application ends between the two. Correct when the screen reads as what was written.

**Lines** (`hrb_api` 13), **memory test** (`memory.c`, `naskfunc.nas`), **descriptors**
(`dsctbl.c`). No state outside a call. Correct when a line is straight and ends where it
should, the memory is measured and kept as it was, and the processor reads from a descriptor
what was asked for.

**Applications** (`calc`, `tview`): an evaluator of expressions that calls itself, and a viewer
that lays out lines with tabs and two-byte characters in a window that moves over a file.

Also there, and not modelled: `asmhead.nas` but for the copy of the diskette, the entries of
`naskfunc.nas`, `int.c`, boxes and frames, fonts, the application library and the other
sample applications, the earlier versions and the tool chain ([why](#what-is-not-modelled)).

## The modules

| Module | Of | What it is |
|---|---|---|
| `BoundedQueue` | | abstract: a bounded queue with a consumer that sleeps |
| `Fifo` | `fifo.c` | the ring, senders, and the loop of a consumer |
| `FifoRace` | `fifo.c` | `fifo32_put` statement by statement, interrupted by another one |
| `Mtask` | `mtask.c` | the scheduler, a call a step |
| `MtaskIrq` | `mtask.c` | `task_sleep` statement by statement, with interrupts enabled |
| `AlarmClock` | | abstract: deadlines, and a metronome that never stops |
| `Timer` | `timer.c` | the linked list and the interrupt |
| `MemoryPool` | | abstract: a set of addresses, of which areas are held |
| `Memman` | `memory.c` | the table of free areas |
| `WindowStack` | | abstract: a stack of pictures, seen from above |
| `Sheet` | `sheet.c` | stack, map and screen, pixel by pixel |
| `Console` | `bootpack.c`, `console.c` | the life of consoles, windows and applications |
| `Prompt` | `console.c` | one console on the inside |
| `TaskAFifo` | `fifo.c` | the FIFO of task A, as its interrupts see it |
| `Keyboard` | `keyboard.c`, `bootpack.c` | lamps, shift keys, acknowledgements |
| `Mouse` | `mouse.c`, `bootpack.c` | decoder, pointer, dragging |
| `Devices` | `bootpack.c` | `Keyboard` and `Mouse` through the one FIFO |
| `DiskFile` | `file.c` | operators for FAT, chains and names |
| `FileName` | `file.c` | a name, read character by character with the operators of `DiskFile` |
| `Boot` | `ipl09.nas` | the boot sector |
| `Files` | `file.c`, `console.c` | open files, with the operators of `DiskFile`, on the image that `Boot` has read |
| `TekLz` | `tek.c` | the decoders of stk1 and stk2, against a compressor |
| `TekRange` | `tek.c` | the range decoder of tek5: bits, probabilities, changing models |
| `TekLzma` | `tek.c` | the main loop of tek5: commands, distances, contexts |
| `TextOut` | `graphic.c`, `window.c`, `console.c` | text of one- and two-byte characters |
| `LineWin` | `console.c` | a line, pixel by pixel |
| `Memtest` | `memory.c`, `naskfunc.nas` | the memory test on a machine with or without a cache |
| `Dsctbl` | `dsctbl.c` | descriptors, and how the processor reads them |
| `Calc` | `calc.c` | `getnum`, on sequences of tokens |
| `TView` | `tview.c` | lines in a window that moves over a file |
| `Least` | | the lemma about the least element of a set of numbers |
| `StructuresProofs` | `fifo.c`, `sheet.c` | theorems of `Fifo` and `Sheet` |
| `MtaskProofs`, `TimerProofs`, `MemmanProofs`, `ConsoleProofs`, `DevicesProofs` | | theorems of the module they are named after |
| `LoopsProofs` | | theorems of `Prompt`, `Files`, `Boot`, `Dsctbl`, `TekRange` and `Memtest` |
| `MC*` | | constants for TLC that a `.cfg` cannot say; `MCAlgorithms` also puts the modules that only work on data side by side |

Variables have the names of the structures and variables of the code (`fifo`,
`taskctl`, `timerctl`, `man`, `ctl`, `cons`, `mdec`, ...), actions those of the functions,
where they are one function. A function that changes a structure is an operator from the
structure to the structure (`task_run(tc, task, level, priority)`), so that handlers are
composed of calls as in the code. A definition preceded by `Mutant:` is a plausible mistake
in the definition behind it; it belongs to no specification and says which property would
find it.

**Grain.** An interrupt handler, and what a task does between `io_cli` and `io_sti`, is
one step. Handlers of task A are one step in the modules about what consoles share with
it (`Console`, `Sheet`), since no console runs before task A sleeps. Two exceptions
were found where the code leaves interrupts enabled although it must not, and each has a
module that goes statement by statement: `FifoRace` and `MtaskIrq`. In `Console` a
console's command is split where another task can see a difference: `cmd_start` between
taking the window and taking the task, the end of an application between any two windows
it left open.

**External.** The keyboard, the mouse, the disk BIOS, the disk's formatter, the tek
compressor, the encodings of characters, memory and cache, and the processor that reads
descriptors are modelled from how the code uses them: the keyboard acknowledges a byte or
asks for it again; the mouse sends three bytes a report; the BIOS reads what was asked for
or fails; the compressor writes the numbers that the decoder reads, in every form that it
may choose.

**Loops on data.** A function that only computes is a state machine whose step is one pass
of its loop (`TekLz`, `TekRange`, `TekLzma`, `FileName`, `LineWin`, `Memtest`), or a
recursive operator where the code calls itself (`Calc`), and its properties compare it
with a definition of what it is for: the text that was compressed, the straight line, the
value in C, the file's lines cut to a window. `MCAlgorithms` runs ten of them in one run, one
at a time: a variable `part` says which, and the others stay where they begin.

## The runs

Each run finishes within two and a half minutes with two workers.

In parentheses, the parts of an invariant.

| Run | Module | Properties | Bounds, and why they are enough |
|---|---|---|---|
| `fifo` | `MCFifo` | `FifoOK` (`TypeOK`, `Ring`, `NoLostWakeup`), `ImplementsQueue`, `Drains` | 3 places, 2 data: full, empty, wrapped and overrun buffers, and two orders of data |
| `mtask` | `Mtask` | `ListsOK` (`TypeOK`, `ListsExact`, `NowInList`), `RightTask` (`NowIsCurrent`, `HighestLevelRuns`), `ConsolesServed` | 6 tasks, 4 levels of 3 places: task A, idle and four consoles, so that a list has a first, a middle and a last task, fills, and is overrun by the fourth; levels 0 to 2 and the lowest are the ones the code uses |
| `tables` | `MCTables` | `ListOK` (`ListInOrder`, `ListIsRunning`), `ImplementsClock`; `TableOK` (`NoOverlap`, `InOrder`), `ImplementsPool` | 4 timers, of which the sentinel and the scheduler's are two: insertion in front, in between and behind, equal times; 4 ticks, times of 4 bits. Memory areas of 4 and 3 bytes with a gap, a table of 3 places, requests of 0 bytes, less than a page and more: the table overflows, areas join in front, behind, and on both sides, and an area of no bytes puts it out of order |
| `sheet` | `MCSheet` | `SheetsAgree` (`StackOK`, `MapIsTopmost`), `ImplementsStack` | screen 8 by 2, windows of 5 by 2 at -4, 0 and 4: over the left and right edge, word and remainder; 4 sheets, background and mouse included |
| `console` | `Console` | `DrawsOnOwn`, `OwnersLive`, `ClosedOnce`, `MemoryExact`, `GoneIsClosed` | 2 consoles, 3 windows: two consoles with an application's window between them, and slots that are reused |
| `devices` | `MCDevices` | `OneUnderWay`, `InStep`, `PointerFollows`, `BytesGetThrough`, `NothingLost` | one FIFO of 3; one lock key and both shift keys, a failure to receive, `keycmd` of 4; reports of three movements, over the edge, to the title bar, to the button. Keys with the keyboard's answers, 2 reports with the keyboard's answers and a failure, and 3 reports; drawing put off at any time |
| `prompt` | `MCPrompt` | `LineIsCmdline`, `OneBlink`, `OneCursor` (`NoGhostCursor`, `CursorIsFocus`) | 2 lines of 5 columns: wraps, tabs and scrolls, and three characters fit behind the prompt; a FIFO of 3, which is what a click on the close button sends |
| `files` | `MCFiles` | `HeapExact`, `ReadInOrder`, `SectorsArrive` (`RequestIsLegal`, `InPlace`), `BootEnds` | the code's nine cylinders, which cross three 64KB borders; clusters of 8 bytes, pages of 16; files of three clusters, exactly one, none, and compressed; cluster numbers of nine bits in both packings of the table |
| `algorithms` | `MCAlgorithms` | see below | see below |

The run `algorithms`, part by part:

| Module | Properties | Bounds |
|---|---|---|
| `FileName` | `NameFindsFile` | names of up to eight characters for a directory of three and two: all positions of dots, too long in front of a dot or behind it |
| `TekLz` | `Restored` | both formats; literals, copies, lengths and distances around each border between forms of numbers (15 to 18, 128, 144, 145), copies in all numbers of `repdis`, a last copy that is cut, a text of two blocks |
| `TekRange` | `RangeOK` (`InPlaceOf`, `BothPossible`) | a range of 6 bits that grows by 2, probabilities of 3 bits, models that follow by 1/2, 1/4 and 1/8 in parts of 1, 2 and 4, which change every second bit: all ranges and codes are reached. The theorems say the same for the code's 32, 8, 16 bits |
| `TekLzma` | `TextRestored`, `ContextsFound` (`StateIsHistory`, `LiteralContext`, `NumbersRead`) | texts of 7 bytes of 4 bits, of all sequences of commands, so that all 12 states are reached with every order of the last distances; lengths and distances up to 1100, which have every number of parts |
| `TextOut` | `ReadsAsWritten` (`CharactersKept`, `FrameKept`) | 3 columns, 4 rows, 3 characters from all borders of the encodings, in every mode, ended at any byte |
| `LineWin` | `LineStraight` | all lines from the corners of a square of 10, and flat ones of 200 pixels, whose rounding adds up to several pixels' fractions |
| `Calc` | `AsInC` | all expressions of up to two levels of operators, with the parentheses they need, of 16 bits |
| `TView` | `FileInWindow` | a window of 3 columns and 2 lines; all texts of up to three of a character, a two-byte character, a tab and a line end; every order of keys |
| `Memtest` | `MemoryMeasured` | 4 pages: every set of pages with memory, every content of the tested words; what is read without memory is the worst, one of the patterns |
| `Dsctbl` | `DescribesWhatWasAsked` | numbers on both sides of every border between fields; the theorem has all |

`fifo_race`, `mtask_full` and `mtask_irq` end with a counterexample; see
[below](#disagreements-between-the-code-and-what-it-says).

`MCTables` has two modules side by side in the same way: `part` says whether a behaviour is one
of `Timer` or of `Memman`.

What bounds a behaviour: `Mtask` stays as it is when a list is overrun (`Overrun`), because what
is overwritten then is the next level. `Memman` has at most `MaxEmpty` areas of no bytes, in use
or in the table: one in the run, any number in the theorems. `Timer` stops counting at
`MaxCount`, before times wrap.
`Devices` has as many reports and failures as `Uses` says. `Devices` and `Prompt` stop when a FIFO has refused
something, since what is lost there is lost for good and their properties say nothing about
it. `Files` opens no more files when memory is used up: the code does not look whether it
got any. `CHECK_DEADLOCK FALSE` is said where a behaviour ends because of such a bound, or
because the code does.

Two invariants contain a type invariant by name (`ListsOK`, `FifoOK`). Elsewhere the
invariants say more of the state than its type: `ListOK`, `SheetsAgree`, `TableOK` and
`OneUnderWay` fail when a link, a height, a place or a byte leaves its range, and a refinement
fails with them. An invariant of several parts has a mutant for each part that says something
of its own.

Four refinements are checked, with the concrete state mapped in the module that has it: `Fifo` implements `BoundedQueue`, `Timer` implements `AlarmClock`,
`Memman` implements `MemoryPool`, and `Sheet` implements `WindowStack`: each
pixel of the screen shows the highest picture that is not transparent there.

## Fairness

- `Fifo`: the owner of a FIFO that has data takes them (`Drains`). It is awake then
  (`NoLostWakeup`), and `Mtask` says that tasks that are awake are served.
- `Mtask`: the timer ticks, and boot goes on. Nothing else: `ConsolesServed` holds
  whatever the consoles do. It is for behaviours in which task A sleeps from some time
  on, because a level 1 that is never empty starves level 2 by design.
- `Console`: task A handles the closing messages, and a console finishes what it has begun
  (starting, and cleaning up behind an application). No application has to end, and no user
  has to do anything.
- `Devices`: task A, which has the highest level in use, goes on, and the keyboard answers a
  byte, in whatever way; `BytesGetThrough` relies on the bound on failures. Nobody has to press
  a key or move the mouse.
- `Files`: during the boot the processor and the BIOS go on (`BootEnds`); no application has
  to do anything.

## The proofs

| Theorem | Says, for every value of the constants |
|---|---|
| `StructuresProofs!NoWakeupLost` | the ring is consistent and no wakeup is lost (`FifoOK`) |
| `StructuresProofs!IsAQueue` | `fifo.c` implements the bounded queue (`ImplementsQueue`) |
| `StructuresProofs!MapIsRight` | heights, stack and map of the sheets agree after every call (`SheetsAgree`) |
| `StructuresProofs!WindowsAreAStack` | `sheet.c` implements the stack of windows, if no window is nearly as wide as the screen (`ImplementsStack`) |
| `MtaskProofs!NoTaskLost` | until a list is overrun, every field stays in its range and the lists hold exactly the running tasks (`ListsOK`) |
| `MtaskProofs!RightTaskRuns` | until then, the task that executes is the current one, of the highest level (`RightTask`) |
| `TimerProofs!ListStaysOK` | the list is in order, ends with the sentinel and holds exactly the running timers (`ListOK`) |
| `TimerProofs!IsAnAlarmClock` | `timer.c` implements the alarm clock (`ImplementsClock`) |
| `MemmanProofs!NoDoubleAllocation` | free and held areas are apart, and the table is sorted and joined until no bytes have been granted (`TableOK`) |
| `MemmanProofs!IsAPool` | `memory.c` implements the pool of addresses, also with requests of no bytes (`ImplementsPool`) |
| `ConsoleProofs!DrawsOnlyOnOwn` | a console draws only into its own window (`DrawsOnOwn`) |
| `ConsoleProofs!WindowsHaveOwners` | every window has an owner that is alive (`OwnersLive`) |
| `ConsoleProofs!ConsolesClosedOnce` | whatever ends is announced once, and the message still means it when it is read (`ClosedOnce`) |
| `ConsoleProofs!NoMemoryLeak` | what is allocated is what the consoles and windows need (`MemoryExact`) |
| `DevicesProofs!KeyboardWaits` | a byte for the keyboard is under way once, until its acknowledgement is read (`OneUnderWay`) |
| `DevicesProofs!KeyboardInStep` | commands keep their arguments, and lamps and shift keys end up as task A believes (`InStep`) |
| `DevicesProofs!PointerIsFollowed` | no report of the mouse is misread or forgotten (`PointerFollows`) |
| `DevicesProofs!NoMovementLost` | a window that is let go is where the hand is (`NothingLost`) |
| `LoopsProofs!LineIsRun` | what is typed behind the prompt is the line that is run (`LineIsCmdline`) |
| `LoopsProofs!BlinksOnce` | while a console has its window, its cursor's timer runs or has one message under way (`OneBlink`) |
| `LoopsProofs!CursorFollowsKeys` | the cursor is in one place at most, and on exactly when its window has the keys, once all messages are read (`OneCursor`) |
| `LoopsProofs!HeapIsExact` | what is allocated is what the open files need (`HeapExact`) |
| `LoopsProofs!FilesReadInOrder` | what is read from a file is the file, in one piece (`ReadInOrder`) |
| `LoopsProofs!SectorsInPlace` | every request is legal and every sector gets to its place (`SectorsArrive`) |
| `LoopsProofs!ReadBack` | the processor reads what was asked for (`DescribesWhatWasAsked`) |
| `LoopsProofs!KeepsItsPlace` | the code stays below a range that is never empty and fits its word, and both bits stay possible in every context (`RangeOK`) |
| `LoopsProofs!MemtestMeasures` | the memory test finds the first page without memory and leaves the others as they were (`MemoryMeasured`) |

**FIFO.** `FifoOK` is inductive as it stands. `Ring` says that `p`
is as far ahead of `q` as `size - free`, and that each place in between holds a datum: the
positions alone would not be enough, since `p = q` means both empty and full. The refinement
maps the places from `q` on to a sequence; `PutRefines` and `GetRefines` show that a put
appends and a get takes the head, with the wrap at the end of the buffer. Assumptions: the
size is at least 1, and -1 and 0, which are results, are not data.

**Sheets.** `SheetsAgree` is not inductive: `sheet_updown` and `sheet_slide` repaint the map
only where something moved, and a pixel at which no sheet shows anything would keep the
number of a sheet that has left. `Scene` adds what excludes that: the background fills the
screen and is never hidden, and only the mouse has a transparent colour. It also states the
map without the stack (`TopAt`: the sheet shows something there, and no visible sheet that
shows something is higher), so that what a call does to the heights is all there is to know
of it. The effect lemmas follow the code: the loops (`ShiftIs`), the four cases of
`sheet_updown` with the new height of every sheet (`LowerIs`, `RaiseIs`, `ShowIs`, `HideIs`),
the map after each (`LowerMap` and so on: where the repainted area or heights leave the map
alone, the sheet that was seen still is), `sheet_slide`, and then the handlers. That there is
a place in `sheets[]` for a window that is opened is counted (`HasPlace`): the heights of the
visible sheets are all different, and one slot is not among them. Windows of any size may
lie beyond any edge; corners are multiples of four, as the code makes them.

For the refinement each handler is a `Step` of one sheet: the others look the same and keep
their order, and the screen stays right (`Seen`: each pixel has the colour that the sheet in the
map has there, `VramIs`). Two things are behind it. What is redrawn is enough: if another sheet
is seen at a pixel than before, then the moved one is one of the two, and the new one is at a
height that is redrawn (`Uncovers`, once for each case of `sheet_updown`; `SlideVram` for the
two areas of `sheet_slide`; `DrawSeen` for a window that draws, whose buffer changes only within
the stroke). And what is drawn lands in its place (`DrawnBy`): every pixel of the area is
visited (`CopiedThere`), and whatever is copied to a pixel of the map is the sheet's own there
(`CopiedIs`), although the words and remainders of an aligned sheet may begin up to three
columns early (`ColumnsFrom`). The latter is where the assumption `WithinLines` comes from: the
screen has at least five columns (the mouse cursor has two in the model), each window is at
least three pixels narrower than the screen, and the left edge of what is drawn is not behind
the right one. The system's own windows are at most 256 pixels wide, on a screen of at least
320, and it draws from the left to the right (`hrb_api` 13 puts the ends of a line in order
first); applications may open wider ones. For a window of 7 columns on a screen of 8, TLC finds
the pixel of the line above that is drawn wrongly; 6 and 8 columns pass in the same instance, so
that the assumption is enough, and not the weakest. The background is as wide as the screen and
at its corner, where what is early is the end of its own line above.

**Scheduler.** Nothing is assumed of how many tasks there are for a place: the code has 1000
and 100, and the theorems say what holds until a list is overrun (`RoomForAll` is the premise
inside `ListsOK` and `RightTask`, and the run `mtask_full` shows that it can fail). Behind the step
that overruns a list nothing is claimed; in every other step a task that is added has a place,
because `running` counts it (`AddCounts`). The inductive invariant
`Good` is stronger in two points. An empty list, except that of level 0, points at its first
place: otherwise the first task that is added to it would not be the one that is pointed at.
And the task that executes is the one that the current level points at, with no running task
above it unless `lv_change` is set; after the boot there is an exception for the level 0 that
HariMain leaves, and which `now_lv` still names. The lemmas about one list (`AddLists`,
`WithoutLists`) are separate from those about the structure (`AddOK`, `RemoveOK`,
`SwitchsubOK`), and those from the actions.

**Timers.** The list is a path `w[0], ..., w[n]` that ends with the sentinel, has no timer
twice, is in the order of the times, and passes through exactly the running timers (`IsList`).
The model walks it with a function, as the code walks it with a pointer; `WalkIs` shows, by the
least step at which they would differ, that the walk is the path. Each call then has a lemma
that gives the new path: a timer comes in between (`IsSet`), is taken out (`IsUnlinked`), or
the first `k` are cut off (`IsTimedOut`). For the refinement an alarm of the clock is the time
of a timer that runs; the number of late alarms is the number of timers cut off, which is
counted along the path. The assumption is the module's: `count` stops early enough
that no deadline reaches the time of the sentinel.

**Memory.** The theorems have requests of any size, those of no bytes included (an empty file
makes one). Such a request is granted with the address of the first free area, and when it is
given back, `memman_free` may put an entry of size 0 behind an area with the same address, from
which point its search may stop at a wrong place. So the argument has two layers. What never
depends on the order of the table is said of single addresses (`Has`, `Inside`): whichever place
the search finds, what `memman_free` does to the table adds exactly the addresses of the area
that comes back, and what `memman_alloc` does takes exactly those that are handed out (`PutHas`,
`InsertHas`, `DeleteHas`, `TakeHas`, and `FreeCases` for the four ways an area is returned).
Areas that have no address in common do not overlap (`ApartIs`), so that the table stays `Loose`
and clear of what is in use, in whatever order it is. The history variable `emptied` says that
no bytes have been granted; until then the table is in order and joined (`Table`), because the
search finds the only right place (`FreeStrict`), and order and disjointness keep each other.
`NoDoubleAllocation` says both: no byte is in two areas, ever; and the table is in order until
`emptied`.

For the refinement the table stands for the set of addresses in its areas, and areas of no
bytes for nothing. What the pool calls the lowest stretch that fits is the first area of the
table that is large enough, because areas that do not touch are the largest stretches
(`StartsAre`, `LowestFits`); and the table is full exactly for an area that touches no other
(`TouchesIsNeighbour`). Both need the order, so the pool promises them until a block of no
bytes has been handed out, and afterwards what is left: what is handed out was available, what
is given back is available again or counted as lost. No assumption is needed but that the areas
given at boot do not overlap.

**Consoles.** The invariant has a part for each kind of thing: a window (`WindowOK`: free, being
made for a console that is opening it, an application's, or a console's that has it as its
own or has given it up in a message), a task (`TaskOK`), a message (`MessageOK`: what it names
is still what it was when it was sent) and the order of messages (`SheetFirst`: a console
gives up its window before itself, so that a task's slot is not taken again while its window is
waiting to be closed). Each needs the others: a message stays true because nobody but task A
frees a slot, and task A only does it for a message. That no memory leaks is a second layer
(`MemoryExact`), the sum over tasks and windows of what each of them holds. It holds for any
number of slots; handlers of task A are one step, as in the runs.

**Prompt.** The invariant `PromptInv` has three parts. `MessagesOK`: as long as the FIFO has
refused nothing, the messages under way are a run of the cursor's switch (`Switching`) from
what the console believes to who has the keys for task A; a backspace is sent only to a cursor
that is on, which is why it never leaves the old cursor behind; and the timer of the cursor
runs or has one message in the FIFO, not both (`BlinkOnce`). `ScreenOK`: at the prompt the line
on the screen is `>`, the characters of `cmdline`, and nothing behind the cursor's place
(`Shows`); while an application prints, the cell it goes on at is empty (`Tidy`); and the
cursor's picture is nowhere but at the cursor (`CursorOnlyHere`). `TimerOK` says when the timer
has to be idle. The loop of `cons_putstr0` is a recursive function; what holds after each
character is shown by the least one after which it would not. The window has any number of
lines and at least three columns. The assumptions are those of the module: no application sends
a cursor's message or a key of the line editor by a timer (they send 128), and the cursor's
picture is not printed.

**Files.** `FilesInv` is inductive in a state in which the boot has ended, and `BootInv` says
that the image is then complete (`ImageIsRead`). For each handle in use it has the file that
was opened, the size of its bytes, the position between where reading began and the end, and
what has been read as a part of the file; and the bytes are at the handle's address as long as
the handle is open, because the areas of two handles are `Separate`. That `file_readfat`
unpacks what a formatter has packed is arithmetic on 24 bits that are cut into bytes and put
together again (`LinkedIsEntry`, `EntryIsLinked`); `ChainOfFile` follows the chain by the least
cluster at which it would leave the file, and `LoadsStored` makes bytes of it. What `first
fit` finds does not touch what others have (`Allocated`, `FitsIsNew`), and a compressed
file gives back the packed copy and nothing else (`FileLoaded`). The assumption
(`FilesAssumption`) describes a diskette that is in order: no cluster belongs to two files or
twice to one, and all lie in the cylinders that the boot sector reads. A directory, the
names, the sizes, the number of handles and the memory are arbitrary.

**Memory test.** Until the loop ends, the machine is the one that the test began with, without
the cache: each page that is tested is put back before the next one, and the written
patterns are found exactly where there is memory. The assumption is that of the module: what
is read where there is no memory is the same each time.

**Boot.** The invariant says how `ES` and `BX` follow from the place on the disk: `ES` is
32 times (64 + sectors read) and `BX` what is left. It holds for up to 33 cylinders, below
0xa0000, and for failures at any request.

**Range decoder.** `BothPossible` and `InPlaceOf` need each other: the share of a bit is neither
nothing nor the whole range only if its probability is neither 0 nor 1 *and* the range has
grown to `Top` again, and the range stays positive only because of that. What makes a
probability stay inside is `Fixed`, which cuts it to what the current model can still move,
before a move of at most its `m`-th part, counted in whole parts of `t`. The assumption
(`RangeAssumption`) is that `Top` is at least `One` and that the grain and the parts divide
what they are parts of; the code has 2^24, 2^16, 2^11 and 2^0 to 2^14.

**Keyboard.** Neither `OneUnderWay` nor `InStep` is inductive. The invariant `IInv` speaks of what
is in between, and only of behaviours in which no FIFO has refused anything: a byte of
`keycmd_wait` is in the port with no answer in the FIFO, or not there with exactly one
(`UnderWay`); the byte that the keyboard has not received and those of `keycmd` behind it are
commands and lamps in turn, beginning with what the keyboard expects and ending with
`key_leds` (`Pairs`, `LampsArrive`); and the last datum about a shift key in the FIFO says
whether it is held (`ShiftsArrive`). It is about the composition `Devices`: what comes from the
mouse is carried by the same FIFO and is shown to change nothing of this. The lemmas say first
what one more datum behind the others, or one less in front, does to these sentences, and then
that each action is one of these. The sizes of both FIFOs, the reports and the number of
failures are arbitrary.

**Mouse.** What is on its way, byte by byte in the FIFO and then in the mouse, is a run of the
decoder and the pointer (`OnTheWay`) that begins at what they are now and ends where the mouse
means the pointer to be, with the decoder expecting a first byte. A byte that is read
takes the first step off the run, a report adds three at its end, and a key's datum is passed
over. The window that is held stays where it was grabbed, up to the two pixels by which `& ~3`
rounds (`WindowHeld`), counting what is still to be drawn; `NothingLost` follows at the step
that lets it go.

**Descriptors.** Each field is a digit of its number in a mixed base; the lemmas put two and
three digits together again, and show that the upper half of `limit_high` is the lower digit
of nothing else.

`Least` has the one fact about natural numbers that the searches need (a set that is not
empty has a least element).

Model-checked only:

- everything about liveness (`Drains`, `ConsolesServed`, `GoneIsClosed`, `BytesGetThrough`,
  `BootEnds`), which TLAPS does not prove under fairness;
- what is said about folds, recursive operators and other inductions over data (`NameFindsFile`,
  `Restored`, `TextRestored`, `ContextsFound`, `ReadsAsWritten`, `LineStraight`, `AsInC`,
  `FileInWindow`).

Nothing is assumed but the `ASSUME`s at the head of each module and what is named
above; TLC evaluates the former in the runs.

## Disagreements between the code and what it says

Each of these three runs checks one statement of a comment, and TLC finds how the code
breaks it.

| Run | Statement | What happens |
|---|---|---|
| `fifo_race` | a put stores its datum (fifo.c:21) | task A puts a key with interrupts enabled, and the timer interrupt puts into the same FIFO in between |
| `mtask_full` | a level has room for its tasks: the maximal number of tasks (bootpack.h:199) against the places of a list (201), and `running` is the number of running tasks (223) | consoles share a level of 100 places, there are 1000 slots, and `task_add` (mtask.c:17) has no test: the 101st console that runs is written over `running` of the next level |
| `mtask_irq` | `now` is the task that runs (bootpack.h:224) | `cmd_exit` calls `task_sleep` with interrupts enabled, and the timer interrupt switches tasks in the middle of `task_remove` |

Limits of the code that were met while modelling, and that bound what the other runs and the
theorems say (each is listed with its line among the hazards of `PROJECT.json`):

- what a list that is overrun does to the next level is not followed;
- an application may set or free a timer that runs, which breaks the list; `Timer` has the
  calls of programs that wait for their timers;
- an application that ends after `hrb_api` 16 and before 17 keeps its timer, and nobody frees
  the timer of a console's cursor;
- a request of no bytes gives out an address that someone else may get as well, and puts an area
  of no bytes into the memory table, which may then be out of order: neighbours are not always
  joined any more, and an area may be lost for want of a place that it would not have needed. No byte is ever
  handed out twice. Several owners of the same area of no bytes are one in `used`, and `Free`
  may leave it there for the others; `losts` is left out, because nothing reads it;
- Shift+F1 asks whether the task is in an application (bootpack.c:218), the close button of an
  application's window does not (295): pressed while the console cleans up already, it sends the
  console to `asm_end_app` with a stack that is not there any more. `Console` has the step, and
  the console is `ASTRAY` then, which takes no step of its own any more: the properties say of
  it that its window is not given away;
- an area that holds no whole word of four pixels is redrawn from up to three pixels early,
  which lands on the line above if the window is nearly as wide as the screen;
- F11 with no window lowers the mouse; the close button of the last window gives the keys to
  the background; a window that is closed is not noticed if its slot has been taken again;
- a mouse report with an overflow bit is refused at its first byte, and the following ones are
  shifted;
- what an application's timer has sent stays in the FIFO when it ends and is typed;
- a character of EUC whose first byte ends a line is drawn half on the window's frame
  (`FrameKept` has the exception);
- a line drawn to smaller coordinates across its main direction may leave the rectangle that is
  brought to the screen by one pixel, and one of more than 32 pixels may end a pixel early
  (`LineStraight`);
- `calc` refuses a shift by 0, takes the value -0x7fffffff for an error, does not look at what
  stands behind an expression, and divides the least number by -1, which is an exception;
- `tview` takes the byte behind a first byte of two for the second, also when it is a line end
  or the end of the text; `TView` has well-formed texts only;
- `memtest` relies on the cache holding nothing of the pages it tests.

## What is not modelled

- *The way into protected mode, the PIC, port access, the entries of interrupts and of
  `hrb_api`, the GDT's place in memory*: a matter of the machine; straight-line code.
- *Boxes, frames, the picture of the mouse, fonts*: pixels into a buffer of the caller,
  without state.
- *In tek5*: the byte of parameters, the probabilities that belong to each command, and what
  the context of a literal takes from its place and its neighbour. They select a probability
  in a table; with nothing in the repository that compresses, there is no second opinion on
  which one it should be.
- *The other applications*: any sequence of calls; their own memory manager (`hrb_api` 8 to 10)
  is `memory.c` again.
- *The commands mem and dir, the beeper*: they print, or program a port.
- *Calls that overlap*: two consoles, or a console and task A, in `task_alloc`, `sheet_updown`,
  `memman_alloc` at once. All of these are exposed (interrupts are enabled, and nothing
  locks); the modules take a call for one step and so say what the code guarantees when calls
  do not overlap. The same goes for a forced end in the middle of a call.
- *Lost closing messages and lost bytes of the keyboard and the mouse*: the code has no
  recovery, and `Fifo` has the loss.
- *Times near 2^32 ticks.*
- *Earlier versions and the tool chain* (a C compiler, assemblers, converters and their
  libraries), which are most of the repository's lines and not the system's.

## Plan

The order was: what everything depends on (FIFO, scheduler, timers, memory), then the
screen, then what ties them together (consoles), then the devices, the boot and the files, then
the loops that only work on data. Next:

1. *Overlapping calls.* A module for `memman_alloc` and `task_alloc` in two tasks, statement
   by statement, like `MtaskIrq`; `sheet_updown` by task A in the middle of a console's.
2. *Composition.* `Console` with `Mtask` and `Fifo` in one module, so that `open_constask`
   before `fifo32_init` (bootpack.c:378) and the lost closing message can be seen; `Console`
   with `Devices`, for the window that is dragged while it is closed.
3. *The limits above*: the timers of applications in `Timer`, with the calls that are legal in
   any order; key_win when no window is left, in `Console`.
