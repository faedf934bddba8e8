------------------------------ MODULE FifoRace -------------------------------
(***************************************************************************)
(* Calls of fifo32_put with interrupts enabled: task A sends characters and *)
(* cursor messages to a console (bootpack.c), a console sends the command   *)
(* line to the console that it started (console.c).  The timer interrupt    *)
(* puts the console's own cursor message into the same FIFO, and it can     *)
(* come between any two statements of the call.                             *)
(***************************************************************************)
EXTENDS Fifo

VARIABLES at,              \* where the interruptible call is
          sending          \* its argument

raceVars == <<fifo, flags, ret, at, sending>>

RaceInit == Init /\ at = "out" /\ sending = Uninit

\* A statement of the call changes the structure to f.
Statement(from, to, f) ==
  /\ at = from
  /\ fifo' = f
  /\ at' = to
  /\ UNCHANGED <<flags, ret, sending>>

\* if (fifo->free == 0) ...
Call(data) ==
  /\ at = "out"
  /\ \/ Full(fifo) /\ fifo' = Overflowed(fifo) /\ UNCHANGED at
     \/ ~Full(fifo) /\ at' = "write" /\ UNCHANGED fifo
  /\ sending' = data
  /\ UNCHANGED <<flags, ret>>

\* fifo->buf[fifo->p] = data;  (beyond the buffer it is not seen any more)
WritePlace ==
  Statement("write", "advance", [fifo EXCEPT !.buf = [i \in DOMAIN @ |->
                                   IF i = fifo.p THEN sending ELSE @[i]]])

\* fifo->p++;
IncreaseP == Statement("advance", "wrap", [fifo EXCEPT !.p = @ + 1])

\* if (fifo->p == fifo->size) { fifo->p = 0; }
WrapP == Statement("wrap", "count", [fifo EXCEPT !.p = IF @ = size THEN 0 ELSE @])

\* fifo->free--;
DecreaseFree == Statement("count", "wake", [fifo EXCEPT !.free = @ - 1])

\* The owner is woken if it sleeps; its wakeup is a matter of mtask.c.
WakeOwner ==
  /\ at = "wake"
  /\ flags' = 2
  /\ at' = "out"
  /\ UNCHANGED <<fifo, ret, sending>>

\* The owner of the FIFO runs only when the caller does not.
RaceNext ==
  \/ at = "out" /\ (fifo32_get \/ SleepIfEmpty) /\ UNCHANGED <<at, sending>>
  \/ \E data \in Data : fifo32_put(data) /\ UNCHANGED <<at, sending>>
  \/ \E data \in Data : Call(data)
  \/ WritePlace \/ IncreaseP \/ WrapP \/ DecreaseFree \/ WakeOwner

RaceSpec == RaceInit /\ [][RaceNext]_raceVars

-----------------------------------------------------------------------------
\* "send data to the FIFO and store it" (fifo.c:21): when the call is over,
\* what the FIFO counts as data has been sent by somebody.
Stored == at = "out" => \A i \in 0..(fifo32_status(fifo) - 1) : fifo.buf[Place(i)] \in Data
=============================================================================
