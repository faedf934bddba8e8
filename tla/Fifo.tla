-------------------------------- MODULE Fifo --------------------------------
(***************************************************************************)
(* fifo.c: the FIFO32 through which every interrupt handler, timer and     *)
(* task of Haribote OS sends its events, and the consumer's side of it:    *)
(* the event loops of HariMain and console_task test the FIFO with         *)
(* interrupts disabled and sleep when it is empty.                         *)
(*                                                                         *)
(* Every call is one atomic step here: an interrupt handler runs with      *)
(* interrupts disabled, and so does a consumer between io_cli and io_sti.  *)
(* FifoRace models the calls of fifo32_put that are not protected.         *)
(***************************************************************************)
EXTENDS Integers, Sequences

CONSTANTS Data,    \* the data that are sent
          size     \* the number of places in the buffer

ASSUME DataAssumption == Data \cap {-1, 0} = {}

\* fifo32_init is always given a constant size: 128 or 32.
ASSUME SizeAssumption == size \in Nat \ {0}

VARIABLES fifo,    \* struct FIFO32
          flags,   \* fifo->task->flags: 1 asleep, 2 running
          ret      \* what the last call returned

vars == <<fifo, flags, ret>>

FLAGS_OVERRUN == 1
Uninit == -1       \* a place of buf that was never written

-----------------------------------------------------------------------------
(* The functions of fifo.c: f is the structure a call works on. *)

fifo32_init ==
  [buf |-> [i \in 0..(size - 1) |-> Uninit],
   free |-> size, flags |-> 0, p |-> 0, q |-> 0]

\* p++ or q++, and back to 0 at the end of the buffer
Advance(i) == IF i + 1 = size THEN 0 ELSE i + 1

Full(f) == f.free = 0

Store(f, data) ==
  [f EXCEPT !.buf[f.p] = data, !.p = Advance(f.p), !.free = f.free - 1]

\* Mutant: a datum is refused without a trace.
RefusedUnmarked(f) == f

Overflowed(f) == [f EXCEPT !.flags = FLAGS_OVERRUN]

fifo32_status(f) == size - f.free

\* Mutant: the place is freed, but q stays.
FetchedAgain(f) == [f EXCEPT !.free = f.free + 1]

Fetched(f) == [f EXCEPT !.q = Advance(f.q), !.free = f.free + 1]

-----------------------------------------------------------------------------
Init ==
  /\ fifo = fifo32_init
  /\ flags = 2
  /\ ret = 0

\* Mutant: a sleeping owner is not woken.
PutSilently(data) ==
  \/ /\ Full(fifo)
     /\ fifo' = Overflowed(fifo)
     /\ ret' = -1
     /\ UNCHANGED flags
  \/ /\ ~Full(fifo)
     /\ fifo' = Store(fifo, data)
     /\ ret' = 0
     /\ UNCHANGED flags

\* An interrupt handler or another task sends data.  task_run makes a
\* sleeping owner run again.
fifo32_put(data) ==
  \/ /\ Full(fifo)
     /\ fifo' = Overflowed(fifo)
     /\ ret' = -1
     /\ UNCHANGED flags
  \/ /\ ~Full(fifo)
     /\ fifo' = Store(fifo, data)
     /\ flags' = IF flags # 2 THEN 2 ELSE flags
     /\ ret' = 0

\* The owner asks for a datum.  Most callers test fifo32_status first.
fifo32_get ==
  /\ flags = 2
  /\ \/ /\ fifo.free = size
        /\ ret' = -1
        /\ UNCHANGED fifo
     \/ /\ fifo.free # size
        /\ ret' = fifo.buf[fifo.q]
        /\ fifo' = Fetched(fifo)
  /\ UNCHANGED flags

\* Mutant: the test was made before io_cli, and something came in since.
SleepOnOldTest ==
  /\ flags = 2
  /\ flags' = 1
  /\ UNCHANGED <<fifo, ret>>

\* io_cli(); if (fifo32_status(&task->fifo) == 0) { task_sleep(task); ... }
SleepIfEmpty ==
  /\ flags = 2
  /\ fifo32_status(fifo) = 0
  /\ flags' = 1
  /\ UNCHANGED <<fifo, ret>>

Next == fifo32_get \/ SleepIfEmpty \/ \E data \in Data : fifo32_put(data)

\* The owner's loop goes on as long as it is not asleep, so what is in the
\* FIFO is eventually taken out.
Spec == Init /\ [][Next]_vars /\ WF_vars(fifo32_get)

-----------------------------------------------------------------------------
(* Properties *)

\* The fields of the structure stay in their ranges.
TypeOK ==
  /\ fifo \in [buf : [0..(size - 1) -> Data \cup {Uninit}],
               free : 0..size, flags : {0, FLAGS_OVERRUN},
               p : 0..(size - 1), q : 0..(size - 1)]
  /\ flags \in {1, 2}
  /\ ret \in Data \cup {-1, 0}

\* The place i places after q, going round the buffer
Place(i) == IF fifo.q + i < size THEN fifo.q + i ELSE fifo.q + i - size

\* The write position is as far ahead of the read position as there are data,
\* and every place between them holds something that was put there: free, p
\* and q are three counters that fifo32_put and fifo32_get update separately.
Ring ==
  /\ fifo.p = Place(fifo32_status(fifo))
  /\ \A i \in 0..(fifo32_status(fifo) - 1) : fifo.buf[Place(i)] \in Data

\* No wakeup is lost: the owner never sleeps on a FIFO that has data.
NoLostWakeup == flags = 1 => fifo32_status(fifo) = 0

\* fifo32_put and fifo32_get, called by interrupts and tasks in any order, leave
\* the three counters, the places and the owner's flag fitting each other.
FifoOK == TypeOK /\ Ring /\ NoLostWakeup

\* The data of the buffer, oldest first
Contents == [i \in 1..fifo32_status(fifo) |-> fifo.buf[Place(i - 1)]]

\* fifo.c implements the bounded queue.
Queue == INSTANCE BoundedQueue WITH
           Capacity <- size, Refused <- -1, Accepted <- 0,
           queue <- Contents, overrun <- fifo.flags = FLAGS_OVERRUN,
           asleep <- flags = 1

\* fifo.c implements the bounded queue.
ImplementsQueue == Queue!Spec

\* A full FIFO does not stay full: the owner of a FIFO that has data is
\* awake and takes them.
Drains == Full(fifo) ~> ~Full(fifo)
=============================================================================
