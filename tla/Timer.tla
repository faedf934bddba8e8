------------------------------- MODULE Timer --------------------------------
(***************************************************************************)
(* timer.c: the running timers are a linked list ordered by timeout, which *)
(* always ends with a sentinel; the timer interrupt compares the counter   *)
(* with timerctl.next only, and takes from the front of the list what has  *)
(* timed out.  One of the timers, task_timer, belongs to the scheduler: it *)
(* sends nothing, and task_switch sets it again in the same interrupt.     *)
(*                                                                         *)
(* timer_settime, timer_cancel and timer_cancelall work on the list with   *)
(* interrupts disabled, so each call is one step.                          *)
(***************************************************************************)
EXTENDS Integers, FiniteSets, Sequences, FiniteSetsExt

CONSTANTS MAX_TIMER,   \* struct TIMER slots
          Fifos,       \* the FIFOs a timer may send to
          Radix,       \* an unsigned int is less: 2^32
          Delays,      \* what timer_settime is called with
          Priorities,  \* the priorities of the tasks: what task_timer is set to
          MaxCount     \* bound: the interrupts that a behaviour has

ASSUME TimerAssumption ==
  /\ MAX_TIMER \in Nat /\ MAX_TIMER >= 3 /\ Radix \in Nat /\ MaxCount \in Nat
  /\ Delays \subseteq Nat /\ Priorities \subseteq Nat \ {0}
  \* no deadline of the model reaches the time of the sentinel
  /\ \A d \in Delays \cup Priorities : MaxCount + d < Radix - 1

VARIABLES timerctl,    \* struct TIMERCTL
          sent         \* the timers that sent their data in the last step

vars == <<timerctl, sent>>

Slots == 0..(MAX_TIMER - 1)
NULL == MAX_TIMER        \* no timer
sentinel == 0            \* the first slot: init_pit takes it
task_timer == 1          \* the second one: task_init takes it
Sentinel == Radix - 1    \* 0xffffffff
NoFifo == "none"         \* the field fifo was never written

TIMER_FLAGS_ALLOC == 1
TIMER_FLAGS_USING == 2

-----------------------------------------------------------------------------
(* The functions of timer.c: tc is the struct TIMERCTL a call works on. *)

\* The timers from t0 on, in the order of the links
Walk(tc) ==
  LET w[i \in 0..MAX_TIMER] ==
        IF i = 0 THEN tc.t0
        ELSE IF w[i - 1] = NULL THEN NULL ELSE tc.timers0[w[i - 1]].next
  IN  w

\* The first position of the list that has one of these timers
FirstOnList(tc, timers) == Min({i \in 0..MAX_TIMER : Walk(tc)[i] \in timers})

Deadline(tc, timeout) == (timeout + tc.count) % Radix

\* Mutant: timerctl.next is not brought forward.
LinkUnannounced(tc, timer) ==
  [tc EXCEPT !.t0 = timer, !.timers0[timer].next = tc.t0]

\* The timer becomes the first of the list.
LinkFirst(tc, timer) ==
  [tc EXCEPT !.t0 = timer, !.timers0[timer].next = tc.t0,
             !.next = tc.timers0[timer].timeout]

\* The timer goes between two others.
LinkBetween(tc, s, timer, t) ==
  [[tc EXCEPT !.timers0[s].next = timer] EXCEPT !.timers0[timer].next = t]

timer_settime(tc, timer, timeout) ==
  LET a == [tc EXCEPT !.timers0[timer].timeout = Deadline(tc, timeout),
                      !.timers0[timer].flags = TIMER_FLAGS_USING]
      Later == {t \in Slots : Deadline(tc, timeout) <= a.timers0[t].timeout}
      k == FirstOnList(a, Later)
  IN  IF k = 0 THEN LinkFirst(a, timer)
      ELSE LinkBetween(a, Walk(a)[k - 1], timer, Walk(a)[k])

timer_cancel(tc, timer) ==
  LET t == tc.timers0[timer].next
      Before == {s \in Slots : tc.timers0[s].next = timer}
      s == Walk(tc)[FirstOnList(tc, Before)]
      unlinked == IF timer = tc.t0
                    THEN [tc EXCEPT !.t0 = t, !.next = tc.timers0[t].timeout]
                    ELSE [tc EXCEPT !.timers0[s].next = t]
  IN  IF tc.timers0[timer].flags # TIMER_FLAGS_USING THEN tc
      ELSE [unlinked EXCEPT !.timers0[timer].flags = TIMER_FLAGS_ALLOC]

timer_free(tc, timer) == [tc EXCEPT !.timers0[timer].flags = 0]

timer_cancelall(tc, fifo) ==
  LET Mine(tm) == tm.flags # 0 /\ tm.flags2 # 0 /\ tm.fifo = fifo
      upto[i \in 0..MAX_TIMER] ==
        IF i = 0 THEN tc
        ELSE LET u == upto[i - 1]
             IN  IF Mine(u.timers0[i - 1])
                   THEN timer_free(timer_cancel(u, i - 1), i - 1) ELSE u
  IN  upto[MAX_TIMER]

\* Mutant: the timers that have timed out keep their flags.
TimedOutStillUsing(tc, k) ==
  LET w == Walk(tc)
  IN  [tc EXCEPT !.t0 = w[k], !.next = tc.timers0[w[k]].timeout]

\* The list as inthandler20 leaves it: the first k timers have timed out.
TimedOut(tc, k) ==
  LET w == Walk(tc)
      gone == {w[i] : i \in 0..(k - 1)}
  IN  [tc EXCEPT !.t0 = w[k], !.next = tc.timers0[w[k]].timeout,
        !.timers0 = [t \in Slots |-> IF t \in gone
                       THEN [tc.timers0[t] EXCEPT !.flags = TIMER_FLAGS_ALLOC]
                       ELSE tc.timers0[t]]]

-----------------------------------------------------------------------------
(* init_pit, and the two lines of task_init that start task_timer *)
Init ==
  \E priority \in Priorities :
    /\ timerctl = timer_settime(
         [count |-> 0, next |-> Sentinel, t0 |-> sentinel,
          timers0 |-> [t \in Slots |->
            [next |-> NULL, timeout |-> IF t = sentinel THEN Sentinel ELSE 0,
             flags |-> IF t = sentinel THEN TIMER_FLAGS_USING
                       ELSE IF t = task_timer THEN TIMER_FLAGS_ALLOC ELSE 0,
             flags2 |-> 0, fifo |-> NoFifo]]],
         task_timer, priority)
    /\ sent = <<>>

Timers0(t) == timerctl.timers0[t]
Unused == {t \in Slots : Timers0(t).flags = 0}
UserTimers == Slots \ {sentinel, task_timer}

\* timer_alloc and timer_init: by a console, or by an application (flags2 = 1)
timer_alloc(fifo, flags2) ==
  /\ Unused # {}
  /\ timerctl' = [timerctl EXCEPT !.timers0[Min(Unused)] =
                    [@ EXCEPT !.flags = TIMER_FLAGS_ALLOC, !.flags2 = flags2,
                              !.fifo = fifo]]
  /\ sent' = <<>>

\* The kernel sets a timer only when it is not running.
SetTime(timer, timeout) ==
  /\ Timers0(timer).flags = TIMER_FLAGS_ALLOC
  /\ timerctl' = timer_settime(timerctl, timer, timeout)
  /\ sent' = <<>>

\* A console cancels its cursor timer, running or not.
Cancel(timer) ==
  /\ Timers0(timer).flags # 0
  /\ timerctl' = timer_cancel(timerctl, timer)
  /\ sent' = <<>>

CancelAll(fifo) ==
  /\ timerctl' = timer_cancelall(timerctl, fifo)
  /\ sent' = <<>>

\* An application gives a timer back when it is not running.
FreeTimer(timer) ==
  /\ Timers0(timer).flags = TIMER_FLAGS_ALLOC
  /\ timerctl' = timer_free(timerctl, timer)
  /\ sent' = <<>>

\* Mutant: a timer whose time is now has to wait.
IsLateOver(tc, t) == tc.timers0[t].timeout < tc.count

IsLate(tc, t) == tc.timers0[t].timeout <= tc.count

\* Is it time for task_switch?
Switches(late) == \E i \in DOMAIN late : late[i] = task_timer

inthandler20 ==
  LET tc == [timerctl EXCEPT !.count = (@ + 1) % Radix]
      k == FirstOnList(tc, {t \in Slots : ~IsLate(tc, t)})
      late == [i \in 1..k |-> Walk(tc)[i - 1]]
  IN  /\ timerctl.count < MaxCount
      /\ \/ /\ tc.next > tc.count
            /\ timerctl' = tc
            /\ sent' = <<>>
         \/ /\ tc.next <= tc.count
            /\ sent' = late
            /\ \/ /\ Switches(late)
                  /\ \E priority \in Priorities :
                       timerctl' = timer_settime(TimedOut(tc, k), task_timer, priority)
               \/ /\ ~Switches(late)
                  /\ timerctl' = TimedOut(tc, k)

Next ==
  \/ inthandler20
  \/ \E fifo \in Fifos : CancelAll(fifo) \/ \E f2 \in {0, 1} : timer_alloc(fifo, f2)
  \/ \E timer \in UserTimers : \/ Cancel(timer) \/ FreeTimer(timer)
                               \/ \E timeout \in Delays : SetTime(timer, timeout)

Spec == Init /\ [][Next]_vars

-----------------------------------------------------------------------------
(* Properties *)

OnList == {Walk(timerctl)[i] : i \in 0..MAX_TIMER} \ {NULL}
TimeOf(i) == Timers0(Walk(timerctl)[i]).timeout

\* The list is in order, ends with the sentinel, and timerctl.next is the time
\* of its first timer: inthandler20 looks at nothing else on most ticks.
ListInOrder ==
  \E n \in 0..(MAX_TIMER - 1) :
    /\ Walk(timerctl)[n] = sentinel
    /\ Timers0(sentinel).next = NULL
    /\ timerctl.next = TimeOf(0)
    /\ \A i \in 0..(n - 1) : TimeOf(i) <= TimeOf(i + 1)

\* The timers on the list are exactly the ones that are running ("the timers
\* of timers are all running ones, so flags is not looked at", timer.c:101).
ListIsRunning == OnList = {t \in Slots : Timers0(t).flags = TIMER_FLAGS_USING}

\* Whatever is set, cancelled and fires in between, the list is one that the
\* interrupt can rely on, and whose timers the other calls can find.
ListOK == ListInOrder /\ ListIsRunning

\* timer.c implements an alarm clock.
Clock == INSTANCE AlarmClock WITH
  Timers <- Slots \ {sentinel}, Metronome <- task_timer,
  Delays <- Delays, Beats <- Priorities, Off <- -1,
  now <- timerctl.count, rung <- sent,
  deadline <- [t \in Slots \ {sentinel} |->
                 IF Timers0(t).flags = TIMER_FLAGS_USING THEN Timers0(t).timeout ELSE -1]

\* Every timer fires on its tick, once, and the scheduler's is always set.
ImplementsClock == Clock!Spec
=============================================================================
