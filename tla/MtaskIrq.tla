------------------------------ MODULE MtaskIrq ------------------------------
(***************************************************************************)
(* The calls of mtask.c that are made with interrupts enabled: cmd_exit,   *)
(* where a console puts itself to sleep for good, calls task_sleep after   *)
(* io_sti.  Here that call is made statement by statement, and between any *)
(* two of them the timer interrupt may wake another console or switch to   *)
(* it, which is then in the middle of the list that task_remove changes.   *)
(***************************************************************************)
EXTENDS Mtask

VARIABLES frames           \* where each task is in task_sleep, and its local i

irqVars == <<taskctl, cpu, slice, boot, frames>>

ListOf(t) == taskctl.level[taskctl.tasks0[t].level]

IrqInit == Init /\ frames = [t \in Tasks |-> [at |-> "out", i |-> 0]]

At(t, where) == cpu = t /\ frames[t].at = where

\* A statement of task_remove changes the list of the task's level.
Statement(t, from, to, tl) ==
  /\ At(t, from)
  /\ taskctl' = [taskctl EXCEPT !.level[taskctl.tasks0[t].level] = tl]
  /\ frames' = [frames EXCEPT ![t].at = to]
  /\ UNCHANGED <<cpu, slice, boot>>

\* The tests of task_sleep, and the search of task_remove
Search(t) ==
  /\ boot = "up" /\ t \in Consoles
  /\ At(t, "out")
  /\ State(t) = Running
  /\ frames' = [frames EXCEPT ![t] = [at |-> "count", i |-> Position(ListOf(t), t)]]
  /\ UNCHANGED vars

\* tl->running--;
Count(t) == Statement(t, "count", "move", [ListOf(t) EXCEPT !.running = @ - 1])

\* if (i < tl->now) { tl->now--; }
Move(t) ==
  Statement(t, "move", "wrap",
            [ListOf(t) EXCEPT !.now = IF frames[t].i < @ THEN @ - 1 ELSE @])

\* if (tl->now >= tl->running) { tl->now = 0; }
Wrap(t) ==
  Statement(t, "wrap", "flag",
            [ListOf(t) EXCEPT !.now = IF @ >= ListOf(t).running THEN 0 ELSE @])

\* task->flags = 1;
Flag(t) ==
  /\ At(t, "flag")
  /\ taskctl' = [taskctl EXCEPT !.tasks0[t].flags = Sleeping]
  /\ frames' = [frames EXCEPT ![t].at = "shift"]
  /\ UNCHANGED <<cpu, slice, boot>>

\* One turn of the last loop
ShiftOne(t) ==
  LET i == frames[t].i
  IN  /\ At(t, "shift")
      /\ i < ListOf(t).running
      /\ taskctl' = [taskctl EXCEPT
           !.level[taskctl.tasks0[t].level].tasks[i] = ListOf(t).tasks[i + 1]]
      /\ frames' = [frames EXCEPT ![t].i = i + 1]
      /\ UNCHANGED <<cpu, slice, boot>>

\* task_switchsub, task_now and farjmp; when the task comes back, it is out.
SwitchAway(t) ==
  /\ At(t, "shift")
  /\ frames[t].i >= ListOf(t).running
  /\ taskctl' = task_switchsub(taskctl)
  /\ cpu' = task_now(taskctl')
  /\ frames' = [frames EXCEPT ![t].at = "out"]
  /\ UNCHANGED <<slice, boot>>

\* What runs with interrupts disabled, in handlers or between io_cli and io_sti
\* (a task_switch that finds an empty place is left out: it reads a priority there).
Handler ==
  \/ RunIdle \/ RunTaskA \/ Tick
  \/ task_now(NextTurn(taskctl)) # NoTask /\ task_switch
  \/ \E t \in Tasks : Wake(t)

IrqNext ==
  /\ cpu # NoTask         \* nothing is known of what runs after a wild jump
  /\ \/ Handler /\ UNCHANGED frames
     \/ /\ frames[cpu].at = "out"
        /\ open_constask \/ SleepCurrent
        /\ UNCHANGED frames
     \/ \E t \in Tasks : \/ Search(t) \/ Count(t) \/ Move(t) \/ Wrap(t) \/ Flag(t)
                         \/ ShiftOne(t) \/ SwitchAway(t)

IrqSpec == IrqInit /\ [][IrqNext]_irqVars

-----------------------------------------------------------------------------
\* "int now; the variable that tells which task is the running one"
\* (bootpack.h:224): a task that is not in the middle of task_sleep is the one
\* that task_now finds.
NowKnowsTask ==
  /\ cpu # NoTask
  /\ frames[cpu].at = "out" => task_now(taskctl) = cpu
=============================================================================
