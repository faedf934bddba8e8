------------------------------- MODULE Mtask --------------------------------
(***************************************************************************)
(* mtask.c: the scheduler of Haribote OS.  Tasks live on levels; on each   *)
(* level the tasks that are running (ready) take turns, and only the       *)
(* highest level that has a running task gets the processor.  The timer    *)
(* interrupt calls task_switch when the slice of the current task is over; *)
(* fifo32_put calls task_run to wake the owner of a FIFO; a task that      *)
(* finds its FIFO empty calls task_sleep.                                  *)
(*                                                                         *)
(* A call of mtask.c is one step here.  That is what happens in the        *)
(* handlers and between io_cli and io_sti; the calls made with interrupts  *)
(* enabled are split into their statements in MtaskIrq.                    *)
(***************************************************************************)
EXTENDS Integers, FiniteSets

CONSTANTS MAX_TASKS,       \* struct TASK slots
          MAX_TASKS_LV,    \* places in the list of a level
          MAX_TASKLEVELS   \* levels

\* Task A, the idle task and a console; levels 0 (boot), 1 (task A),
\* 2 (consoles) and a last one for the idle task.
ASSUME MtaskAssumption ==
  /\ MAX_TASKS \in Nat /\ MAX_TASKS >= 3
  /\ MAX_TASKS_LV \in Nat /\ MAX_TASKS_LV >= 1
  /\ MAX_TASKLEVELS \in Nat /\ MAX_TASKLEVELS >= 4

Tasks == 0..(MAX_TASKS - 1)
Levels == 0..(MAX_TASKLEVELS - 1)
Places == 0..(MAX_TASKS_LV - 1)
NoTask == MAX_TASKS        \* a place of a list that was never written

task_a == 0                \* the first task that task_init allocates
idle == 1                  \* the second one
Consoles == Tasks \ {task_a, idle}
ConsoleLevel == 2          \* open_constask runs a console there

Free == 0                  \* task->flags
Sleeping == 1
Running == 2

VARIABLES taskctl,         \* struct TASKCTL
          cpu,             \* the task whose context the processor has
          slice,           \* timer interrupts until task_timer times out
          boot             \* how far HariMain has got with its tasks

vars == <<taskctl, cpu, slice, boot>>

-----------------------------------------------------------------------------
(* The functions of mtask.c: tc is the struct TASKCTL a call works on.      *)

task_now(tc) == LET tl == tc.level[tc.now_lv] IN tl.tasks[tl.now]

task_add(tc, task) ==
  LET lv == tc.tasks0[task].level
      n == tc.level[lv].running
  IN  [tc EXCEPT !.level[lv].tasks[n] = task,
                 !.level[lv].running = n + 1,
                 !.tasks0[task].flags = Running]

\* Where the task is in the list, or the end of the list
Position(tl, task) ==
  CHOOSE i \in 0..tl.running :
    /\ i = tl.running \/ tl.tasks[i] = task
    /\ \A j \in 0..(i - 1) : tl.tasks[j] # task

\* Mutant: the entries behind place i stay where they are.
WithGap(tl, i) == tl.tasks

\* The entries behind place i move up.
Closed(tl, i) ==
  [j \in Places |-> IF i <= j /\ j < tl.running - 1 THEN tl.tasks[j + 1]
                                                    ELSE tl.tasks[j]]

\* now moves along with the task it points at, and stays inside the list.
NowAfter(tl, i) ==
  LET m == IF i < tl.now THEN tl.now - 1 ELSE tl.now
  IN  IF m >= tl.running - 1 THEN 0 ELSE m

\* The level's list without its place i
Without(tl, i) ==
  [running |-> tl.running - 1, now |-> NowAfter(tl, i), tasks |-> Closed(tl, i)]

task_remove(tc, task) ==
  LET lv == tc.tasks0[task].level
  IN  [tc EXCEPT !.level[lv] = Without(@, Position(@, task)),
                 !.tasks0[task].flags = Sleeping]

\* Mutant: only the levels from the current one on are looked at.
TopFromHere(tc) ==
  CHOOSE l \in tc.now_lv..(MAX_TASKLEVELS - 1) :
    /\ tc.level[l].running > 0
    /\ \A m \in tc.now_lv..(l - 1) : tc.level[m].running <= 0

\* The highest level with a running task
TopLevel(tc) ==
  CHOOSE l \in Levels : /\ tc.level[l].running > 0
                        /\ \A m \in 0..(l - 1) : tc.level[m].running <= 0

task_switchsub(tc) == [tc EXCEPT !.now_lv = TopLevel(tc), !.lv_change = 0]

\* Mutant: a task that runs is put on the list once more.
NeedsPlaceAlways(tc, task) == TRUE

NeedsPlace(tc, task) == tc.tasks0[task].flags # Running

\* The next task switch must look for the highest level.
Announce(tc) == [tc EXCEPT !.lv_change = 1]

\* task_run: level < 0 and priority <= 0 leave the task's own
task_run(tc, task, level, priority) ==
  LET lv == IF level < 0 THEN tc.tasks0[task].level ELSE level
      a == IF priority > 0
             THEN [tc EXCEPT !.tasks0[task].priority = priority] ELSE tc
      b == IF a.tasks0[task].flags = Running /\ a.tasks0[task].level # lv
             THEN task_remove(a, task) ELSE a
      c == IF NeedsPlace(b, task)
             THEN task_add([b EXCEPT !.tasks0[task].level = lv], task) ELSE b
  IN  Announce(c)

\* Mutant: a task that sleeps does not look for another level.
SleepInPlace(tc, task) == task_remove(tc, task)

\* task_sleep of a task that runs: of itself, and of another task
SleepSelf(tc, task) == task_switchsub(task_remove(tc, task))
SleepOther(tc, task) ==
  IF tc.tasks0[task].flags = Running THEN task_remove(tc, task) ELSE tc

\* Mutant: the last task of a list is taken for its end.
NextPlaceShort(tl) == IF tl.now + 2 >= tl.running THEN 0 ELSE tl.now + 1

NextPlace(tl) == IF tl.now + 1 = tl.running THEN 0 ELSE tl.now + 1

\* task_switch up to the choice of the new task
NextTurn(tc) ==
  LET t == [tc EXCEPT !.level[tc.now_lv].now = NextPlace(tc.level[tc.now_lv])]
  IN  IF t.lv_change # 0 THEN task_switchsub(t) ELSE t

\* task_alloc takes the first free slot.
FirstFree(tc) ==
  CHOOSE t \in Tasks : /\ tc.tasks0[t].flags = Free
                       /\ \A u \in 0..(t - 1) : tc.tasks0[u].flags # Free

-----------------------------------------------------------------------------
(* After line 102 of task_init: task A is alone, on the highest level, and  *)
(* task_timer is set.                                                       *)
Init ==
  /\ taskctl =
       [now_lv |-> 0, lv_change |-> 0,
        level |-> [l \in Levels |->
          [running |-> IF l = 0 THEN 1 ELSE 0, now |-> 0,
           tasks |-> [i \in Places |->
                        IF l = 0 /\ i = 0 THEN task_a ELSE NoTask]]],
        tasks0 |-> [t \in Tasks |->
          [flags |-> IF t = task_a THEN Running ELSE Free, level |-> 0,
           priority |-> IF t = task_a THEN 2 ELSE 0]]]
  /\ cpu = task_a
  /\ slice = 2
  /\ boot = "idle"

\* The rest of task_init
RunIdle ==
  /\ boot = "idle"
  /\ cpu = task_a
  /\ taskctl' = task_run(taskctl, idle, MAX_TASKLEVELS - 1, 1)
  /\ boot' = "task_a"
  /\ UNCHANGED <<cpu, slice>>

\* HariMain gives up the highest level.
RunTaskA ==
  /\ boot = "task_a"
  /\ cpu = task_a
  /\ taskctl' = task_run(taskctl, task_a, 1, 2)
  /\ boot' = "up"
  /\ UNCHANGED <<cpu, slice>>

\* Task A or a console opens a console: task_alloc, then task_run.
open_constask ==
  /\ boot = "up"
  /\ cpu # idle
  /\ \E t \in Tasks : taskctl.tasks0[t].flags = Free
  /\ taskctl' = task_run(taskctl, FirstFree(taskctl), ConsoleLevel, 2)
  /\ UNCHANGED <<cpu, slice, boot>>

\* fifo32_put into the FIFO of a task, by a handler or another task
Wake(task) ==
  /\ boot = "up"
  /\ taskctl.tasks0[task].flags = Sleeping
  /\ taskctl' = task_run(taskctl, task, -1, 0)
  /\ UNCHANGED <<cpu, slice, boot>>

\* Shift+F1 and the close button of an application's window call task_run
\* whether the task sleeps or not.
Break(task) ==
  /\ boot = "up"
  /\ cpu = task_a
  /\ task \in Consoles
  /\ taskctl.tasks0[task].flags # Free
  /\ taskctl' = task_run(taskctl, task, -1, 0)
  /\ UNCHANGED <<cpu, slice, boot>>

\* The current task finds its FIFO empty.
SleepCurrent ==
  /\ boot = "up"
  /\ cpu # idle
  /\ taskctl' = SleepSelf(taskctl, cpu)
  /\ cpu' = task_now(taskctl')
  /\ UNCHANGED <<slice, boot>>

\* Task A closes a console that has told it to, and that may or may not have
\* fallen asleep since: task_sleep, and the slot is free again.
close_constask(task) ==
  /\ boot = "up"
  /\ cpu = task_a
  /\ task \in Consoles
  /\ taskctl.tasks0[task].flags # Free
  /\ taskctl' = [SleepOther(taskctl, task) EXCEPT !.tasks0[task].flags = Free]
  /\ UNCHANGED <<cpu, slice, boot>>

\* A timer interrupt within the slice
Tick ==
  /\ slice > 1
  /\ slice' = slice - 1
  /\ UNCHANGED <<taskctl, cpu, boot>>

\* The timer interrupt at which task_timer times out: farjmp, if the new task is
\* not the one that now_task was
task_switch ==
  LET new == task_now(NextTurn(taskctl))
  IN  /\ slice = 1
      /\ taskctl' = NextTurn(taskctl)
      /\ cpu' = IF new # task_now(taskctl) THEN new ELSE cpu
      /\ slice' = taskctl.tasks0[new].priority
      /\ UNCHANGED boot

Step ==
  \/ RunIdle \/ RunTaskA \/ open_constask \/ SleepCurrent \/ Tick \/ task_switch
  \/ \E task \in Tasks : Wake(task) \/ Break(task) \/ close_constask(task)

\* MAX_TASKS is "the maximal number of tasks" (bootpack.h:199) and `running' "the
\* number of running tasks" (bootpack.h:223): the list of a level has room for the
\* tasks that run on it.
RoomForAll == \A l \in Levels : taskctl.level[l].running <= MAX_TASKS_LV

\* task_add has no test for the end of a list.  A task that it writes behind it
\* overwrites `running' of the next level: what comes then is not followed.
Overrun == ~RoomForAll /\ UNCHANGED vars

Next == (RoomForAll /\ Step) \/ Overrun

\* The PIT goes on ticking, and HariMain goes on booting.
Fairness ==
  /\ WF_vars(RoomForAll /\ Tick) /\ WF_vars(RoomForAll /\ task_switch)
  /\ WF_vars(RoomForAll /\ RunIdle) /\ WF_vars(RoomForAll /\ RunTaskA)

Spec == Init /\ [][Next]_vars /\ Fairness

-----------------------------------------------------------------------------
(* Properties *)

State(t) == taskctl.tasks0[t].flags
Listed(l) == {taskctl.level[l].tasks[i] : i \in 0..(taskctl.level[l].running - 1)}

\* struct TASKCTL has its type: no place beyond a list is named.
TypeOK ==
  /\ taskctl.now_lv \in Levels
  /\ taskctl.lv_change \in {0, 1}
  /\ taskctl.level \in [Levels -> [running : 0..MAX_TASKS_LV, now : Places \cup {1},
                                   tasks : [Places -> Tasks \cup {NoTask}]]]
  /\ taskctl.tasks0 \in [Tasks -> [flags : {Free, Sleeping, Running},
                                   level : Levels, priority : 0..2]]
  /\ cpu \in Tasks
  /\ slice \in 1..2
  /\ boot \in {"idle", "task_a", "up"}

\* The lists hold exactly the running tasks: each once, on its own level.  A
\* task that is lost from its list never runs again; one that is listed twice,
\* or left behind after close_constask, runs on a freed stack.
ListsExact ==
  /\ \A l \in Levels : Listed(l) = {t \in Tasks : State(t) = Running
                                                  /\ taskctl.tasks0[t].level = l}
  /\ \A l \in Levels : \A i, j \in 0..(taskctl.level[l].running - 1) :
       taskctl.level[l].tasks[i] = taskctl.level[l].tasks[j] => i = j

\* task_now() is the task that executes: console_task and hrb_api find out
\* who they are with it.  It holds on the emptied level 0 of the boot too,
\* where the place it reads is a leftover.
NowIsCurrent == task_now(taskctl) = cpu /\ State(cpu) = Running

\* Each level that has tasks points at one of them, however the list was
\* shortened while the level was not the current one.
NowInList ==
  \A l \in Levels : taskctl.level[l].running > 0
                      => taskctl.level[l].now < taskctl.level[l].running

\* Unless a level change is pending, the current level is the highest one
\* that has a running task, so the idle task has the processor only when
\* nobody else wants it.
HighestLevelRuns ==
  taskctl.lv_change = 0 =>
    \A t \in Tasks : State(t) = Running
                       => taskctl.tasks0[t].level >= taskctl.tasks0[cpu].level

\* task_run, task_sleep and task_switch, from interrupts and from tasks, for
\* others and for themselves, leave the lists, the places they point at and the
\* tasks' own flags and levels fitting each other, until a list is overrun.
ListsOK == RoomForAll => TypeOK /\ ListsExact /\ NowInList

\* The task that executes is the one that the lists say, and the one that should,
\* until a list is overrun.
RightTask == RoomForAll => NowIsCurrent /\ HighestLevelRuns

\* Once the keyboard and the mouse leave task A asleep, every console that
\* wants the processor gets it, whatever the other consoles do, if no list is
\* overrun.
ConsolesServed ==
  []RoomForAll /\ <>[](State(task_a) = Sleeping) =>
    \A c \in Consoles : State(c) = Running ~> (cpu = c \/ State(c) # Running)
=============================================================================
