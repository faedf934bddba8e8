----------------------------- MODULE MtaskProofs -----------------------------
(***************************************************************************)
(* Proofs about mtask.c, for any number of tasks and levels: the lists of  *)
(* the levels hold exactly the running tasks, each once, and task_now() is *)
(* the task that executes.  That holds until a list is overrun: the code   *)
(* reserves 1000 tasks, but 100 places in the list of a level.             *)
(***************************************************************************)
EXTENDS Mtask, Least

LevelType == [running : 0..MAX_TASKS_LV, now : Places \cup {1},
              tasks : [Places -> Tasks \cup {NoTask}]]
TaskType == [flags : {Free, Sleeping, Running}, level : Levels, priority : 0..2]
CtlType == [now_lv : Levels, lv_change : {0, 1}, level : [Levels -> LevelType],
            tasks0 : [Tasks -> TaskType]]

\* tl holds the tasks of S, each of them once, and points at one of them.
Lists(tl, S) ==
  /\ tl \in LevelType
  /\ S \subseteq Tasks
  /\ S = {tl.tasks[i] : i \in 0..(tl.running - 1)}
  /\ \A i, j \in 0..(tl.running - 1) : tl.tasks[i] = tl.tasks[j] => i = j
  /\ tl.running > 0 => tl.now < tl.running

Runners(tc, l) ==
  {t \in Tasks : tc.tasks0[t].flags = Running /\ tc.tasks0[t].level = l}

\* The task at which a level points
Pointed(tl) == tl.tasks[tl.now]

\* An empty list points at its first place, so that the task that is added to
\* it is pointed at.  Level 0 is left for good when HariMain leaves it, and its
\* pointer does move.
EmptyAtStart(tl) == tl.running = 0 => tl.now = 0

Consistent(tc) ==
  /\ tc \in CtlType
  /\ \A l \in Levels : Lists(tc.level[l], Runners(tc, l))
  /\ \A l \in Levels \ {0} : EmptyAtStart(tc.level[l])

\* The sets of the model are sets of natural numbers.
LEMMA Sets ==
  /\ MAX_TASKS \in Nat /\ MAX_TASKS_LV \in Nat /\ MAX_TASKLEVELS \in Nat
  /\ Tasks \subseteq Nat /\ Levels \subseteq Nat /\ Places \subseteq Nat
  /\ NoTask \notin Tasks
  /\ 0 \in Places /\ {0, 1, 2, MAX_TASKLEVELS - 1} \subseteq Levels
  /\ task_a \in Tasks /\ idle \in Tasks
BY MtaskAssumption DEF Tasks, Levels, Places, NoTask, task_a, idle

-----------------------------------------------------------------------------
(* The list of one level *)

\* The fields of a consistent list have their types.
LEMMA ListFields ==
  ASSUME NEW tl, NEW S, Lists(tl, S)
  PROVE  /\ tl.running \in Nat /\ tl.running <= MAX_TASKS_LV
         /\ tl.now \in Nat
         /\ tl.tasks \in [Places -> Tasks \cup {NoTask}]
<1>1. tl.running \in 0..MAX_TASKS_LV /\ tl.now \in Places \cup {1}
      /\ tl.tasks \in [Places -> Tasks \cup {NoTask}]
  BY DEF Lists, LevelType
<1>2. tl.running \in Nat /\ tl.running <= MAX_TASKS_LV
  BY <1>1, Sets
<1>3. tl.now \in Nat
  <2>1. \A x \in Places \cup {1} : x \in Nat BY Sets
  <2> QED BY <1>1, <2>1
<1> QED BY <1>1, <1>2, <1>3

(* What task_add makes of the list of a level                               *)
Grown(tl, task) ==
  [tl EXCEPT !.tasks[tl.running] = task, !.running = tl.running + 1]

Added(u, tl, S, task) ==
  /\ Lists(u, S \cup {task})
  /\ tl.running > 0 => Pointed(u) = Pointed(tl)
  /\ u.running = tl.running + 1

\* A task that is added becomes the last of its list.
LEMMA AddLists ==
  ASSUME NEW tl, NEW S, Lists(tl, S), NEW task \in Tasks \ S,
         EmptyAtStart(tl), tl.running < MAX_TASKS_LV
  PROVE  Added(Grown(tl, task), tl, S, task)
<1> PICK u : u = Grown(tl, task) OBVIOUS
<1> SUFFICES Added(u, tl, S, task) OBVIOUS
<1> PICK n : n = tl.running OBVIOUS
<1>1. n \in Places /\ n \in Nat
  BY ListFields, Sets DEF Places
<1>2. /\ tl \in LevelType /\ n + 1 \in 0..MAX_TASKS_LV
      /\ tl.tasks \in [Places -> Tasks \cup {NoTask}]
      /\ tl.now \in Nat
  BY <1>1, Sets DEF Lists, LevelType, Places
<1>3. /\ u \in LevelType /\ u.running = n + 1 /\ u.now = tl.now
      /\ \A i \in Places : u.tasks[i] = IF i = n THEN task ELSE tl.tasks[i]
  BY <1>1, <1>2 DEF LevelType, Grown
<1>4. \A i \in 0..n : i \in Places
  BY <1>1, Sets DEF Places
<1>5. \A i \in 0..n : u.tasks[i] = IF i = n THEN task ELSE tl.tasks[i]
  BY <1>3, <1>4
<1>6. S \cup {task} = {u.tasks[i] : i \in 0..(u.running - 1)}
  <2>1. S = {tl.tasks[i] : i \in 0..(n - 1)} BY DEF Lists
  <2>2. u.running - 1 = n BY <1>1, <1>3
  <2>3. 0..n = (0..(n - 1)) \cup {n} /\ n \notin 0..(n - 1) BY <1>1
  <2> QED BY <1>5, <2>1, <2>2, <2>3
<1>7. ASSUME NEW i \in 0..n, NEW j \in 0..n, u.tasks[i] = u.tasks[j]
      PROVE  i = j
  <2>1. \A k \in 0..n : k # n => tl.tasks[k] \in S /\ k \in 0..(n - 1)
    BY <1>1 DEF Lists
  <2> QED BY <1>1, <1>5, <1>7, <2>1 DEF Lists
<1>8. n > 0 => tl.now < n
  BY DEF Lists
<1>9. u.running > 0 => u.now < u.running
  <2>1. n = 0 => tl.now = 0
    BY DEF EmptyAtStart
  <2> QED BY <1>1, <1>2, <1>3, <1>8, <2>1
<1>10. Lists(u, S \cup {task})
  <2>1. 0..(u.running - 1) = 0..n BY <1>1, <1>3
  <2>2. S \cup {task} \subseteq Tasks BY DEF Lists
  <2>3. \A i, j \in 0..(u.running - 1) : u.tasks[i] = u.tasks[j] => i = j
    BY <1>7, <2>1
  <2> QED BY <1>3, <1>6, <1>9, <2>2, <2>3 DEF Lists
<1>11. n > 0 => Pointed(u) = Pointed(tl)
  BY <1>1, <1>2, <1>3, <1>5, <1>8 DEF Pointed
<1> QED BY <1>3, <1>10, <1>11 DEF Added

(* The loop of task_remove finds the task.                                  *)
LEMMA PositionFinds ==
  ASSUME NEW tl, NEW S, Lists(tl, S), NEW task \in S,
         NEW i, i = Position(tl, task)
  PROVE  i \in 0..(tl.running - 1) /\ tl.tasks[i] = task
<1>1. tl.running \in Nat
  BY Sets DEF Lists, LevelType
<1>2. PICK k \in 0..(tl.running - 1) : tl.tasks[k] = task
  BY DEF Lists
<1>3. \A j \in 0..(k - 1) : j \in 0..(tl.running - 1) /\ j # k
  BY <1>1
<1>4. \A j \in 0..(k - 1) : tl.tasks[j] # task
  BY <1>2, <1>3 DEF Lists
<1>5. \E x \in 0..tl.running :
        /\ x = tl.running \/ tl.tasks[x] = task
        /\ \A j \in 0..(x - 1) : tl.tasks[j] # task
  <2>1. k \in 0..tl.running BY <1>1
  <2> QED BY <1>2, <1>4, <2>1
<1>6. /\ i \in 0..tl.running
      /\ i = tl.running \/ tl.tasks[i] = task
      /\ \A j \in 0..(i - 1) : tl.tasks[j] # task
  BY <1>5 DEF Position
<1>7. i # tl.running
  BY <1>2, <1>6
<1> QED BY <1>1, <1>6, <1>7

(* What task_remove makes of it                                             *)
Removed(u, tl, S, task) ==
  /\ Lists(u, S \ {task}) /\ EmptyAtStart(u)
  /\ Pointed(tl) # task => u.running > 0 /\ Pointed(u) = Pointed(tl)
  /\ tl.running = 1 => /\ u.running = 0 /\ u.now = 0
                       /\ Pointed(u) = tl.tasks[0]

\* A task is taken out of its list, and now follows the task it named.
LEMMA WithoutLists ==
  ASSUME NEW tl, NEW S, Lists(tl, S), NEW task \in S
  PROVE  Removed(Without(tl, Position(tl, task)), tl, S, task)
<1> PICK u : u = Without(tl, Position(tl, task)) OBVIOUS
<1> SUFFICES Removed(u, tl, S, task) OBVIOUS
<1> PICK i : i = Position(tl, task) OBVIOUS
<1> PICK n : n = tl.running - 1 OBVIOUS
<1> PICK m : m = IF i < tl.now THEN tl.now - 1 ELSE tl.now OBVIOUS
<1>1. i \in 0..n /\ tl.tasks[i] = task /\ n \in Nat /\ tl.running = n + 1
  <2>1. tl.running \in Nat BY Sets DEF Lists, LevelType
  <2>2. i \in 0..(tl.running - 1) /\ tl.tasks[i] = task BY PositionFinds
  <2> QED BY <2>1, <2>2
<1>2. /\ tl \in LevelType /\ n + 1 \in 0..MAX_TASKS_LV
      /\ tl.now \in 0..n
      /\ tl.tasks \in [Places -> Tasks \cup {NoTask}]
      /\ \A j \in 0..n : j \in Places
  <2>1. tl.now \in 0..n
    <3>1. tl.now \in Nat BY ListFields
    <3>2. tl.now < tl.running BY <1>1 DEF Lists
    <3> QED BY <1>1, <3>1, <3>2
  <2>2. n + 1 \in 0..MAX_TASKS_LV BY <1>1, ListFields
  <2>3. \A j \in 0..n : j \in Places BY <1>1, <2>2, Sets DEF Places
  <2> QED BY <1>1, <2>1, <2>2, <2>3, ListFields DEF Lists
<1>3. /\ u.running = n /\ u.now = (IF m >= n THEN 0 ELSE m)
      /\ u.tasks = [j \in Places |-> IF i <= j /\ j < n THEN tl.tasks[j + 1]
                                                        ELSE tl.tasks[j]]
      /\ u = [running |-> u.running, now |-> u.now, tasks |-> u.tasks]
  BY DEF Without, NowAfter, Closed
<1>4. m \in 0..n
  BY <1>1, <1>2
<1>5. u \in LevelType
  <2>1. \A j \in Places : j < n => j + 1 \in Places
    BY <1>1, <1>2, Sets DEF Places
  <2>2. u.tasks \in [Places -> Tasks \cup {NoTask}]
    BY <1>1, <1>2, <1>3, <2>1
  <2>3. u.now \in Places
    BY <1>1, <1>2, <1>3, <1>4, Sets
  <2>4. n \in 0..MAX_TASKS_LV
    BY <1>1, <1>2, Sets
  <2> QED BY <1>3, <2>2, <2>3, <2>4 DEF LevelType
<1>6. \A j \in 0..(n - 1) : /\ j \in 0..n /\ j + 1 \in 0..n
                            /\ u.tasks[j] = IF i <= j THEN tl.tasks[j + 1]
                                                      ELSE tl.tasks[j]
  BY <1>1, <1>2, <1>3
<1>7. \A j, k \in 0..n : tl.tasks[j] = tl.tasks[k] => j = k
  BY <1>1 DEF Lists
<1>8. S = {tl.tasks[j] : j \in 0..n}
  BY <1>1 DEF Lists
<1>9. ASSUME NEW j \in 0..n, j # i
      PROVE  \E k \in 0..(n - 1) : /\ u.tasks[k] = tl.tasks[j]
                                   /\ k = IF i < j THEN j - 1 ELSE j
  <2>1. CASE j < i
    <3>1. j \in 0..(n - 1) /\ ~(i <= j) /\ ~(i < j) BY <1>1, <2>1
    <3> QED BY <1>6, <3>1
  <2>2. CASE i < j
    <3>1. j - 1 \in 0..(n - 1) /\ i <= j - 1 /\ (j - 1) + 1 = j BY <1>1, <2>2
    <3> QED BY <1>6, <2>2, <3>1
  <2> QED BY <1>1, <1>9, <2>1, <2>2
<1>10. S \ {task} = {u.tasks[j] : j \in 0..(n - 1)}
  <2>1. ASSUME NEW j \in 0..(n - 1) PROVE u.tasks[j] \in S \ {task}
    <3>1. CASE i <= j
      <4>1. u.tasks[j] = tl.tasks[j + 1] /\ j + 1 \in 0..n /\ j + 1 # i
        BY <1>1, <1>6, <3>1
      <4> QED BY <1>1, <1>7, <1>8, <4>1
    <3>2. CASE ~(i <= j)
      <4>1. u.tasks[j] = tl.tasks[j] /\ j \in 0..n /\ j # i
        BY <1>1, <1>6, <3>2
      <4> QED BY <1>1, <1>7, <1>8, <4>1
    <3> QED BY <3>1, <3>2
  <2>2. ASSUME NEW t \in S \ {task} PROVE \E j \in 0..(n - 1) : u.tasks[j] = t
    <3>1. PICK j \in 0..n : t = tl.tasks[j] /\ j # i
      BY <1>1, <1>8
    <3> QED BY <1>9, <3>1
  <2> QED BY <2>1, <2>2
<1>11. ASSUME NEW j \in 0..(n - 1), NEW k \in 0..(n - 1), u.tasks[j] = u.tasks[k]
       PROVE  j = k
  <2>1. PICK x \in 0..n : u.tasks[j] = tl.tasks[x] /\ x = IF i <= j THEN j + 1 ELSE j
    BY <1>6
  <2>2. PICK y \in 0..n : u.tasks[k] = tl.tasks[y] /\ y = IF i <= k THEN k + 1 ELSE k
    BY <1>6
  <2>3. x = y BY <1>7, <1>11, <2>1, <2>2
  <2> QED BY <1>1, <2>1, <2>2, <2>3
<1>12. u.running > 0 => u.now < u.running
  BY <1>1, <1>3, <1>4
<1>13. Lists(u, S \ {task})
  BY <1>1, <1>3, <1>5, <1>10, <1>11, <1>12 DEF Lists
<1>14. EmptyAtStart(u)
  BY <1>1, <1>3, <1>4 DEF EmptyAtStart
<1>15. ASSUME Pointed(tl) # task
       PROVE  u.running > 0 /\ Pointed(u) = Pointed(tl)
  <2>1. tl.now # i BY <1>1, <1>15 DEF Pointed
  <2>2. PICK k \in 0..(n - 1) : u.tasks[k] = tl.tasks[tl.now]
                                /\ k = IF i < tl.now THEN tl.now - 1 ELSE tl.now
    BY <1>2, <1>9, <2>1
  <2>3. k = m /\ n > 0 /\ ~(m >= n)
    BY <1>1, <1>2, <2>2
  <2> QED BY <1>1, <1>3, <2>2, <2>3 DEF Pointed
<1>16. ASSUME tl.running = 1
       PROVE  u.running = 0 /\ u.now = 0 /\ u.tasks = tl.tasks
  <2>1. n = 0 /\ m = 0 /\ i = 0 BY <1>1, <1>2, <1>16
  <2>2. \A j \in Places : ~(i <= j /\ j < n) BY <2>1, Sets
  <2> QED BY <1>2, <1>3, <2>1, <2>2
<1>17. tl.running = 1 => u.running = 0 /\ u.now = 0 /\ Pointed(u) = tl.tasks[0]
  BY <1>16 DEF Pointed
<1> QED BY <1>13, <1>14, <1>15, <1>17 DEF Removed

\* The current place of a list holds one of its tasks.
LEMMA PointedRuns ==
  ASSUME NEW tl, NEW S, Lists(tl, S), tl.running > 0 PROVE Pointed(tl) \in S
<1>1. tl.running \in Nat /\ tl.now \in Nat
  BY ListFields
<1>2. tl.now \in 0..(tl.running - 1)
  BY <1>1 DEF Lists
<1> QED BY <1>2 DEF Lists, Pointed

\* A list with a task is not empty.
LEMMA ListedRuns ==
  ASSUME NEW tl, NEW S, Lists(tl, S), NEW task \in S PROVE tl.running > 0
<1>1. tl.running \in Nat BY Sets DEF Lists, LevelType
<1> QED BY <1>1 DEF Lists

-----------------------------------------------------------------------------
(* The functions of mtask.c *)

\* Each level that had tasks has some, and points at the task it pointed at.
Steady(tc, r) ==
  \A l \in Levels : tc.level[l].running > 0 =>
    r.level[l].running > 0 /\ Pointed(r.level[l]) = Pointed(tc.level[l])

\* The fields of a consistent structure have their types.
LEMMA CtlFields ==
  ASSUME NEW tc, Consistent(tc)
  PROVE  /\ tc.now_lv \in Levels /\ tc.lv_change \in {0, 1}
         /\ tc.level \in [Levels -> LevelType]
         /\ tc.tasks0 \in [Tasks -> TaskType]
         /\ \A t \in Tasks : /\ tc.tasks0[t].level \in Levels
                             /\ tc.tasks0[t].flags \in {Free, Sleeping, Running}
                             /\ tc.tasks0[t].priority \in 0..2
                             /\ tc.tasks0[t] \in TaskType
BY DEF Consistent, CtlType, TaskType

\* What task_add makes of tc
Enlisted(r, tc, task) ==
  /\ Consistent(r) /\ Steady(tc, r)
  /\ r.now_lv = tc.now_lv /\ r.lv_change = tc.lv_change
  /\ r.tasks0 = [tc.tasks0 EXCEPT ![task].flags = Running]
  /\ \A l \in Levels : l # tc.tasks0[task].level => r.level[l] = tc.level[l]

\* task_add enters the task on its level and changes no other list.
LEMMA AddOK ==
  ASSUME NEW tc, Consistent(tc), NEW task \in Tasks,
         tc.tasks0[task].flags # Running, tc.tasks0[task].level # 0,
         tc.level[tc.tasks0[task].level].running < MAX_TASKS_LV
  PROVE  Enlisted(task_add(tc, task), tc, task)
<1> PICK r : r = task_add(tc, task) OBVIOUS
<1> SUFFICES Enlisted(r, tc, task) OBVIOUS
<1> PICK lv \in Levels : lv = tc.tasks0[task].level
  BY CtlFields
<1> PICK tl : tl = tc.level[lv] OBVIOUS
<1> PICK u : u = Grown(tl, task) OBVIOUS
<1>1. /\ tc \in CtlType /\ tc.level \in [Levels -> LevelType]
      /\ tc.tasks0 \in [Tasks -> TaskType] /\ tl \in LevelType
  BY CtlFields DEF Consistent
<1>2. Lists(tl, Runners(tc, lv)) /\ task \in Tasks \ Runners(tc, lv)
      /\ EmptyAtStart(tl)
  BY DEF Consistent, Runners
<1>3. /\ Lists(u, Runners(tc, lv) \cup {task})
      /\ tl.running > 0 => Pointed(u) = Pointed(tl)
      /\ u.running = tl.running + 1
  <2>1. Added(Grown(tl, task), tl, Runners(tc, lv), task)
    BY <1>2, AddLists
  <2> QED BY <2>1 DEF Added
<1>4. /\ r.now_lv = tc.now_lv /\ r.lv_change = tc.lv_change
      /\ r.tasks0 = [tc.tasks0 EXCEPT ![task].flags = Running]
      /\ r.level = [tc.level EXCEPT ![lv] = u]
  BY <1>1 DEF task_add, Grown, CtlType
<1>5. u \in LevelType /\ u.running > 0
  <2>1. tl.running \in Nat BY <1>2, ListFields
  <2>2. u.running = tl.running + 1 BY <1>3
  <2>3. u.running > 0 BY <2>1, <2>2
  <2>4. u \in LevelType BY <1>3 DEF Lists
  <2> QED BY <2>3, <2>4
<1>6. r \in CtlType
  <2>1. r = [now_lv |-> tc.now_lv, lv_change |-> tc.lv_change,
             level |-> r.level, tasks0 |-> r.tasks0]
    BY <1>1 DEF task_add, CtlType
  <2>2. r.level \in [Levels -> LevelType]
    BY <1>1, <1>4, <1>5
  <2>3. r.tasks0 \in [Tasks -> TaskType]
    BY <1>1, <1>4 DEF TaskType
  <2> QED BY <1>1, <2>1, <2>2, <2>3 DEF CtlType
<1>7. \A l \in Levels : r.level[l] = IF l = lv THEN u ELSE tc.level[l]
  BY <1>1, <1>4
<1>8. \A t \in Tasks : /\ r.tasks0[t].level = tc.tasks0[t].level
                       /\ r.tasks0[t].flags = IF t = task THEN Running
                                              ELSE tc.tasks0[t].flags
  BY <1>1, <1>4 DEF TaskType
<1>9. \A l \in Levels : Runners(r, l) = IF l = lv THEN Runners(tc, l) \cup {task}
                                        ELSE Runners(tc, l)
  BY <1>8 DEF Runners
<1>10. Consistent(r)
  <2>1. EmptyAtStart(u) BY <1>5 DEF EmptyAtStart
  <2>2. ASSUME NEW l \in Levels
        PROVE  /\ Lists(r.level[l], Runners(r, l))
               /\ l # 0 => EmptyAtStart(r.level[l])
    <3>1. CASE l = lv BY <1>3, <1>7, <1>9, <2>1, <3>1
    <3>2. CASE l # lv BY <1>7, <1>9, <3>2 DEF Consistent
    <3> QED BY <3>1, <3>2
  <2> QED BY <1>6, <2>2 DEF Consistent
<1>11. Steady(tc, r)
  BY <1>3, <1>5, <1>7 DEF Steady
<1> QED BY <1>4, <1>7, <1>10, <1>11 DEF Enlisted

\* What task_remove makes of tc
Delisted(r, tc, task, lv) ==
  /\ Consistent(r)
  /\ r.now_lv = tc.now_lv /\ r.lv_change = tc.lv_change
  /\ r.tasks0 = [tc.tasks0 EXCEPT ![task].flags = Sleeping]
  /\ \A l \in Levels : l # lv => r.level[l] = tc.level[l]
  /\ Pointed(tc.level[lv]) # task => Steady(tc, r)
  /\ tc.level[lv].running = 1 =>
       /\ r.level[lv].running = 0 /\ r.level[lv].now = 0
       /\ Pointed(r.level[lv]) = tc.level[lv].tasks[0]

\* task_remove takes the task off its level and changes no other list.
LEMMA RemoveOK ==
  ASSUME NEW tc, Consistent(tc), NEW task \in Tasks,
         tc.tasks0[task].flags = Running,
         NEW lv, lv = tc.tasks0[task].level
  PROVE  Delisted(task_remove(tc, task), tc, task, lv)
<1> PICK r : r = task_remove(tc, task) OBVIOUS
<1> SUFFICES Delisted(r, tc, task, lv) OBVIOUS
<1> PICK tl : tl = tc.level[lv] OBVIOUS
<1> PICK u : u = Without(tl, Position(tl, task)) OBVIOUS
<1>1. /\ tc \in CtlType /\ tc.level \in [Levels -> LevelType]
      /\ tc.tasks0 \in [Tasks -> TaskType] /\ lv \in Levels
  BY CtlFields DEF Consistent
<1>2. Lists(tl, Runners(tc, lv)) /\ task \in Runners(tc, lv)
  BY <1>1 DEF Consistent, Runners
<1>3. /\ Lists(u, Runners(tc, lv) \ {task}) /\ EmptyAtStart(u)
      /\ Pointed(tl) # task => u.running > 0 /\ Pointed(u) = Pointed(tl)
      /\ tl.running = 1 => /\ u.running = 0 /\ u.now = 0
                           /\ Pointed(u) = tl.tasks[0]
  <2>1. Removed(Without(tl, Position(tl, task)), tl, Runners(tc, lv), task)
    BY <1>2, WithoutLists
  <2> QED BY <2>1 DEF Removed
<1>4. /\ r.now_lv = tc.now_lv /\ r.lv_change = tc.lv_change
      /\ r.tasks0 = [tc.tasks0 EXCEPT ![task].flags = Sleeping]
      /\ r.level = [tc.level EXCEPT ![lv] = u]
  BY <1>1 DEF task_remove, CtlType
<1>5. u \in LevelType
  BY <1>3 DEF Lists
<1>6. r \in CtlType
  <2>1. r = [now_lv |-> tc.now_lv, lv_change |-> tc.lv_change,
             level |-> r.level, tasks0 |-> r.tasks0]
    BY <1>1 DEF task_remove, CtlType
  <2>2. r.level \in [Levels -> LevelType]
    BY <1>1, <1>4, <1>5
  <2>3. r.tasks0 \in [Tasks -> TaskType]
    BY <1>1, <1>4 DEF TaskType
  <2> QED BY <1>1, <2>1, <2>2, <2>3 DEF CtlType
<1>7. \A l \in Levels : r.level[l] = IF l = lv THEN u ELSE tc.level[l]
  BY <1>1, <1>4
<1>8. \A t \in Tasks : /\ r.tasks0[t].level = tc.tasks0[t].level
                       /\ r.tasks0[t].flags = IF t = task THEN Sleeping
                                              ELSE tc.tasks0[t].flags
  BY <1>1, <1>4 DEF TaskType
<1>9. \A l \in Levels : Runners(r, l) = IF l = lv THEN Runners(tc, l) \ {task}
                                        ELSE Runners(tc, l)
  <2>1. Sleeping # Running BY DEF Sleeping, Running
  <2> QED BY <1>8, <2>1 DEF Runners
<1>10. Consistent(r)
  BY <1>3, <1>6, <1>7, <1>9 DEF Consistent
<1>11. Pointed(tl) # task => Steady(tc, r)
  BY <1>3, <1>7 DEF Steady
<1> QED BY <1>1, <1>3, <1>4, <1>7, <1>10, <1>11 DEF Delisted

\* The current level is the highest one that has tasks.
AtTop(tc) ==
  /\ tc.level[tc.now_lv].running > 0
  /\ \A l \in Levels : l < tc.now_lv => tc.level[l].running = 0

Switched(r, tc) ==
  /\ Consistent(r) /\ AtTop(r)
  /\ r.lv_change = 0
  /\ r.level = tc.level /\ r.tasks0 = tc.tasks0

\* task_switchsub finds the highest level that has a task.
LEMMA SwitchsubOK ==
  ASSUME NEW tc, Consistent(tc), NEW k \in Levels, tc.level[k].running > 0
  PROVE  Switched(task_switchsub(tc), tc)
<1> PICK r : r = task_switchsub(tc) OBVIOUS
<1> SUFFICES Switched(r, tc) OBVIOUS
<1> DEFINE S == {l \in Levels : tc.level[l].running > 0}
<1>1. /\ tc \in CtlType /\ tc.level \in [Levels -> LevelType]
      /\ \A l \in Levels : tc.level[l].running \in Nat
  BY CtlFields, ListFields DEF Consistent
<1>2. PICK m \in S : \A l \in S : m <= l
  <2>1. S \subseteq Nat /\ S # {} BY Sets
  <2> HIDE DEF S
  <2> QED BY <2>1, LeastExists
<1>3. \A l \in 0..(m - 1) : tc.level[l].running <= 0
  <2> SUFFICES ASSUME NEW l \in 0..(m - 1) PROVE tc.level[l].running <= 0
    OBVIOUS
  <2>1. l \in Levels /\ m \in Nat /\ l \in Nat /\ ~(m <= l)
    <3>1. m \in 0..(MAX_TASKLEVELS - 1) BY DEF Levels
    <3> QED BY <3>1, Sets DEF Levels
  <2>2. l \notin S BY <1>2, <2>1
  <2> QED BY <1>1, <2>1, <2>2
<1>4. \E l \in Levels : /\ tc.level[l].running > 0
                        /\ \A x \in 0..(l - 1) : tc.level[x].running <= 0
  BY <1>2, <1>3
<1>5. /\ TopLevel(tc) \in Levels /\ tc.level[TopLevel(tc)].running > 0
      /\ \A x \in 0..(TopLevel(tc) - 1) : tc.level[x].running <= 0
  BY <1>4 DEF TopLevel
<1>6. /\ r.now_lv = TopLevel(tc) /\ r.lv_change = 0
      /\ r.level = tc.level /\ r.tasks0 = tc.tasks0
      /\ r \in CtlType
  BY <1>1, <1>5 DEF task_switchsub, CtlType
<1>7. AtTop(r)
  <2> SUFFICES ASSUME NEW l \in Levels, l < TopLevel(tc)
               PROVE  tc.level[l].running = 0
    BY <1>5, <1>6 DEF AtTop
  <2>1. l \in 0..(TopLevel(tc) - 1)
    <3>1. \A x, y \in Levels : x < y => x \in 0..(y - 1)
      BY Sets DEF Levels
    <3> QED BY <1>5, <3>1
  <2> QED BY <1>1, <1>5, <2>1
<1>8. Consistent(r)
  BY <1>6 DEF Consistent, Runners
<1> QED BY <1>6, <1>7, <1>8 DEF Switched

\* No list is overrun.
Fits(tc) == \A l \in Levels : tc.level[l].running <= MAX_TASKS_LV

Counted(r, tc, lv) == r.level[lv].running = tc.level[lv].running + 1

\* task_add counts the task, whether there is a place for it or not.
LEMMA AddCounts ==
  ASSUME NEW tc \in CtlType, NEW task \in Tasks
  PROVE  Counted(Announce(task_add(tc, task)), tc, tc.tasks0[task].level)
<1> PICK c : c = task_add(tc, task) OBVIOUS
<1> PICK r : r = Announce(c) OBVIOUS
<1> PICK lv : lv = tc.tasks0[task].level OBVIOUS
<1>1. lv \in Levels /\ tc.level \in [Levels -> LevelType]
  BY DEF CtlType, TaskType
<1>2. c.level = [tc.level EXCEPT ![lv] = Grown(tc.level[lv], task)]
      /\ c = [now_lv |-> tc.now_lv, lv_change |-> tc.lv_change,
              level |-> c.level, tasks0 |-> c.tasks0]
  BY DEF task_add, Grown, CtlType
<1>3. Grown(tc.level[lv], task).running = tc.level[lv].running + 1
  BY <1>1 DEF Grown, LevelType
<1>4. r.level = c.level
  BY <1>2 DEF Announce
<1> QED BY <1>1, <1>2, <1>3, <1>4 DEF Counted

(* task_run of a task that does not run                                     *)
Started(r, tc, task, lv, priority) ==
  /\ Consistent(r) /\ Steady(tc, r)
  /\ r.now_lv = tc.now_lv /\ r.lv_change = 1
  /\ \A t \in Tasks \ {task} : r.tasks0[t] = tc.tasks0[t]
  /\ r.tasks0[task].flags = Running /\ r.tasks0[task].level = lv
  /\ r.tasks0[task].priority = IF priority > 0 THEN priority
                               ELSE tc.tasks0[task].priority
  /\ r.level[0] = tc.level[0]

\* task_run of a task that does not run enters it and sets lv_change.
LEMMA RunNew ==
  ASSUME NEW tc, Consistent(tc), NEW task \in Tasks,
         tc.tasks0[task].flags # Running,
         NEW level \in Int, NEW priority \in 0..2,
         NEW lv \in Levels \ {0}, lv = IF level < 0 THEN tc.tasks0[task].level ELSE level,
         Fits(task_run(tc, task, level, priority))
  PROVE  Started(task_run(tc, task, level, priority), tc, task, lv, priority)
<1> PICK r : r = task_run(tc, task, level, priority) OBVIOUS
<1> SUFFICES Started(r, tc, task, lv, priority) OBVIOUS
<1> PICK a : a = IF priority > 0
                   THEN [tc EXCEPT !.tasks0[task].priority = priority] ELSE tc
  OBVIOUS
<1> PICK b : b = [a EXCEPT !.tasks0[task].level = lv] OBVIOUS
<1> PICK c : c = task_add(b, task) OBVIOUS
<1>1. /\ tc \in CtlType /\ tc.tasks0 \in [Tasks -> TaskType]
      /\ tc.tasks0[task] \in TaskType
  BY CtlFields DEF Consistent
<1>2. /\ a.tasks0 \in [Tasks -> TaskType] /\ a \in CtlType
      /\ a.level = tc.level /\ a.now_lv = tc.now_lv
      /\ \A t \in Tasks \ {task} : a.tasks0[t] = tc.tasks0[t]
      /\ a.tasks0[task].flags = tc.tasks0[task].flags
      /\ a.tasks0[task].priority = IF priority > 0 THEN priority
                                   ELSE tc.tasks0[task].priority
  <2>1. CASE priority > 0 BY <1>1, <2>1 DEF CtlType, TaskType
  <2>2. CASE ~(priority > 0) BY <1>1, <2>2
  <2> QED BY <2>1, <2>2
<1>3. /\ b \in CtlType /\ b.tasks0 \in [Tasks -> TaskType]
      /\ b.level = tc.level /\ b.now_lv = tc.now_lv
      /\ \A t \in Tasks \ {task} : b.tasks0[t] = tc.tasks0[t]
      /\ b.tasks0[task].flags = tc.tasks0[task].flags
      /\ b.tasks0[task].level = lv
      /\ b.tasks0[task].priority = IF priority > 0 THEN priority
                                   ELSE tc.tasks0[task].priority
  <2>1. /\ b \in CtlType /\ b.level = a.level /\ b.now_lv = a.now_lv
        /\ b.tasks0 = [a.tasks0 EXCEPT ![task].level = lv]
    <3>1. [a.tasks0 EXCEPT ![task].level = lv] \in [Tasks -> TaskType]
      <4>1. a.tasks0[task] \in TaskType BY <1>2
      <4>2. [a.tasks0[task] EXCEPT !.level = lv] \in TaskType
        BY <4>1 DEF TaskType
      <4> QED BY <1>2, <4>2
    <3> QED BY <1>2, <3>1 DEF CtlType
  <2>2. a.tasks0[task] \in TaskType BY <1>2
  <2>3. b.tasks0[task] = [a.tasks0[task] EXCEPT !.level = lv]
    BY <1>2, <2>1
  <2>4. \A t \in Tasks \ {task} : b.tasks0[t] = a.tasks0[t]
    BY <1>2, <2>1
  <2>5. /\ b.tasks0[task].flags = a.tasks0[task].flags
        /\ b.tasks0[task].level = lv
        /\ b.tasks0[task].priority = a.tasks0[task].priority
    BY <2>2, <2>3 DEF TaskType
  <2>6. b.tasks0 \in [Tasks -> TaskType] BY <2>1 DEF CtlType
  <2> QED BY <1>2, <2>1, <2>4, <2>5, <2>6
<1>4. Consistent(b)
  <2>1. \A l \in Levels : Runners(b, l) = Runners(tc, l)
    BY <1>3 DEF Runners
  <2> QED BY <1>3, <2>1 DEF Consistent
<1>5. r = Announce(c)
  <2>1. a.tasks0[task].flags # Running BY <1>2
  <2>2. b.tasks0[task].flags # Running BY <1>3
  <2>3. r = Announce(task_add([a EXCEPT !.tasks0[task].level = lv], task))
    BY <2>1 DEF task_run, NeedsPlace
  <2> QED BY <2>3
<1>6. /\ Consistent(c) /\ Steady(b, c)
      /\ c.now_lv = b.now_lv
      /\ c.tasks0 = [b.tasks0 EXCEPT ![task].flags = Running]
      /\ c.level[0] = b.level[0]
  <2>1. b.tasks0[task].flags # Running /\ b.tasks0[task].level = lv /\ lv # 0
    BY <1>3
  <2>2. r.level[lv].running = b.level[lv].running + 1
    <3>1. b \in CtlType BY <1>3
    <3>2. r = Announce(task_add(b, task)) BY <1>5
    <3>3. lv = b.tasks0[task].level BY <2>1
    <3>4. Counted(Announce(task_add(b, task)), b, b.tasks0[task].level)
      BY <3>1, AddCounts
    <3> QED BY <3>2, <3>3, <3>4 DEF Counted
  <2>3. b.level[lv].running < MAX_TASKS_LV
    <3>1. r.level[lv].running <= MAX_TASKS_LV BY DEF Fits
    <3>2. b.level[lv].running \in Nat BY <1>4, ListFields DEF Consistent
    <3>3. MAX_TASKS_LV \in Nat BY Sets
    <3> QED BY ONLY <2>2, <3>1, <3>2, <3>3
  <2>4. Enlisted(c, b, task)
    BY <1>4, <2>1, <2>3, AddOK
  <2>5. 0 \in Levels /\ 0 # b.tasks0[task].level BY <2>1, Sets
  <2> QED BY <2>4, <2>5 DEF Enlisted
<1>7. /\ r.level = c.level /\ r.tasks0 = c.tasks0 /\ r.now_lv = c.now_lv
      /\ r.lv_change = 1 /\ r \in CtlType
  <2>1. c \in CtlType BY <1>6 DEF Consistent
  <2> QED BY <1>5, <2>1 DEF CtlType, Announce
<1>8. Consistent(r)
  <2>1. \A l \in Levels : Runners(r, l) = Runners(c, l) BY <1>7 DEF Runners
  <2> QED BY <1>6, <1>7, <2>1 DEF Consistent
<1>9. Steady(tc, r)
  <2> SUFFICES ASSUME NEW l \in Levels, tc.level[l].running > 0
               PROVE  r.level[l].running > 0
                      /\ Pointed(r.level[l]) = Pointed(tc.level[l])
    BY DEF Steady
  <2>1. b.level[l] = tc.level[l] /\ r.level[l] = c.level[l] BY <1>3, <1>7
  <2>2. c.level[l].running > 0 /\ Pointed(c.level[l]) = Pointed(b.level[l])
    BY <1>6, <2>1 DEF Steady
  <2> QED BY <2>1, <2>2
<1>10. /\ \A t \in Tasks \ {task} : r.tasks0[t] = tc.tasks0[t]
       /\ r.tasks0[task].flags = Running /\ r.tasks0[task].level = lv
       /\ r.tasks0[task].priority = IF priority > 0 THEN priority
                                    ELSE tc.tasks0[task].priority
  <2>1. b.tasks0 \in [Tasks -> TaskType] /\ b.tasks0[task] \in TaskType
    BY <1>3
  <2>2. r.tasks0 = [b.tasks0 EXCEPT ![task].flags = Running] BY <1>6, <1>7
  <2>3. /\ r.tasks0[task] = [b.tasks0[task] EXCEPT !.flags = Running]
        /\ \A t \in Tasks \ {task} : r.tasks0[t] = b.tasks0[t]
    BY <2>1, <2>2
  <2>4. /\ r.tasks0[task].flags = Running
        /\ r.tasks0[task].level = b.tasks0[task].level
        /\ r.tasks0[task].priority = b.tasks0[task].priority
    BY <2>1, <2>3 DEF TaskType
  <2> QED BY <1>3, <2>3, <2>4
<1> QED BY <1>3, <1>6, <1>7, <1>8, <1>9, <1>10 DEF Started

(* task_run of a task that runs, on its own level: level < 0                *)
LEMMA RunAgain ==
  ASSUME NEW tc, Consistent(tc), NEW task \in Tasks,
         tc.tasks0[task].flags = Running,
         NEW r, r = task_run(tc, task, -1, 0)
  PROVE  r = [tc EXCEPT !.lv_change = 1]
BY DEF task_run, NeedsPlace, Announce

-----------------------------------------------------------------------------
(* The inductive invariant, of the struct TASKCTL tc, the task c that       *)
(* executes and the progress b of the boot                                  *)

\* Who is on which level: the idle task is always ready, and task A is the
\* only task on the level on which HariMain boots.
Roles(tc, c, b) ==
  /\ b \in {"idle", "task_a", "up"}
  /\ tc.tasks0[task_a].flags # Free
  /\ tc.tasks0[task_a].level = IF b = "up" THEN 1 ELSE 0
  /\ b = "idle" => tc.tasks0[idle].flags = Free
  /\ b # "idle" => /\ tc.tasks0[idle].flags = Running
                   /\ tc.tasks0[idle].level = MAX_TASKLEVELS - 1
  /\ \A t \in Tasks : tc.tasks0[t].flags # Free => tc.tasks0[t].priority \in 1..2
  /\ \A t \in Consoles : tc.tasks0[t].flags # Free =>
       b = "up" /\ tc.tasks0[t].level = ConsoleLevel
  /\ b # "up" => c = task_a /\ tc.now_lv = 0 /\ tc.level[0].running = 1

\* The current level points at the task that executes.  After HariMain has
\* left level 0 and until the next switch, that level is empty.
AtWork(tc, c) ==
  /\ c \in Tasks
  /\ tc.tasks0[c].flags = Running
  /\ Pointed(tc.level[tc.now_lv]) = c
  /\ \/ tc.level[tc.now_lv].running > 0
     \/ /\ c = task_a /\ tc.now_lv = 0 /\ tc.lv_change = 1
        /\ tc.level[0].now = 0

Good(tc, c, b) ==
  /\ Consistent(tc)
  /\ Roles(tc, c, b)
  /\ AtWork(tc, c)
  /\ tc.lv_change = 0 => AtTop(tc)

Inv == Good(taskctl, cpu, boot) /\ slice \in 1..2

\* A task is free, sleeps or runs.
LEMMA Flags == Free # Sleeping /\ Free # Running /\ Sleeping # Running
BY DEF Free, Sleeping, Running

\* A task is task A, the idle task or a console, on three different levels.
LEMMA Kinds ==
  /\ \A t \in Tasks : t = task_a \/ t = idle \/ t \in Consoles
  /\ task_a # idle /\ task_a \notin Consoles /\ idle \notin Consoles
  /\ Consoles \subseteq Tasks
  /\ ConsoleLevel = 2 /\ 2 # MAX_TASKLEVELS - 1 /\ 1 # MAX_TASKLEVELS - 1
  /\ 0 # MAX_TASKLEVELS - 1
BY MtaskAssumption DEF Consoles, task_a, idle, ConsoleLevel

(* A task on the current level runs there.                                  *)
LEMMA OnCurrentLevel ==
  ASSUME NEW tc, Consistent(tc), tc.level[tc.now_lv].running > 0
  PROVE  /\ Pointed(tc.level[tc.now_lv]) \in Tasks
         /\ tc.tasks0[Pointed(tc.level[tc.now_lv])].flags = Running
         /\ tc.tasks0[Pointed(tc.level[tc.now_lv])].level = tc.now_lv
<1>1. tc.now_lv \in Levels BY CtlFields
<1>2. Lists(tc.level[tc.now_lv], Runners(tc, tc.now_lv))
  BY <1>1 DEF Consistent
<1>3. Pointed(tc.level[tc.now_lv]) \in Runners(tc, tc.now_lv)
  BY <1>2, PointedRuns
<1> QED BY <1>3 DEF Runners

\* The level of a running task is not empty.
LEMMA LevelOfRunning ==
  ASSUME NEW tc, Consistent(tc), NEW t \in Tasks, tc.tasks0[t].flags = Running
  PROVE  /\ tc.tasks0[t].level \in Levels
         /\ tc.level[tc.tasks0[t].level].running > 0
<1>1. tc.tasks0[t].level \in Levels BY CtlFields
<1>2. t \in Runners(tc, tc.tasks0[t].level) BY DEF Runners
<1> QED BY <1>1, <1>2, ListedRuns DEF Consistent

-----------------------------------------------------------------------------
(* One lemma per kind of step *)

\* The task that executes is not disturbed by one that starts.
LEMMA StartedAtWork ==
  ASSUME NEW tc, NEW c, AtWork(tc, c), Consistent(tc),
         NEW task \in Tasks, tc.tasks0[task].flags # Running,
         NEW lv, NEW priority, NEW r, Started(r, tc, task, lv, priority)
  PROVE  AtWork(r, c) /\ r.lv_change = 1 /\ Consistent(r)
<1>1. tc.now_lv \in Levels /\ r.now_lv = tc.now_lv /\ r.lv_change = 1
  BY CtlFields DEF Started
<1>2. c # task /\ r.tasks0[c] = tc.tasks0[c]
  BY DEF AtWork, Started
<1>3. CASE tc.level[tc.now_lv].running > 0
  <2>1. /\ r.level[tc.now_lv].running > 0
        /\ Pointed(r.level[tc.now_lv]) = Pointed(tc.level[tc.now_lv])
    BY <1>1, <1>3 DEF Started, Steady
  <2> QED BY <1>1, <1>2, <2>1 DEF AtWork, Started
<1>4. CASE ~(tc.level[tc.now_lv].running > 0)
  <2>1. tc.now_lv = 0 /\ r.level[0] = tc.level[0]
    BY <1>4 DEF AtWork, Started
  <2> QED BY <1>1, <1>2, <1>4, <2>1 DEF AtWork, Started
<1> QED BY <1>3, <1>4

(* Wake, Break of a sleeping console, and open_constask                     *)
LEMMA StartGood ==
  ASSUME NEW tc, NEW c, Good(tc, c, "up"),
         NEW task \in Tasks \ {idle}, tc.tasks0[task].flags # Running,
         NEW lv, lv = IF task = task_a THEN 1 ELSE ConsoleLevel,
         NEW priority, priority = 2 \/ (priority = 0 /\ tc.tasks0[task].flags # Free),
         NEW r, Started(r, tc, task, lv, priority)
  PROVE  Good(r, c, "up")
<1>1. AtWork(r, c) /\ r.lv_change = 1 /\ Consistent(r)
  BY StartedAtWork DEF Good
<1>2. /\ \A t \in Tasks \ {task} : r.tasks0[t] = tc.tasks0[t]
      /\ r.tasks0[task].flags = Running /\ r.tasks0[task].level = lv
      /\ r.tasks0[task].priority = IF priority > 0 THEN priority
                                   ELSE tc.tasks0[task].priority
  BY DEF Started
<1>3. r.tasks0[task].priority \in 1..2
  BY <1>2 DEF Good, Roles
<1>4. Roles(r, c, "up")
  BY <1>2, <1>3, Flags, Kinds, Sets DEF Good, Roles
<1> QED BY <1>1, <1>4 DEF Good

(* task_run of a task that runs                                             *)
LEMMA AgainGood ==
  ASSUME NEW tc, NEW c, NEW b, Good(tc, c, b), NEW r, r = [tc EXCEPT !.lv_change = 1]
  PROVE  Good(r, c, b)
<1>1. /\ r.level = tc.level /\ r.tasks0 = tc.tasks0 /\ r.now_lv = tc.now_lv
      /\ r.lv_change = 1 /\ r \in CtlType
  BY DEF Good, Consistent, CtlType
<1>2. Consistent(r)
  <2>1. \A l \in Levels : Runners(r, l) = Runners(tc, l) BY <1>1 DEF Runners
  <2> QED BY <1>1, <2>1 DEF Good, Consistent
<1>3. Roles(r, c, b) BY <1>1 DEF Good, Roles
<1>4. AtWork(r, c) BY <1>1 DEF Good, AtWork
<1> QED BY <1>1, <1>2, <1>3, <1>4 DEF Good

\* HariMain starts the idle task.
LEMMA RunIdleGood ==
  ASSUME NEW tc, Good(tc, task_a, "idle"),
         NEW r, r = task_run(tc, idle, MAX_TASKLEVELS - 1, 1), Fits(r)
  PROVE  Good(r, task_a, "task_a")
<1>1. /\ MAX_TASKLEVELS - 1 \in Levels \ {0} /\ MAX_TASKLEVELS - 1 \in Int
      /\ ~(MAX_TASKLEVELS - 1 < 0) /\ idle \in Tasks /\ 1 \in 0..2
  BY Sets, Kinds
<1>2. tc.tasks0[idle].flags # Running /\ Consistent(tc)
  BY Flags DEF Good, Roles
<1>3. Started(r, tc, idle, MAX_TASKLEVELS - 1, 1)
  <2>1. Started(task_run(tc, idle, MAX_TASKLEVELS - 1, 1), tc, idle,
                MAX_TASKLEVELS - 1, 1)
    BY <1>1, <1>2, RunNew
  <2> QED BY <2>1
<1>4. AtWork(r, task_a) /\ r.lv_change = 1 /\ Consistent(r)
  BY <1>1, <1>2, <1>3, StartedAtWork DEF Good
<1>5. Roles(r, task_a, "task_a")
  BY <1>3, Flags, Kinds, Sets DEF Good, Roles, Started
<1> QED BY <1>4, <1>5 DEF Good

\* HariMain moves itself from level 0 to level 1.
LEMMA RunTaskAGood ==
  ASSUME NEW tc, Good(tc, task_a, "task_a"),
         NEW r, r = task_run(tc, task_a, 1, 2), Fits(r)
  PROVE  Good(r, task_a, "up")
<1> PICK a : a = [tc EXCEPT !.tasks0[task_a].priority = 2] OBVIOUS
<1> PICK b : b = task_remove(a, task_a) OBVIOUS
<1>1. /\ tc \in CtlType /\ Consistent(tc) /\ tc.now_lv = 0
      /\ tc.tasks0[task_a].flags = Running /\ tc.tasks0[task_a].level = 0
      /\ tc.tasks0[task_a] \in TaskType /\ tc.tasks0 \in [Tasks -> TaskType]
  BY Sets, CtlFields DEF Good, Consistent, Roles, AtWork
<1>2. tc.level[0].running = 1 /\ tc.level[0].now = 0 /\ tc.level[0].tasks[0] = task_a
  <2>1. tc.level[0].running = 1 /\ Pointed(tc.level[0]) = task_a
    BY <1>1 DEF Good, Roles, AtWork
  <2>2. Lists(tc.level[0], Runners(tc, 0)) BY <1>1, Sets DEF Consistent
  <2>3. tc.level[0].now = 0
    <3>1. tc.level[0].now \in Nat BY <2>2, ListFields
    <3>2. tc.level[0].now < 1 BY <2>1, <2>2 DEF Lists
    <3> QED BY <3>1, <3>2
  <2> QED BY <2>1, <2>3 DEF Pointed
<1>3. /\ a \in CtlType /\ a.level = tc.level /\ a.now_lv = 0
      /\ \A t \in Tasks \ {task_a} : a.tasks0[t] = tc.tasks0[t]
      /\ a.tasks0[task_a].flags = Running /\ a.tasks0[task_a].level = 0
      /\ a.tasks0[task_a].priority = 2
  <2>1. [tc.tasks0 EXCEPT ![task_a].priority = 2] \in [Tasks -> TaskType]
    BY <1>1, Sets DEF TaskType
  <2> QED BY <1>1, <2>1, Sets DEF CtlType, TaskType
<1>4. Consistent(a)
  <2>1. \A l \in Levels : Runners(a, l) = Runners(tc, l)
    BY <1>1, <1>3 DEF Runners
  <2> QED BY <1>1, <1>3, <2>1 DEF Consistent
<1>5. /\ Consistent(b) /\ b.now_lv = 0
      /\ b.tasks0 = [a.tasks0 EXCEPT ![task_a].flags = Sleeping]
      /\ b.level[0].running = 0 /\ b.level[0].now = 0
      /\ Pointed(b.level[0]) = task_a
  <2>1. Delisted(task_remove(a, task_a), a, task_a, 0)
    BY <1>3, <1>4, Sets, RemoveOK
  <2> QED BY <1>2, <1>3, <2>1 DEF Delisted
<1>6. /\ \A t \in Tasks \ {task_a} : b.tasks0[t] = tc.tasks0[t]
      /\ b.tasks0[task_a].flags = Sleeping /\ b.tasks0[task_a].level = 0
      /\ b.tasks0[task_a].priority = 2
  <2>1. a.tasks0 \in [Tasks -> TaskType] /\ task_a \in Tasks
    BY <1>3, Sets DEF CtlType
  <2>2. a.tasks0[task_a] \in TaskType BY <2>1
  <2>3. b.tasks0[task_a] = [a.tasks0[task_a] EXCEPT !.flags = Sleeping]
    BY <1>5, <2>1
  <2>4. \A t \in Tasks \ {task_a} : b.tasks0[t] = a.tasks0[t]
    BY <1>5, <2>1
  <2> QED BY <1>3, <2>2, <2>3, <2>4 DEF TaskType
<1>7. r = task_run(b, task_a, 1, 0)
  <2>1. /\ a.tasks0[task_a].flags = Running /\ a.tasks0[task_a].level # 1
        /\ b.tasks0[task_a].flags # Running
    BY <1>3, <1>6, Flags
  <2> DEFINE c == task_add([b EXCEPT !.tasks0[task_a].level = 1], task_a)
  <2>2. ~(1 < 0) /\ 2 > 0 /\ ~(0 > 0) OBVIOUS
  <2>3. NeedsPlace(b, task_a) /\ ~(b.tasks0[task_a].flags = Running /\ b.tasks0[task_a].level # 1)
    BY <2>1 DEF NeedsPlace
  <2>4. r = Announce(c) BY <2>1, <2>2, <2>3, Zenon DEF task_run
  <2>5. task_run(b, task_a, 1, 0) = Announce(c) BY <2>2, <2>3, Zenon DEF task_run
  <2> QED BY <2>4, <2>5
<1>8. Started(r, b, task_a, 1, 0)
  <2>1. 1 \in Levels \ {0} /\ 1 \in Int /\ 0 \in 0..2 /\ ~(1 < 0) BY Sets
  <2>2. b.tasks0[task_a].flags # Running BY <1>6, Flags
  <2>3. Started(task_run(b, task_a, 1, 0), b, task_a, 1, 0)
    BY <1>5, <1>7, <2>1, <2>2, Sets, RunNew
  <2> QED BY <1>7, <2>3
<1>9. AtWork(r, task_a)
  BY <1>5, <1>8, Sets DEF AtWork, Started
<1>10. Roles(r, task_a, "up")
  BY <1>6, <1>8, Flags, Kinds, Sets DEF Good, Roles, Started
<1> QED BY <1>8, <1>9, <1>10 DEF Good, Started

(* The current task falls asleep.                                           *)
LEMMA SleepGood ==
  ASSUME NEW tc, NEW c, Good(tc, c, "up"), c # idle, NEW r, r = SleepSelf(tc, c)
  PROVE  Good(r, task_now(r), "up")
<1> PICK b : b = task_remove(tc, c) OBVIOUS
<1>1. Consistent(tc) /\ c \in Tasks /\ tc.tasks0[c].flags = Running
  BY DEF Good, AtWork
<1>2. /\ Consistent(b)
      /\ b.tasks0 = [tc.tasks0 EXCEPT ![c].flags = Sleeping]
  <2> PICK lv : lv = tc.tasks0[c].level OBVIOUS
  <2>1. Delisted(task_remove(tc, c), tc, c, lv)
    BY <1>1, RemoveOK
  <2> QED BY <2>1 DEF Delisted
<1>3. /\ \A t \in Tasks \ {c} : b.tasks0[t] = tc.tasks0[t]
      /\ b.tasks0[c].flags = Sleeping
      /\ b.tasks0[c].level = tc.tasks0[c].level
      /\ b.tasks0[c].priority = tc.tasks0[c].priority
  BY <1>1, <1>2, CtlFields DEF TaskType
<1>4. PICK k \in Levels : b.level[k].running > 0
  <2>1. b.tasks0[idle].flags = Running BY <1>3, Sets DEF Good, Roles
  <2> QED BY <1>2, <2>1, Sets, LevelOfRunning
<1>5. /\ Consistent(r) /\ AtTop(r) /\ r.lv_change = 0 /\ r.tasks0 = b.tasks0
  <2>1. Switched(task_switchsub(b), b) BY <1>2, <1>4, SwitchsubOK
  <2> QED BY <2>1 DEF Switched, SleepSelf
<1>6. task_now(r) = Pointed(r.level[r.now_lv])
  BY DEF task_now, Pointed
<1>7. AtWork(r, task_now(r))
  BY <1>5, <1>6, OnCurrentLevel DEF AtWork, AtTop
<1>8. Roles(r, task_now(r), "up")
  BY <1>1, <1>3, <1>5, Flags, Kinds, Sets DEF Good, Roles
<1> QED BY <1>5, <1>7, <1>8 DEF Good

(* Task A takes a console out of the scheduler.                             *)
LEMMA CloseGood ==
  ASSUME NEW tc, Good(tc, task_a, "up"),
         NEW task \in Consoles, tc.tasks0[task].flags # Free,
         NEW r, r = [SleepOther(tc, task) EXCEPT !.tasks0[task].flags = Free]
  PROVE  Good(r, task_a, "up")
<1> PICK b : b = SleepOther(tc, task) OBVIOUS
<1>1. /\ Consistent(tc) /\ task \in Tasks /\ task # task_a /\ task # idle
      /\ tc.tasks0[task].level = 2 /\ tc.tasks0[task_a].level = 1
      /\ task_a \in Tasks /\ tc.tasks0[task_a].flags = Running
  BY Kinds, Sets DEF Good, Roles, AtWork
<1>2. tc.now_lv \in {0, 1}
  <2>1. CASE tc.level[tc.now_lv].running > 0
    <3>1. tc.tasks0[task_a].level = tc.now_lv
      BY <1>1, <2>1, OnCurrentLevel DEF Good, AtWork
    <3> QED BY <1>1, <3>1
  <2>2. CASE ~(tc.level[tc.now_lv].running > 0)
    BY <2>2 DEF Good, AtWork
  <2> QED BY <2>1, <2>2
<1>3. /\ Consistent(b)
      /\ b.now_lv = tc.now_lv /\ b.lv_change = tc.lv_change
      /\ \A t \in Tasks \ {task} : b.tasks0[t] = tc.tasks0[t]
      /\ b.tasks0[task].flags # Running
      /\ b.tasks0[task].level = 2
      /\ \A l \in Levels \ {2} : b.level[l] = tc.level[l]
  <2>1. CASE tc.tasks0[task].flags = Running
    <3>1. b = task_remove(tc, task) BY <2>1 DEF SleepOther
    <3>2. Delisted(task_remove(tc, task), tc, task, 2)
      BY <1>1, <2>1, RemoveOK
    <3>3. /\ Consistent(b) /\ b.now_lv = tc.now_lv /\ b.lv_change = tc.lv_change
          /\ b.tasks0 = [tc.tasks0 EXCEPT ![task].flags = Sleeping]
          /\ \A l \in Levels \ {2} : b.level[l] = tc.level[l]
      BY <3>1, <3>2 DEF Delisted
    <3> QED BY <1>1, <3>3, CtlFields, Flags DEF TaskType
  <2>2. CASE tc.tasks0[task].flags # Running
    <3>1. b = tc BY <2>2 DEF SleepOther
    <3> QED BY <1>1, <2>2, <3>1
  <2> QED BY <2>1, <2>2
<1>4. /\ r \in CtlType /\ r.level = b.level
      /\ r.now_lv = b.now_lv /\ r.lv_change = b.lv_change
      /\ \A t \in Tasks \ {task} : r.tasks0[t] = b.tasks0[t]
      /\ r.tasks0[task].flags = Free
  <2>1. b \in CtlType /\ b.tasks0 \in [Tasks -> TaskType]
    BY <1>3, CtlFields DEF Consistent
  <2>2. [b.tasks0 EXCEPT ![task].flags = Free] \in [Tasks -> TaskType]
    BY <1>1, <2>1 DEF TaskType
  <2> QED BY <1>1, <2>1, <2>2 DEF CtlType, TaskType
<1>5. Consistent(r)
  <2>1. \A l \in Levels : Runners(r, l) = Runners(b, l)
    BY <1>3, <1>4, Flags DEF Runners
  <2> QED BY <1>3, <1>4, <2>1 DEF Consistent
<1>6. AtWork(r, task_a)
  <2>1. r.tasks0[task_a] = tc.tasks0[task_a] BY <1>1, <1>3, <1>4
  <2>2. r.level[r.now_lv] = tc.level[tc.now_lv] /\ r.now_lv = tc.now_lv
        /\ r.lv_change = tc.lv_change
    BY <1>2, <1>3, <1>4, Sets
  <2> QED BY <1>1, <1>2, <2>1, <2>2 DEF Good, AtWork
<1>7. Roles(r, task_a, "up")
  BY <1>1, <1>3, <1>4, Flags, Kinds, Sets DEF Good, Roles
<1>8. r.lv_change = 0 => AtTop(r)
  <2> SUFFICES ASSUME r.lv_change = 0 PROVE AtTop(r) OBVIOUS
  <2>1. AtTop(tc) BY <1>3, <1>4 DEF Good
  <2>2. \A l \in Levels : l <= tc.now_lv => r.level[l] = tc.level[l]
    BY <1>2, <1>3, <1>4
  <2>3. tc.now_lv \in Levels /\ tc.now_lv <= tc.now_lv /\ r.now_lv = tc.now_lv
    BY <1>2, <1>3, <1>4, Sets
  <2>4. \A l \in Levels : l < tc.now_lv => l <= tc.now_lv
    BY <1>2, Sets
  <2> QED BY <2>1, <2>2, <2>3, <2>4 DEF AtTop
<1> QED BY <1>5, <1>6, <1>7, <1>8 DEF Good

(* The slice is over: the level's pointer moves on, and if a task has been  *)
(* woken or put on another level, the highest level is looked for.          *)
Moved(tc) ==
  LET tl == tc.level[tc.now_lv]
      n == IF tl.now + 1 = tl.running THEN 0 ELSE tl.now + 1
  IN  [tc EXCEPT !.level[tc.now_lv].now = n]

\* Moving on to the next task of the level keeps the structure consistent.
LEMMA MovedGood ==
  ASSUME NEW tc, NEW c, NEW b, Good(tc, c, b)
  PROVE  /\ Consistent(Moved(tc))
         /\ Moved(tc).tasks0 = tc.tasks0
         /\ Moved(tc).now_lv = tc.now_lv /\ Moved(tc).lv_change = tc.lv_change
         /\ \A l \in Levels : Moved(tc).level[l].running = tc.level[l].running
<1> PICK lv : lv = tc.now_lv OBVIOUS
<1> PICK tl : tl = tc.level[lv] OBVIOUS
<1> PICK n : n = IF tl.now + 1 = tl.running THEN 0 ELSE tl.now + 1 OBVIOUS
<1> PICK u : u = [tl EXCEPT !.now = n] OBVIOUS
<1> PICK t : t = Moved(tc) OBVIOUS
<1>1. /\ tc \in CtlType /\ Consistent(tc) /\ lv \in Levels
      /\ tc.level \in [Levels -> LevelType] /\ tl \in LevelType
  BY CtlFields DEF Good, Consistent
<1>2. Lists(tl, Runners(tc, lv)) BY <1>1 DEF Consistent
<1>3. /\ tl.running \in Nat /\ tl.running <= MAX_TASKS_LV /\ tl.now \in Nat
      /\ tl.running > 0 => tl.now < tl.running
  <2>1. tl.running \in Nat /\ tl.running <= MAX_TASKS_LV /\ tl.now \in Nat
    BY <1>2, ListFields
  <2> QED BY <1>2, <2>1 DEF Lists
<1>4. tl.running > 0 \/ (lv = 0 /\ tl.now = 0)
  BY DEF Good, AtWork
<1>5. n \in Places \cup {1} /\ (tl.running > 0 => n < tl.running)
  <2>1. CASE tl.running > 0
    <3>1. n \in Nat /\ n < tl.running BY <1>3, <2>1
    <3> QED BY <1>3, <3>1, Sets DEF Places
  <2>2. CASE ~(tl.running > 0)
    <3>1. n = 0 \/ n = 1 BY <1>3, <1>4, <2>2
    <3> QED BY <2>2, <3>1, Sets
  <2> QED BY <2>1, <2>2
<1>6. /\ t \in CtlType /\ t.level = [tc.level EXCEPT ![lv] = u]
      /\ t.tasks0 = tc.tasks0 /\ t.now_lv = tc.now_lv /\ t.lv_change = tc.lv_change
  <2>1. u \in LevelType BY <1>1, <1>5 DEF LevelType
  <2>2. t = [tc EXCEPT !.level = [tc.level EXCEPT ![lv] = u]]
    BY <1>1 DEF Moved
  <2>3. [tc.level EXCEPT ![lv] = u] \in [Levels -> LevelType]
    BY <1>1, <2>1
  <2> QED BY <1>1, <2>2, <2>3 DEF CtlType
<1>7. /\ u \in LevelType /\ u.running = tl.running /\ u.tasks = tl.tasks /\ u.now = n
  BY <1>1, <1>5 DEF LevelType
<1>8. \A l \in Levels : t.level[l] = IF l = lv THEN u ELSE tc.level[l]
  BY <1>1, <1>6
<1>9. Lists(u, Runners(tc, lv))
  <2> DEFINE S == Runners(tc, lv)
  <2> HIDE DEF S
  <2>1. /\ S \subseteq Tasks /\ S = {tl.tasks[i] : i \in 0..(tl.running - 1)}
        /\ \A i, j \in 0..(tl.running - 1) : tl.tasks[i] = tl.tasks[j] => i = j
    BY <1>2 DEF Lists, S
  <2>2. /\ S = {u.tasks[i] : i \in 0..(u.running - 1)}
        /\ \A i, j \in 0..(u.running - 1) : u.tasks[i] = u.tasks[j] => i = j
    <3>1. PICK f, m : f = tl.tasks /\ m = tl.running OBVIOUS
    <3>2. /\ S = {f[i] : i \in 0..(m - 1)}
          /\ \A i, j \in 0..(m - 1) : f[i] = f[j] => i = j
      BY <2>1, <3>1
    <3>3. u.tasks = f /\ u.running = m BY <1>7, <3>1
    <3> QED BY <3>2, <3>3
  <2>3. u.running > 0 => u.now < u.running BY <1>5, <1>7
  <2> QED BY <1>7, <2>1, <2>2, <2>3 DEF Lists, S
<1>10. lv # 0 => EmptyAtStart(u)
  <2>1. lv # 0 => tl.running > 0 BY <1>4
  <2>2. ~(tl.running > 0 /\ tl.running = 0) BY <1>3
  <2> QED BY <1>7, <2>1, <2>2 DEF EmptyAtStart
<1>11. Consistent(t)
  <2>1. \A l \in Levels : Runners(t, l) = Runners(tc, l) BY <1>6 DEF Runners
  <2>2. \A l \in Levels : Lists(t.level[l], Runners(tc, l))
    BY <1>1, <1>8, <1>9 DEF Consistent
  <2>3. \A l \in Levels \ {0} : EmptyAtStart(t.level[l])
    BY <1>1, <1>8, <1>10 DEF Consistent
  <2> QED BY <1>6, <2>1, <2>2, <2>3 DEF Consistent
<1> QED BY <1>6, <1>7, <1>8, <1>11

\* After task_switch the task that executes is the current one.
LEMMA TurnGood ==
  ASSUME NEW tc, NEW c, NEW b, Good(tc, c, b), NEW r, r = NextTurn(tc)
  PROVE  Good(r, task_now(r), b) /\ r.tasks0 = tc.tasks0
<1> PICK t : t = Moved(tc) OBVIOUS
<1>1. /\ Consistent(t) /\ t.tasks0 = tc.tasks0
      /\ t.now_lv = tc.now_lv /\ t.lv_change = tc.lv_change
      /\ \A l \in Levels : t.level[l].running = tc.level[l].running
  BY MovedGood
<1>2. r = IF t.lv_change # 0 THEN task_switchsub(t) ELSE t
  BY DEF NextTurn, NextPlace, Moved
<1>3. PICK k \in Levels : t.level[k].running > 0
  <2>1. t.tasks0[c].flags = Running /\ c \in Tasks BY <1>1 DEF Good, AtWork
  <2> QED BY <1>1, <2>1, LevelOfRunning
<1>4. /\ Consistent(r) /\ AtTop(r) /\ r.lv_change = 0 /\ r.tasks0 = tc.tasks0
      /\ \A l \in Levels : r.level[l].running = tc.level[l].running
  <2>1. CASE t.lv_change # 0
    <3>1. Switched(task_switchsub(t), t) BY <1>1, <1>3, SwitchsubOK
    <3> QED BY <1>1, <1>2, <2>1, <3>1 DEF Switched
  <2>2. CASE t.lv_change = 0
    <3>1. AtTop(tc) /\ tc.now_lv \in Levels
      BY <1>1, <2>2, CtlFields DEF Good
    <3>2. AtTop(t) BY <1>1, <3>1 DEF AtTop
    <3> QED BY <1>1, <1>2, <2>2, <3>2
  <2> QED BY <2>1, <2>2
<1> PICK d : d = task_now(r) OBVIOUS
<1>5. d = Pointed(r.level[r.now_lv]) BY DEF task_now, Pointed
<1>6. /\ d \in Tasks /\ r.tasks0[d].flags = Running
      /\ r.tasks0[d].level = r.now_lv
  BY <1>4, <1>5, OnCurrentLevel DEF AtTop
<1>7. AtWork(r, d) BY <1>4, <1>5, <1>6 DEF AtWork, AtTop
<1>8. ASSUME b # "up"
      PROVE  d = task_a /\ r.now_lv = 0 /\ r.level[0].running = 1
  <2>1. r.level[0].running = 1 BY <1>4, <1>8, Sets DEF Good, Roles
  <2>2. r.now_lv = 0
    <3>1. r.now_lv \in Levels BY <1>4, CtlFields
    <3>2. ~(0 < r.now_lv) BY <1>4, <2>1, Sets DEF AtTop
    <3>3. \A x \in Levels : ~(0 < x) => x = 0 BY Sets DEF Levels
    <3> QED BY <3>1, <3>2, <3>3
  <2>3. d = task_a
    <3>1. tc.tasks0[d].flags = Running /\ tc.tasks0[d].level = 0
      BY <1>4, <1>6, <2>2
    <3>2. d # idle
      BY <3>1, Flags, Kinds DEF Good, Roles
    <3>3. d \notin Consoles
      BY <1>8, <3>1, Flags DEF Good, Roles
    <3> QED BY <1>6, <3>2, <3>3, Kinds
  <2> QED BY <2>1, <2>2, <2>3
<1>9. Roles(r, d, b) BY <1>4, <1>8 DEF Good, Roles
<1> QED BY <1>4, <1>7, <1>9 DEF Good

-----------------------------------------------------------------------------
(* The specification *)

\* After task_init, HariMain is the only task and on level 0.
LEMMA InitInv == ASSUME Init PROVE Inv
<1>1. /\ taskctl.now_lv = 0 /\ taskctl.lv_change = 0
      /\ taskctl.level = [l \in Levels |->
           [running |-> IF l = 0 THEN 1 ELSE 0, now |-> 0,
            tasks |-> [i \in Places |->
                         IF l = 0 /\ i = 0 THEN task_a ELSE NoTask]]]
      /\ taskctl.tasks0 = [t \in Tasks |->
           [flags |-> IF t = task_a THEN Running ELSE Free, level |-> 0,
            priority |-> IF t = task_a THEN 2 ELSE 0]]
      /\ taskctl = [now_lv |-> taskctl.now_lv, lv_change |-> taskctl.lv_change,
                    level |-> taskctl.level, tasks0 |-> taskctl.tasks0]
      /\ cpu = task_a /\ slice = 2 /\ boot = "idle"
  BY DEF Init
<1>2. \A l \in Levels : /\ taskctl.level[l].running = IF l = 0 THEN 1 ELSE 0
                        /\ taskctl.level[l].now = 0
                        /\ taskctl.level[l] \in LevelType
  <2>1. {0, 1} \subseteq 0..MAX_TASKS_LV BY MtaskAssumption
  <2> QED BY <1>1, <2>1, Sets DEF LevelType
<1>3. taskctl.level[0].tasks[0] = task_a
  BY <1>1, Sets
<1>4. \A t \in Tasks : /\ taskctl.tasks0[t].flags = IF t = task_a THEN Running ELSE Free
                       /\ taskctl.tasks0[t].level = 0
                       /\ taskctl.tasks0[t].priority = IF t = task_a THEN 2 ELSE 0
                       /\ taskctl.tasks0[t] \in TaskType
  BY <1>1, Sets DEF TaskType
<1>5. taskctl \in CtlType
  <2>1. taskctl.level \in [Levels -> LevelType] BY <1>1, <1>2
  <2>2. taskctl.tasks0 \in [Tasks -> TaskType] BY <1>1, <1>4
  <2> QED BY <1>1, <2>1, <2>2, Sets DEF CtlType
<1>6. \A l \in Levels : Runners(taskctl, l) = IF l = 0 THEN {task_a} ELSE {}
  BY <1>4, Flags, Sets DEF Runners
<1>7. ASSUME NEW l \in Levels PROVE Lists(taskctl.level[l], Runners(taskctl, l))
  <2>1. CASE l = 0
    <3>1. 0..(1 - 1) = {0} OBVIOUS
    <3> QED BY <1>2, <1>3, <1>6, <2>1, <3>1, Sets DEF Lists
  <2>2. CASE l # 0
    <3>1. 0..(0 - 1) = {} OBVIOUS
    <3> QED BY <1>2, <1>6, <2>2, <3>1 DEF Lists
  <2> QED BY <2>1, <2>2
<1>8. Consistent(taskctl)
  BY <1>2, <1>5, <1>7 DEF Consistent, EmptyAtStart
<1>9. Roles(taskctl, cpu, boot)
  BY <1>1, <1>2, <1>4, Flags, Kinds, Sets DEF Roles
<1>10. AtWork(taskctl, cpu)
  BY <1>1, <1>2, <1>3, <1>4, Sets DEF AtWork, Pointed
<1>11. AtTop(taskctl)
  <2>1. \A l \in Levels : ~(l < 0) BY Sets DEF Levels
  <2> QED BY <1>1, <1>2, <2>1, Sets DEF AtTop
<1> QED BY <1>1, <1>8, <1>9, <1>10, <1>11 DEF Inv, Good

(* task_alloc finds a free slot if there is one.                            *)
LEMMA FirstFreeFinds ==
  ASSUME NEW tc, NEW k \in Tasks, tc.tasks0[k].flags = Free
  PROVE  FirstFree(tc) \in Tasks /\ tc.tasks0[FirstFree(tc)].flags = Free
<1> DEFINE S == {t \in Tasks : tc.tasks0[t].flags = Free}
<1>1. PICK m \in S : \A t \in S : m <= t
  <2>1. S \subseteq Nat /\ S # {} BY Sets
  <2> HIDE DEF S
  <2> QED BY <2>1, LeastExists
<1>2. \A u \in 0..(m - 1) : tc.tasks0[u].flags # Free
  <2> SUFFICES ASSUME NEW u \in 0..(m - 1) PROVE tc.tasks0[u].flags # Free
    OBVIOUS
  <2>1. u \in Tasks /\ ~(m <= u)
    <3>1. m \in 0..(MAX_TASKS - 1) BY DEF Tasks
    <3> QED BY <3>1, Sets DEF Tasks
  <2> QED BY <1>1, <2>1
<1>3. \E t \in Tasks : /\ tc.tasks0[t].flags = Free
                       /\ \A u \in 0..(t - 1) : tc.tasks0[u].flags # Free
  BY <1>1, <1>2
<1> QED BY <1>3 DEF FirstFree

\* Every step that overruns no list keeps the invariant.
LEMMA NextInv ==
  ASSUME RoomForAll => Inv, [Next]_vars, RoomForAll'
  PROVE  Inv'
<1> PICK tc : tc = taskctl OBVIOUS
<1> PICK r : r = taskctl' OBVIOUS
<1> USE DEF Inv
<1>1. Good(tc, cpu, boot) /\ Consistent(tc) /\ slice \in 1..2 /\ Fits(r)
      /\ (Step \/ UNCHANGED vars)
  <2>1. UNCHANGED vars => RoomForAll
    BY DEF RoomForAll, vars
  <2>2. RoomForAll /\ (Step \/ UNCHANGED vars)
    BY <2>1 DEF Next, Overrun
  <2> QED BY <2>2 DEF Good, RoomForAll, Fits
<1>2. CASE RunIdle
  <2>1. /\ cpu = task_a /\ boot = "idle" /\ boot' = "task_a" /\ cpu' = cpu
        /\ r = task_run(tc, idle, MAX_TASKLEVELS - 1, 1) /\ slice' = slice
    BY <1>2 DEF RunIdle
  <2> QED BY <1>1, <2>1, RunIdleGood
<1>3. CASE RunTaskA
  <2>1. /\ cpu = task_a /\ boot = "task_a" /\ boot' = "up" /\ cpu' = cpu
        /\ r = task_run(tc, task_a, 1, 2) /\ slice' = slice
    BY <1>3 DEF RunTaskA
  <2> QED BY <1>1, <2>1, RunTaskAGood
<1>4. CASE open_constask
  <2> PICK t : t = FirstFree(tc) OBVIOUS
  <2>1. /\ boot = "up" /\ r = task_run(tc, t, ConsoleLevel, 2)
        /\ cpu' = cpu /\ slice' = slice /\ boot' = "up"
    BY <1>4 DEF open_constask
  <2>2. t \in Tasks /\ tc.tasks0[t].flags = Free
    BY <1>4, FirstFreeFinds DEF open_constask
  <2>3. t # idle /\ t # task_a /\ tc.tasks0[t].flags # Running
    BY <1>1, <2>1, <2>2, Flags, Kinds DEF Good, Roles
  <2>4. /\ ConsoleLevel \in Levels \ {0} /\ ConsoleLevel \in Int
        /\ ~(ConsoleLevel < 0) /\ 2 \in 0..2
    BY Kinds, Sets
  <2>5. Started(task_run(tc, t, ConsoleLevel, 2), tc, t, ConsoleLevel, 2)
    <3>1. Fits(task_run(tc, t, ConsoleLevel, 2)) BY <1>1, <2>1
    <3> QED BY <1>1, <2>2, <2>3, <2>4, <3>1, RunNew
  <2>6. Good(r, cpu, "up")
    BY <1>1, <2>1, <2>2, <2>3, <2>5, StartGood
  <2> QED BY <1>1, <2>1, <2>6
<1>5. ASSUME NEW task \in Tasks, boot = "up", boot' = boot, cpu' = cpu,
             slice' = slice, r = task_run(tc, task, -1, 0),
             tc.tasks0[task].flags = Sleeping
      PROVE  Inv'
  <2>1. task # idle /\ tc.tasks0[task].flags # Running /\ tc.tasks0[task].flags # Free
    BY <1>1, <1>5, Flags DEF Good, Roles
  <2> PICK lv : lv = IF task = task_a THEN 1 ELSE ConsoleLevel OBVIOUS
  <2>2. lv \in Levels \ {0} /\ lv = tc.tasks0[task].level
    BY <1>1, <1>5, <2>1, Kinds, Sets DEF Good, Roles
  <2>3. -1 \in Int /\ -1 < 0 /\ 0 \in 0..2 OBVIOUS
  <2>4. Started(task_run(tc, task, -1, 0), tc, task, lv, 0)
    <3>1. Fits(task_run(tc, task, -1, 0)) BY <1>1, <1>5
    <3> QED BY <1>1, <2>1, <2>2, <2>3, <3>1, RunNew
  <2>5. Good(r, cpu, "up")
    BY <1>1, <1>5, <2>1, <2>4, StartGood
  <2> QED BY <1>1, <1>5, <2>5
<1>6. ASSUME NEW task \in Tasks, Wake(task) PROVE Inv'
  BY <1>5, <1>6 DEF Wake
<1>7. ASSUME NEW task \in Tasks, Break(task) PROVE Inv'
  <2>1. /\ boot = "up" /\ boot' = boot /\ cpu' = cpu /\ slice' = slice
        /\ r = task_run(tc, task, -1, 0)
    BY <1>7 DEF Break
  <2>2. CASE tc.tasks0[task].flags = Running
    <3>1. r = [tc EXCEPT !.lv_change = 1] BY <1>1, <2>1, <2>2, RunAgain
    <3>2. Good(r, cpu, boot) BY <1>1, <3>1, AgainGood
    <3> QED BY <1>1, <2>1, <3>2
  <2>3. CASE tc.tasks0[task].flags = Sleeping
    BY <1>5, <2>1, <2>3
  <2> QED BY <1>1, <1>7, <2>2, <2>3, CtlFields DEF Break
<1>8. CASE SleepCurrent
  <2>1. /\ boot = "up" /\ cpu # idle /\ r = SleepSelf(tc, cpu)
        /\ cpu' = task_now(r) /\ slice' = slice /\ boot' = boot
    BY <1>8 DEF SleepCurrent
  <2> QED BY <1>1, <2>1, SleepGood
<1>9. ASSUME NEW task \in Tasks, close_constask(task) PROVE Inv'
  <2>1. /\ boot = "up" /\ cpu = task_a /\ task \in Consoles
        /\ tc.tasks0[task].flags # Free
        /\ r = [SleepOther(tc, task) EXCEPT !.tasks0[task].flags = Free]
        /\ cpu' = cpu /\ slice' = slice /\ boot' = boot
    BY <1>9 DEF close_constask
  <2> QED BY <1>1, <2>1, CloseGood
<1>10. CASE Tick
  <2>1. r = tc /\ cpu' = cpu /\ boot' = boot /\ slice' \in 1..2
    BY <1>1, <1>10 DEF Tick
  <2> QED BY <1>1, <2>1
<1>11. CASE task_switch
  <2>1. /\ r = NextTurn(tc) /\ cpu' = task_now(r) /\ boot' = boot
        /\ slice' = tc.tasks0[cpu'].priority
    <3>1. task_now(tc) = cpu BY <1>1 DEF Good, AtWork, task_now, Pointed
    <3> QED BY <1>11, <3>1 DEF task_switch
  <2>2. Good(r, cpu', boot) /\ r.tasks0 = tc.tasks0
    BY <1>1, <2>1, TurnGood
  <2>3. slice' \in 1..2
    BY <2>1, <2>2, Flags DEF Good, Roles, AtWork
  <2> QED BY <2>1, <2>2, <2>3
<1>12. CASE UNCHANGED vars
  <2>1. r = tc /\ cpu' = cpu /\ boot' = boot /\ slice' = slice
    BY <1>12 DEF vars
  <2> QED BY <1>1, <2>1
<1> QED
  BY <1>1, <1>2, <1>3, <1>4, <1>6, <1>7, <1>8, <1>9, <1>10, <1>11, <1>12 DEF Step

\* The types are part of the invariant.
LEMMA InvTypeOK == ASSUME Inv PROVE TypeOK
<1>1. /\ taskctl \in CtlType /\ cpu \in Tasks /\ slice \in 1..2
      /\ boot \in {"idle", "task_a", "up"}
  BY DEF Inv, Good, Consistent, Roles, AtWork
<1> QED BY <1>1 DEF TypeOK, CtlType, LevelType, TaskType

\* The lists of the invariant hold exactly the running tasks.
LEMMA InvLists == ASSUME Inv PROVE ListsExact /\ NowInList
<1>1. \A l \in Levels : Lists(taskctl.level[l], Runners(taskctl, l))
  BY DEF Inv, Good, Consistent
<1> QED BY <1>1 DEF Lists, Runners, ListsExact, NowInList, Listed, State

\* The task at work is the current one.
LEMMA InvCurrent == ASSUME Inv PROVE NowIsCurrent
BY DEF Inv, Good, AtWork, NowIsCurrent, task_now, Pointed, State

\* No running task is above the task at work, unless lv_change is set.
LEMMA InvHighest == ASSUME Inv PROVE HighestLevelRuns
<1> SUFFICES ASSUME taskctl.lv_change = 0, NEW t \in Tasks, State(t) = Running
             PROVE  taskctl.tasks0[t].level >= taskctl.tasks0[cpu].level
  BY DEF HighestLevelRuns
<1>1. Consistent(taskctl) /\ AtTop(taskctl) /\ AtWork(taskctl, cpu)
  BY DEF Inv, Good
<1>2. taskctl.tasks0[cpu].level = taskctl.now_lv
  BY <1>1, OnCurrentLevel DEF AtTop, AtWork
<1> PICK lv : lv = taskctl.tasks0[t].level OBVIOUS
<1>3. lv \in Levels /\ taskctl.level[lv].running > 0
  BY <1>1, LevelOfRunning DEF State
<1>4. ~(lv < taskctl.now_lv)
  BY <1>1, <1>3 DEF AtTop
<1>5. taskctl.now_lv \in Levels BY <1>1, CtlFields
<1>6. \A x, y \in Levels : ~(x < y) => x >= y BY Sets DEF Levels
<1> QED BY <1>2, <1>3, <1>4, <1>5, <1>6

(* For every number of tasks, places and levels, until task_add writes      *)
(* behind a list: the lists hold exactly the tasks that run, and the level  *)
(* pointers stay inside them; no task is lost by mtask.c and none is left   *)
(* behind when its console is closed.                                       *)
THEOREM NoTaskLost == Spec => []ListsOK
<1>1. Init => (RoomForAll => Inv) BY InitInv
<1>2. (RoomForAll => Inv) /\ [Next]_vars => (RoomForAll => Inv)' BY NextInv
<1>3. (RoomForAll => Inv) => ListsOK
  BY InvTypeOK, InvLists DEF ListsOK
<1> QED BY <1>1, <1>2, <1>3, PTL DEF Spec

(* For every number of tasks, places and levels, until task_add writes      *)
(* behind a list: task_now() is the task that executes, and it is on the    *)
(* highest level that has a running task unless a switch of levels is       *)
(* pending.                                                                 *)
THEOREM RightTaskRuns == Spec => []RightTask
<1>1. Init => (RoomForAll => Inv) BY InitInv
<1>2. (RoomForAll => Inv) /\ [Next]_vars => (RoomForAll => Inv)' BY NextInv
<1>3. (RoomForAll => Inv) => RightTask
  BY InvCurrent, InvHighest DEF RightTask
<1> QED BY <1>1, <1>2, <1>3, PTL DEF Spec
=============================================================================
