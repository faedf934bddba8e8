CONSTANTS
  MAX_TASKS = 6
  MAX_TASKS_LV = 3
  MAX_TASKLEVELS = 4
SPECIFICATION Spec
INVARIANTS ListsOK RightTask
PROPERTIES ConsolesServed
