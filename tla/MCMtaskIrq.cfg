CONSTANTS
  MAX_TASKS = 5
  MAX_TASKS_LV = 6
  MAX_TASKLEVELS = 4
SPECIFICATION IrqSpec
INVARIANTS NowKnowsTask
