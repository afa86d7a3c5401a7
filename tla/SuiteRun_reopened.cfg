SPECIFICATION Spec
CONSTANTS
  Task = {t1, t2}
  Worker = {w1, w2}
  LastStep = 1
  NoTask = none
  NoStep = nostep
  MaxFaults = 0
PROPERTIES
  EndedRunFinal
CHECK_DEADLOCK FALSE
