SPECIFICATION FairSpec
CONSTANTS
  Task = {t1, t2}
  Worker = {w1}
  LastStep = 1
  NoTask = none
  NoStep = nostep
  MaxFaults = 0
PROPERTIES
  EndedStepIsNoticed
CHECK_DEADLOCK FALSE
