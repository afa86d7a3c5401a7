SPECIFICATION Spec
CONSTANTS
  Task = {t1, t2, t3}
  Worker = {w1, w2}
  LastStep = 1
  NoTask = none
  NoStep = nostep
  MaxFaults = 1
SYMMETRY Symmetry
INVARIANTS
  TypeOK
  StepOnce
  StepsInOrder
PROPERTIES
  EndedStaysEnded
CHECK_DEADLOCK FALSE
