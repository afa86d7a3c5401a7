SPECIFICATION Spec
CONSTANTS
  Task = {t1}
  Node = {n1, n2}
  Handler = {h1, h2}
  Sweeper = sw
  NoTask = none
  MaxFaults = 0
INVARIANTS
  CompletedMeansSuccess
CHECK_DEADLOCK FALSE
