SPECIFICATION LiveSpec
CONSTANTS
  Task = {t1}
  Node = {n1, n2}
  Handler = {h1}
  Sweeper = sw
  NoTask = none
  MaxFaults = 1
  OtherSweeper = {}
INVARIANTS
  OrderlyClose
PROPERTIES
  SignalEnds
  PulledSettles
CHECK_DEADLOCK FALSE
