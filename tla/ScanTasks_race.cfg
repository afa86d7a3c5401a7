SPECIFICATION SceneSpec
CONSTANTS
  Task = {t1, t2}
  Node = {n1, n2}
  Handler = {h1, h2}
  Sweeper = sw
  NoTask = none
  MaxFaults = 1
SYMMETRY Symmetry
INVARIANTS
  TypeOK
  StatusJustified
  HandedToOne
PROPERTIES
  ImplementsQueue
  ImplementsLife
  AssignmentForward
  TerminalOnceQuiet
  DeletedFrozen
CHECK_DEADLOCK FALSE
