\* The operator does nothing but retry recovery.
SPECIFICATION FairSpec
CONSTANTS
  Runs = {r1}
  Procs = {p1, p2}
  NoProc = NoProc
  MaxFaults = 1
  MaxSequence = 7
  Targets = {}
  Commands = {"acquire", "recover"}
CHECK_DEADLOCK FALSE
PROPERTIES
  EveryRunSettles
