\* As AcquisitionSafety, under fairness.
SPECIFICATION FairSpec
CONSTANTS
  Runs = {r1, r2}
  Procs = {p1, p2}
  NoProc = NoProc
  MaxFaults = 2
  MaxSequence = 7
  Targets = {}
  Commands = {"acquire", "recover", "inspect"}
CHECK_DEADLOCK FALSE
PROPERTIES
  EveryRunSettles
