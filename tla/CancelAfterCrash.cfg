\* One failure inside an acquisition, then "runs cancel".
SPECIFICATION AcquisitionSpec
CONSTANTS
  Runs = {r1}
  Procs = {p1, p2}
  NoProc = NoProc
  MaxFaults = 1
  MaxSequence = 7
  Targets = {}
  Commands = {"acquire", "cancel"}
CHECK_DEADLOCK FALSE
INVARIANTS
  LedgersVerify
