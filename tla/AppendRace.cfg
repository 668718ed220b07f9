\* "runs cancel" beside recovery; nothing fails.
SPECIFICATION AcquisitionSpec
CONSTANTS
  Runs = {r1}
  Procs = {p1, p2}
  NoProc = NoProc
  MaxFaults = 0
  MaxSequence = 7
  Targets = {}
  Commands = {"acquire", "recover", "cancel"}
CHECK_DEADLOCK FALSE
PROPERTIES
  EvidenceImmutable
