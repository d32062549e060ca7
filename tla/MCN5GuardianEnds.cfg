\* Every kind of fault, two of them.
SPECIFICATION FairSpec
CONSTANTS
  Channels = {1, 3}
  Args <- MCArgs
  ConfigFile = "read"
  Stops <- MCStops
  FaultKinds = {"file", "command", "timeout", "killWorker", "killGuardian", "killRestore", "panic", "reload"}
  MaxFaults = 2
  MaxRuns = 1
PROPERTIES
  RunEnds
  OpenIsClosed
