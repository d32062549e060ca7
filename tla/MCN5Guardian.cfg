SPECIFICATION Spec
CONSTANTS
  Channels = {1, 3, 4}
  Args <- MCArgs
  ConfigFile = "read"
  Stops <- MCStops
  FaultKinds = {"file", "command", "timeout", "killWorker", "killGuardian", "killRestore", "panic", "reload"}
  MaxFaults = 3
  MaxRuns = 1
INVARIANTS
  TypeOK
  OffDutyIsRecorded
  OneWriter
PROPERTIES
  MarkIsTrue
  OpenFileKept
  RaisedStays
