\* A state directory that no longer takes writes (two failed ones suffice).
SPECIFICATION Spec
CONSTANTS
  Channels = {1, 3}
  Args <- MCArgs
  ConfigFile = "read"
  Stops <- MCStops
  FaultKinds = {"file"}
  MaxFaults = 2
  MaxRuns = 1
PROPERTIES
  RaisedStaysAlways
