\* Everything that may happen, and the daemon itself goes on.
SPECIFICATION FairSpec
CONSTANTS
  Channels = {3}
  Conf <- MCConf
  StepUp = 85
  StepDown = 85
  StallMinDuty = 60
  StallCycles = 2
  HddStopPwm = 140
  Refresh = 2
  Resolve = 4
  Temps = {40, 80, 90}
  Rpms <- MCRpms
  Overrides = {100}
  Disturbances = {"sensor", "write", "foreign", "unload", "load", "term", "kill", "override"}
INVARIANTS
  TypeOK
  EmergencySoon
  SensorFaultIsFull
  StoppedSafe
PROPERTIES
  LowersSlowly
  FindsDriver
