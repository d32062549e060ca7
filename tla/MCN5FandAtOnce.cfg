\* Nothing goes wrong but the temperature and the fan.
SPECIFICATION Spec
CONSTANTS
  Channels = {3}
  Conf <- MCConf
  StepUp = 85
  StepDown = 85
  StallMinDuty = 60
  StallCycles = 2
  HddStopPwm = 140
  Refresh = 3
  Resolve = 6
  Temps = {40, 60, 80, 90}
  Rpms <- MCRpms
  Overrides = {100}
  Disturbances = {}
INVARIANTS
  EmergencyAtOnce
