\* The clock starts at Cooldown + 1; two annotations, one death or kill; rows and saves at any time.
SPECIFICATION Spec
CONSTANTS
  Gap = 1
  Cooldown = 2
  Annotators = {a1, a2}
  MaxClock = 8
  MaxDies = 1
SYMMETRY AnnotatorSymmetry
INVARIANTS
  NoFalseAlarm
  SumsHold
PROPERTIES
  OncePerHour
CHECK_DEADLOCK FALSE
