\* The lock file may be created twice; two duties.
SPECIFICATION Spec
CONSTANTS
  Runs = {r1, r2}
  MaxFiles = 2
  Channels = {3}
  Duty = {140, 255}
SYMMETRY RunSymmetry
INVARIANTS
  PassIsOwn
  NeverBlamed
  OneRunPasses
