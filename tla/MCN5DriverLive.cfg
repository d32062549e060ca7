\* Any number of errors, two threads, one channel.
SPECIFICATION FairSpec
CONSTANTS
  Channels = {3}
  CurvePoints <- MCCurvePoints
  Duty = {0, 255}
  Threads = {t1, t2}
  Writable = TRUE
INVARIANTS
  NoAccessWhenDead
PROPERTIES
  UnbindEnds
  OwnershipKept
