\* SSD (the EC's automatic on every hand-back), HDD (full speed on shutdown
\* only) and PCIe (full speed on every hand-back), one thread.
SPECIFICATION Spec
CONSTANTS
  Channels = {1, 2, 3}
  CurvePoints <- MCCurvePoints
  Duty = {0, 255}
  Threads = {t1}
  Writable = TRUE
CONSTRAINT FewErrors
INVARIANTS
  TypeOK
  NoForgottenChannel
  NoMixedCurve
  CacheTruth
  UnrestoredIsRetried
PROPERTIES
  LowerOnlyOnRequest
