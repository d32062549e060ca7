SPECIFICATION FairSpec
CONSTANTS
  RunLen = 3
  GapMax = 1
  CheckEvery = 2
  DailyEvery = 2
  Cooldown = 2
  K1Max = 1
  EvidenceMax = 1
  PendingMax = 2
  MailMax = 1
  OutboxMax = 1
  MaxLines = 2
  MaxSlow = 1
  Sources = {"journal", "kmsg"}
  Limit <- MCAll
  MaxFaults = 2
INVARIANTS
  TypeOK
  HitsKept
  HitsMailed
  FinalCheck
  BreaksReported
PROPERTIES
  RunEnds
CHECK_DEADLOCK FALSE
