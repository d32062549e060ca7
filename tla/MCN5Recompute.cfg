\* Three odd things anywhere in a run of map or handback.
SPECIFICATION Spec
CONSTANTS
  Tests = {"map", "handback"}
  Channels = {3, 4}
  T1Steps <- MCT1Steps
  Repeat = 2
  Hold = 2
  Pre = 2
  Observe = 2
  Window = 1
  Sensors = {"cpu", "hdd"}
  LostAfter = 3
  ChannelOf <- MCChannelOf
  MaxOdd = 3
INVARIANTS
  LostInARow
  LastSlotSampled
  CleanMeansFinished
  FinishedIsClean
PROPERTIES
  WritesAllowed
CHECK_DEADLOCK FALSE
