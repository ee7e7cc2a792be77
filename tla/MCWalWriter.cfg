CONSTANTS
  WordBytes = 2
  SectorBytes = 4
  PageBytes = 8
  Watermark = 10
  Sizes = {1, 6, 17}
  MaxBytes = 40
  MaxFailures = 1
SPECIFICATION Spec
CHECK_DEADLOCK FALSE
INVARIANTS NothingReordered NoOverrun LengthNotTorn
PROPERTIES PageChunks
