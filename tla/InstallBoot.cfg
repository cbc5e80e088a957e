SPECIFICATION FairSpec
CONSTANTS
  NumSectors = 8
  NotCached = NotCached
  Images = {"v1", "v2", "wraps", "empty", "huge"}
  SectorsOf <- MCSectorsOf
  MbrFiles = {"good", "bad"}
  ValidMbr = {"good"}
  Lbas = {0, 1, 3, 6}
  MaxLba = 5
  U16Max = 6
  MaxRuns = 2
  Chunk = 2
  StartSlot = 2
  CodeSlot = 1
  RamTop = 5
  MemSlots = 6
  Free = Free
INVARIANTS TypeOK FreshOnDisk NoCrossing LoaderSurvives LoadedWhole FreshBoots
PROPERTIES BootEnds
CHECK_DEADLOCK FALSE
