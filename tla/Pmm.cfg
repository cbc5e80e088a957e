SPECIFICATION FairSpec
CONSTANTS
  PAGE_SIZE = 2
  AddrSpace = 16
  Bases = {0, 3, 6}
  Lengths = {4, 9}
  E820Types = {1, 2, 3}
  MaxEntries = 3
  RawMaps <- MCShallowMaps
  Counts = {0, 1, 2}
  Marks <- MCMarks
  MaxOps = 2
INVARIANTS
  TypeOK
  AllocationsDescend
  RegionsNonOverlapping
PROPERTIES
  CallsKeepDisjoint
  CallsReturn
  ImplementsMap
