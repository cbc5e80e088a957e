SPECIFICATION Spec
CONSTANTS
  PAGE_SIZE = 2
  AddrSpace = 16
  Bases = {0, 3, 6}
  Lengths = {4, 9}
  E820Types = {1, 2, 3}
  MaxEntries = 3
  RawMaps <- MCAllMaps
  Counts = {1}
  Marks = {}
  MaxOps = 0
INVARIANT
  RegionsNonOverlapping
