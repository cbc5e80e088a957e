SPECIFICATION Spec
CONSTANTS
  Configs <- MCConfigs
  Word = 16
  TicksPerSecond = 2
  MaxKeys = 3
  Pages = {p1, p2, p3, p4, p5, p6}
  RuntimePages = {p6}
  Arches = {"riscv64"}
  Volumes <- MCVolumes
  NoMap = NoMap
INVARIANT HandoffMapped
CHECK_DEADLOCK FALSE
