SPECIFICATION FairSpec
CONSTANTS
  Configs <- MCConfigs
  Word = 16
  TicksPerSecond = 2
  MaxKeys = 3
  Pages = {p1, p2, p3, p4, p5, p6}
  RuntimePages = {p6}
  Arches = {"x86_64", "aarch64", "loongarch64"}
  Volumes <- MCVolumes
  NoMap = NoMap
INVARIANTS SelectionInRange  LoadedNotUsable HandoffMapped
PROPERTIES BootEnds
CHECK_DEADLOCK FALSE
