SPECIFICATION Spec
CONSTANTS
  Configs <- MCConfigs
  Word = 16
  TicksPerSecond = 2
  MaxKeys = 3
  Pages = {p1, p2, p3, p4, p5, p6}
  RuntimePages = {p6}
  Arches = {"x86_64"}
  Volumes <- MCVolumes
  NoMap = NoMap
INVARIANT LockedEditorStaysClosed
CHECK_DEADLOCK FALSE
