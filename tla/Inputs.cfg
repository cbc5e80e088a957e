SPECIFICATION Spec
CONSTANTS
  FatVolumes <- MCFatVolumes
  FatPaths <- MCFatPaths
  FatBuffers <- MCFatBuffers
  PerCluster = 3
  EndOfChain = 15
  SegLen = 2
  MaxSegments = 2
  BaseLen = 2
  ExtLen = 1
  NoAnswer = NoAnswer
  IoFailed = IoFailed
  ExtVolumes <- MCExtVolumes
  ExtPaths <- MCExtPaths
  ExtBuffers <- MCExtBuffers
  BlockBytes = 2
  DirUnits = 3
  DescPerBlock = 2
  InodesPerBlock = 2
  PtrsPerBlock = 2
  NDirect = 3
  NoReply = NoReply
  ReadFailed = ReadFailed
  IsoVolumes <- MCIsoVolumes
  IsoPaths <- MCIsoPaths
  IsoBuffers <- MCIsoBuffers
  SectorBytes = 2
  SectorUnits = 3
  PvdSector = 3
  LastVd = 4
  NoIsoReply = NoIsoReply
  IsoReadFailed = IsoReadFailed
  LegacyDisks <- MCLegacyDisks
  ConfPath <- MCConfPath
  ConfBuffer = 3
  SectorsPerRead = 2
  LegacyKeys <- MCLegacyKeys
  MaxKeys = 4
  ConfigFiles <- MCConfigFiles
  SmbiosTables <- MCSmbiosTables
  BuiltIns <- MCBuiltIns
  NumberTexts <- MCNumbers
  Yes <- MCYes
  No <- MCNo
  Cmdlines <- MCCmdlines
  Chars = {"a", "b"}
  MaxBuffer = 3
  Refused <- MCRefused
  CellValues = {"S", "0", "x", "y", "h1", "h2", "g1", "g2"}
  Binaries <- MCBinaries
  Configs = {"one", "two"}
  HashOf <- MCHashOf
  HashLen = 2
  Sig = "S"
  Zero = "0"
  MaxEnrolls = 2
  ElfKernels <- MCElfKernels
  AddressEnd = 128
  PageLen = 4
  WordLen = 2
  ImageBase = 64
  SlotLen = 4
  Slots <- MCSlots
  MemLen = 24
  Bases = {4, 8}
  Attempts = 3
  Randoms = {1, 5, 6}
  PeFiles <- MCPeFiles
  PeImages <- MCPeImages
  PeTables <- MCPeTables
  Damages <- MCDamages
  Whole = Whole
  Deltas <- MCDeltas
  Radix = 8
  Kinds = 16
INVARIANTS   CommitsOnlyValidated   PeRelocates
PROPERTIES FatServes ExtServes IsoServes
CHECK_DEADLOCK FALSE
