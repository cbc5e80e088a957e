SPECIFICATION Spec
CONSTANTS
  PageBytes = 2
  Fanout = 2
  AddressLimit = 64
  HhdmBase = 48
  Layouts <- MCLayouts
  FrameCounts = {0, 1, 2, 3, 4, 5, 6, 7, 8, 9, 10, 11, 12}
  BzImages <- MCBzImages
  LoadAddresses = {1, 7, 9}
  CmdlineAddresses = {2, 8}
  Initrds <- MCInitrds
  MemoryMaps <- MCMemoryMaps
  HeaderCells = 10
  SectorCells = 6
  PageCells = 18
  MaxE820 = 2
  MinVersion = 1
  Limit32 = 8
  Limit64 = 16
  NoInitrd = NoInitrd
  Kernels <- MCKernels
  WordLimit = 256
  Magic <- MCMagic
  SearchLimit <- MCSearchLimit
  BootInfos <- MCBootInfos
  InfoTags <- MCInfoTags
  MaxInfoTags = 3
  Firmware <- MCFirmware
  Processors = {0, 1, 2}
  Bsp = 0
  Pml4 = 4096
  Blobs <- MCBlobs
  DecoderBytes = 11264
  LoadedAt = 458752
  ArgLists <- MCArgLists
  SecondsOf <- MCSecondsOf
  Missing <- MCMissing
  Firmwares <- MCFirmwares
  Devices = {TRUE, FALSE}
  Unreadable = "bytes"
  CommandLines <- MCCommandLines
  Words <- MCWords
  Variables <- MCVariables
  Unset = "unset"
  TuiBuilt = TRUE
INVARIANTS TablesHold ZeroPageTells MultibootAgrees SmpStartsEach  VerdictSound 
PROPERTY TestEnds
CHECK_DEADLOCK FALSE
