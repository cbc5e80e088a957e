SPECIFICATION FairSpec
CONSTANTS
  MaxEntries = 3
  Chunk = 2
  ImageSectors = 5
  ImageBase = 56
  HeapStart = 4
  HeapSize = 27
  KernelLoad = 40
  PageSize = 2
  HugePage = 8
  GiB = 64
  HhdmMax = 192
  Word32 = 256
  Memory <- MCMemory
  Machines <- MCMachines
  Stale <- MCStale
  Volumes <- MCVolumes
INVARIANTS BundleComplete HeapSound KernelInPlace HhdmReachesUsable
 
