CONSTANTS
  MaxEpoch = 3
  r1 = r1
  r2 = r2
  CasReaders = {r1, r2}
  CasFiles = {"f", "g", "h", "s", "z"}
  SizeOf <- MCSizes
  ReadsOf <- MCReads
  CHUNK_SIZE = 2
  MAX_CHUNKS = 2
  OBJECT_CAP = 1
  MAX_FILE_SIZE = 5
  MAX_BUFFERED = 3
  READ_SCRATCH = 2
  CACHE_ENTRIES = 1
  INDEX_OVERHEAD = 1
  INDEX_LIMIT = 7
  OUTPUT_LIMIT = 4
  CONSTRUCTION_LIMIT = 4
  MaxReads = 3
  MaxFaults = 1
  Lower <- MCLower
  UpperTrees <- MCUppers
  RootIno = 1
  Spare = {6, 7}
  max_nodes = 5
  max_bytes = 2
  max_depth = 2
  MaxHostWrites = 2
  t1 = t1
  t2 = t2
  RangeTasks = {t1, t2}
  RangesOf <- MCRanges
  FILE_SIZE = 5
  CHUNK_CELLS = 2
  CHUNKS_PER_PAGE = 2
  CACHED_CHUNKS = 2
  CACHED_LEAVES = 1
  OUTPUT_CREDITS = 7
  RANGE_LIMIT = 3
  Pool = {1, 2, 3, 4}
  MaxRanges = 3
  MaxBadReplies = 1
SPECIFICATION StoreSpec
INVARIANTS
  StoreTypeOK
  PromisesSurvive
  HalfDoneIsSafe
  CasReadsTrue
  CasCharges
PROPERTIES
  DiffSound
  RangesSound
  StoreSettles
