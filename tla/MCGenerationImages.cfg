SPECIFICATION GenerationSpec
CONSTANTS
  Intrinsics = {"int"}
  MinIndex = 4
  Headroom = 3
  IntBits = 2
  LongBits = 3
  NoState = NoState
  Absent = Absent
  NoFile = NoFile
  NoBlock = NoBlock
  NoSnapshot = NoSnapshot
  Hole = Hole
  Sources = {1, 2, 3}
  SourceFacts <- MCSourceFacts
  MaxUpdates = 3
  MinSlots = 4
  Fingerprints = 3
  Spread = 2
  NameHash <- MCNameHash
  NameLength <- MCNameLength
  PathHash <- MCPathHash
  PathLength <- MCPathLength
  TextLength <- MCTextLength
  TextFacts <- MCTextFacts
  TextIncludes <- MCTextIncludes
  Normalize <- MCNormalize
  Disks <- MCDisks
  Roots <- MCRoots
  Ancestors <- MCAncestors
  BloomHashes = 2
  BloomBits = 4
  MinBloom = 4
  SparseExtents = 8
  MaxExtents = 10
  CarrierReserve = 2
  NoImage = NoImage
  LaunchOutcomes = {"started"}
INVARIANTS
  DependentsInverse
  EverySourceResolves
  RefusedForCause
  EveryBuildSaves
  EncodedVerifies
  CompiledIsProject
  SourcesAreManager
  CacheIsProject
  GatesCoverSources
CHECK_DEADLOCK FALSE
