SPECIFICATION Spec
CONSTANTS
  Req = {r1, r2, r3}
  Suffix = {x1, x2, x3}
  s1 = s1
  Dir = Dir
  NoSuffix = NoSuffix
  BaseName <- Names
  DotName <- Dots
  Ino <- Inodes
  Seed <- SeedFiles
  InitTree <- Share
  Op <- UploadOps
  Target <- UploadTargets
  PermSet <- AllPerms
  Size = {2}
  RangeHdr <- NoRange
  Fault <- Faults
  MaxTime = 0
SYMMETRY Symmetric
INVARIANTS TypeOK WholeFiles
PROPERTIES CommitStoresUpload FilesOnlyReplaced ReplyAfterCleanUp ImplementsStore
