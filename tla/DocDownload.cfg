SPECIFICATION Spec
CONSTANTS
  Req = {r1, r2}
  Suffix = {x1, x2}
  s1 = s1
  Dir = Dir
  NoSuffix = NoSuffix
  BaseName <- Names
  DotName <- Dots
  Ino <- Inodes
  Seed <- SeedFiles
  InitTree <- Share
  Op <- DownloadOps
  Target <- UploadTargets
  PermSet <- AllPerms
  Size = {3}
  RangeHdr <- NoRange
  Fault <- NoFaults
  MaxTime = 0
SYMMETRY Symmetric
INVARIANTS FullDownloadIsWhole
