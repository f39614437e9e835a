SPECIFICATION Spec
CONSTANTS
  Req = {r1, r2, r3}
  Suffix = {x1, x2, x3}
  s1 = s1
  Dir = Dir
  NoSuffix = NoSuffix
  BaseName <- Names
  DotName <- Dots
  Ino <- Inodes
  Seed <- SeedFiles
  InitTree <- Share
  Op <- UploadDelete
  Target <- FileTarget
  PermSet <- AllPerms
  Size = {1}
  RangeHdr <- NoRange
  Fault <- NoFaults
  MaxTime = 0
SYMMETRY Symmetric
PROPERTIES DeletesNeverClash
