SPECIFICATION FairSpec
CONSTANTS
  Req = {r1, r2}
  Suffix = {x1, x2}
  s1 = s1
  Dir = Dir
  NoSuffix = NoSuffix
  BaseName <- Names
  DotName <- Dots
  Ino <- Inodes
  Seed <- SeedFiles
  InitTree <- Share
  Op <- AllOps
  Target <- AllTargets
  PermSet <- SomePerms
  Size = {0, 2}
  RangeHdr <- Ranges
  Fault <- Faults
  MaxTime = 1
INVARIANTS DownloadUntorn
PROPERTIES AnswersOrWaits
