SPECIFICATION Spec
CONSTANTS
  Task = {t1, t2}
  NoTask = NoTask
  Name <- Files
  NoName = NoName
  DirName <- Dirs
  Listing <- Names
  Who <- Answers
  NoOne <- Nobody
  Unknown = Unknown
  MaxDepth = 1
  MaxUploads = 2
SYMMETRY Symmetric
PROPERTIES DeletesSelected
