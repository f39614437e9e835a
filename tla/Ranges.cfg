SPECIFICATION Spec
CONSTANTS
  MaxByte = 6
  MaxTotal = 5
INVARIANTS ReplyIsExact RefusedOnlyOutside
