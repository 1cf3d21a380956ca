CONSTANTS
  kMaxHeaderLength = 8
  MaxPieces = 6
  Int64Half = 32
  IntHalf = 4
  UsPerMs = 4
SPECIFICATION Spec
INVARIANTS
  ParserFollowsLines
  DecodeInvertsEncode
  URISurvives
  EpollKeepsDeadline
CHECK_DEADLOCK FALSE
