\* Replies with up to two matches of a critical, a high and a medium pattern.
SPECIFICATION Spec
CONSTANTS
  MaxNodes = 1
  TextLen = 3
  MaxMatches = 2
  PatternLevel <- Levels
  MarkLen = 2
  Payloads <- Cards
INVARIANT HigherPriorityKept
CHECK_DEADLOCK FALSE
