\* Arguments of five values, replies with up to three matches of three patterns,
\* the shortest, a usual and the longest card number.
SPECIFICATION Spec
CONSTANTS
  MaxNodes = 5
  TextLen = 4
  MaxMatches = 3
  PatternLevel <- Levels
  MarkLen = 2
  Payloads <- Cards
INVARIANTS KeptAreDisjoint RedactedExactly LuhnTellsCards
CHECK_DEADLOCK FALSE
