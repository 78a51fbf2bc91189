SPECIFICATION TextsSpec
CONSTANTS
  MaxLeft = 4
  MaxRight = 1
  TokenLen = 3
  ShortLen = 1
  Fraction = 3
  Base = 3
  Words = {"", "x"}
  MaxLines = 3
INVARIANTS
  TokenIsJoined
  KeysDiffer
  TextInOrder
  
CHECK_DEADLOCK FALSE
