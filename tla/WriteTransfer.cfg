\* Three calls, inline and in chunks, and everything that can interrupt them.
SPECIFICATION TransferSpec
CONSTANTS
  Shapes <- MCShapes
  Mishaps = {"timeout", "deadline", "expire", "crash"}
  MaxWrites = 3
INVARIANTS NeverTurnedAway LaterWriteWins
PROPERTIES NoEffectAfterTheEnd
CHECK_DEADLOCK FALSE
