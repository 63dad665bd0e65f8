\* Five steps of the user and the system, either kind of keyring.
SPECIFICATION FairOpeningSpec
CONSTANTS
  Passphrases = {FALSE, TRUE}
  MaxMoves = 5
INVARIANTS PresentsItsOwn NothingKeptAfterEviction
PROPERTY OpeningEnds
CHECK_DEADLOCK FALSE
