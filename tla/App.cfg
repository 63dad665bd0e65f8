\* Three keys and a passphrase, limits 1 and 2 with 1 the default.
SPECIFICATION FairSpec
CONSTANTS
  Keys = {k1, k2, k3}
  Phrases = {p1}
  NoKey = NoKey
  NoPhrase = NoPhrase
  Limits = {1, 2}
  DefaultLimit = 1
  Rescues = TRUE
  MaxCopies = 2
  MaxSteps = 5
INVARIANTS RecordsHaveTheirKey CopiesOutliveQuit
PROPERTIES SweepsAsChosen QuitEnds
CHECK_DEADLOCK FALSE
