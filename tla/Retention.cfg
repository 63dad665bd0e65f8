\* Every history of up to three items, swept.
SPECIFICATION Spec
CONSTANTS
  Ids = {1, 2, 3}
  MaxTime = 1
  MaxItemsChoices = {1, 2}
  MaxBytesChoices = {2, 3}
  MaxAgeChoices <- AgeChoices
  Sizes = {1, 2}
PROPERTY SweepIsExact
