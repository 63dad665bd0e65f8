\* Crashes anywhere, failing calls that leave nothing behind.
SPECIFICATION Spec
CONSTANTS
  i1 = i1
  i2 = i2
  b1 = b1
  Items = {i1, i2}
  Tabs = {t1}
  Blobs = {b1}
  Refs <- MCRefs
  Faults = {"clean"}
  MaxSeals = 6
INVARIANTS Readable MemoryMatchesFile NoDanglingRefs
PROPERTIES SeqsOnlyGrow ImplementsJournal
