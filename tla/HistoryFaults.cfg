\* Every call to the store may fail, appends half-way through a sweep included,
\* and the search index is smaller than the history.
SPECIFICATION Spec
CONSTANTS
  a = a
  b = b
  s = s
  x = x
  y = y
  z = z
  Ids = {1, 2}
  Contents = {a, b}
  Secrets = {}
  Refs <- MCRefs
  Sizes <- MCSizes
  Tabs = {t1}
  Titles = {FALSE}
  TagsMax = 1
  TabsMax = 1
  Ttl = 1
  MaxBytes = 2
  MaxAge <- NoAge
  LimitChoices = {1, 2}
  IndexCap = 1
  Faults = {"append", "put", "delete", "read"}
  MaxTime = 1
INVARIANTS AgreesWithLog SearchKeepsTheKept
