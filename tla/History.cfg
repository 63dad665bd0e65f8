\* A secret that shares a blob with another content, and titles; deletions and
\* reloads fail, and the process dies.
SPECIFICATION Spec
CONSTANTS
  a = a
  b = b
  s = s
  x = x
  y = y
  z = z
  Ids = {1, 2}
  Contents = {a, s}
  Secrets = {s}
  Refs <- MCRefs
  Sizes <- MCSizes
  Tabs = {t1}
  Titles = {FALSE, TRUE}
  TagsMax = 1
  TabsMax = 1
  Ttl = 1
  MaxBytes = 10
  MaxAge <- OneTick
  LimitChoices = {1}
  IndexCap = 4
  Faults = {"delete", "read"}
  MaxTime = 1
INVARIANTS AgreesWithLog EvictedStaysEvicted SearchFindsEverything BlobsFollowItems
PROPERTIES PreviewsReturnWhenAsked ImplementsClipBook
