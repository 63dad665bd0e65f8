\* Three items, the newest with a title, the next secret, and one tab; the window
\* has room for one row or two, a page for two.
SPECIFICATION Spec
CONSTANTS
  Items = {i1, i2, i3}
  i1 = i1
  i2 = i2
  i3 = i3
  t1 = t1
  None = None
  Secrets = {i2}
  Matches = {i2, i3}
  Tabs = {t1}
  Titled = {i1}
  FirstItems <- MCFirstItems
  Heights = {1, 2}
  Overscan = 0
  FetchSpan = 2
  SearchLimit = 1
  Gestures = {"type", "move", "reveal", "scroll", "filter", "copy", "pin", "remove", "tag", "title", "tabs", "cancel", "drag", "close"}
  MaxSteps = 4
INVARIANTS ViewIsCurrent SelectionFollowsItem TitledStaysHidden NothingWhileHidden
CHECK_DEADLOCK FALSE
