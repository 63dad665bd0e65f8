\* Three changes of the pasteboard, two recalls, every mishap.
SPECIFICATION Spec
CONSTANTS
  Mishaps = {"batch", "timeout", "rewatch", "crash", "stall", "full"}
  MaxCopies = 3
  MaxRecalls = 2
INVARIANTS OwnWritesAreSuppressed CopiesInOrder LastCopyIsKept DrainedWhenClosed
CHECK_DEADLOCK FALSE
