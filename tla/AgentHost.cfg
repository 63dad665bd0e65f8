\* Two restarts, every kind of line, crashes at any moment.
SPECIFICATION Spec
CONSTANTS
  MaxRestarts = 1
  MaxFailures = 2
  Services = {"watch"}
  Noises = {"noise", "major"}
  MaxCalls = 2
INVARIANTS AnswersAreOwn OneAgent
PROPERTIES ServicesReturn DisposeEnds
CHECK_DEADLOCK FALSE
