SPECIFICATION LibraryFairSpec
CONSTANTS
  w1 = w1
  w2 = w2
  App = App
  Workers = {w1}
  MaxInits = 2
  MaxFailures = 1
  MaxQueue = 1
  MaxBeats = 1
PROPERTIES
  UnusedAtShutdown
  DestroyEnds
CHECK_DEADLOCK FALSE
