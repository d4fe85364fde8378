SPECIFICATION LoopSpec
CONSTANTS
  router = router
  timer = timer
  loop = loop
  Threads <- MCThreads
  Loop = loop
  Dispatchers <- MCDispatchers
  Channels <- MCChannels
  MaxEvents = 2
INVARIANTS
  WakeupNotMissed
PROPERTIES
  DestroyEndsLoop
  ImplementsQueue
CHECK_DEADLOCK FALSE
