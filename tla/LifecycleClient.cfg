SPECIFICATION FairSpec
CONSTANTS
  n1 = n1
  n2 = n2
  p1 = p1
  p2 = p2
  e1 = e1
  stage = stage
  graph = graph
  pool1 = pool1
  pool2 = pool2
  router = router
  timer = timer
  App = App
  NoObject = NoObject
  Names = {n1, n2}
  Uri <- MCUri
  Proxies = {p1, p2}
  Locals = {}
  Creators = {stage}
  Removers = {stage}
  Timers = {}
  Updaters = {graph}
  Activators = {}
  MaxCalls = 2
INVARIANTS
  WakeupNotLost
  OneProxyPerURI
  CleanupOnce
PROPERTIES
  FarewellFirst
