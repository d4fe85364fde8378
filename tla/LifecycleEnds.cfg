SPECIFICATION FairSpec
CONSTANTS
  n1 = n1
  n2 = n2
  p1 = p1
  p2 = p2
  e1 = e1
  stage = stage
  graph = graph
  pool1 = pool1
  pool2 = pool2
  router = router
  timer = timer
  App = App
  NoObject = NoObject
  Names = {n1, n2}
  Uri <- MCUri
  Proxies = {p1, p2}
  Locals = {e1}
  Creators = {router}
  Removers = {router}
  Timers = {timer}
  Updaters = {}
  Activators = {pool1, pool2}
  MaxCalls = 3
CONSTRAINT OneSide
INVARIANTS
  LookupLive
  DeadIDsCoverWakeups
PROPERTIES
  ActivationCompletes
  RemovedIsReaped
