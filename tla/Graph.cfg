SPECIFICATION Spec
CONSTANTS
  ann = ann
  bob = bob
  f = f
  k = k
  Clients = {ann, bob}
  Entities = {f, k}
  Home <- MCHome
  Factory <- MCFactory
  MaxVersion = 2
  MaxCalls = 5
INVARIANTS
  ViewsAgree
  AckMeansCreated
CHECK_DEADLOCK FALSE
