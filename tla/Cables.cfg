SPECIFICATION Spec
CONSTANTS
  ann = ann
  bob = bob
  i = i
  x = x
  y = y
  Clients = {ann, bob}
  Inputs = {i}
  Outputs = {x, y}
  Home <- MCHome
  Limit <- MCLimit
  MaxCalls = 3
INVARIANTS
  InputLimit
  PlugsAgree
  DestroyedIsUnplugged
CHECK_DEADLOCK FALSE
