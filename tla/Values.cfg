SPECIFICATION Spec
CONSTANTS
  a = a
  b = b
  Performers = {a, b}
  Creator = a
  Receivers = {a, b}
  NoOwner = NoOwner
  NotNumber = NotNumber
  Items <- MCItems
  MaxAsks = 2
  MaxFires = 2
  MaxAppends = 2
CONSTRAINT
  ValuesFollow
INVARIANTS
  ControlAgrees
  FreshComputed
  ReadAsFired
CHECK_DEADLOCK FALSE
