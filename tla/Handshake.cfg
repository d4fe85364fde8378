SPECIFICATION FairSpec
CONSTANTS
  c1 = c1
  c2 = c2
  None = None
  Requests = {c1, c2}
  Observes = {c2}
  MaxJoins = 2
  MaxFlight = 1
INVARIANTS
  ConfirmedIsHeard
  ListenNotForgotten
  BroadcastGoesOn
PROPERTIES
  PairConnects
  StopSilences
CHECK_DEADLOCK FALSE
