SPECIFICATION FairSpec
CONSTANTS
  q1 = q1
  q2 = q2
  App = App
  Net = Net
  Pool = {q1, q2}
  MaxJoins = 2
INVARIANTS
  HeartbeatGoesOn
  OneChainPerJoin
PROPERTIES
  SilentStageIsNoticed
