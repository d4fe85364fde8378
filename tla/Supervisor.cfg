SPECIFICATION FairSpec
CONSTANTS
  r1 = r1
  r2 = r2
  NoMsg = NoMsg
  Requests = {r1, r2}
  MaxReplies = 2
INVARIANTS
  FrameHeld
  FreedOnce
  ReplyNotDropped
PROPERTIES
  PromiseIsErased
