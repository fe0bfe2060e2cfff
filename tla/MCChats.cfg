CONSTANTS
  Users = {ann, bob, cem}
  Message = {m1, m2}
  Emoji = {e1, e2}
  MaxPins = 1
  Request = {r1, r2}
  MaxAttempts = 2
  MaxRequests = 4
  Topics <- MCTopics
SYMMETRY Alike
SPECIFICATION Spec
INVARIANTS Orderly Recorded
PROPERTIES OwnerKeeps MembersAsIfAlone PostsAsIfAlone ReceiptsKept
CHECK_DEADLOCK FALSE
