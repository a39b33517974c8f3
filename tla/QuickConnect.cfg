SPECIFICATION FairSpec
CONSTANTS
  Code = {c1, c2}
  User = {u1}
  Redeemer = {r1, r2}
  MaxSessions = 3
  NoUser = NoUser
INVARIANTS
  ApprovalReachesDevice
PROPERTIES
  SignInsKept
  ExpiredLeaves
