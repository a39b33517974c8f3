SPECIFICATION FairMembers
CONSTANTS
  s1 = s1
  a = a
  b = b
  Session = {s1, s2}
  Item = {a, b}
  EntryId = {e1}
  Ticks <- TicksZero
  GroupId = {g1, g2}
  ConnId = {c1, c2}
  GraceId = {d1, d2}
  NoGroup = NoGroup
  NoConn = NoConn
  NoGrace = NoGrace
  NoSession = NoSession
  CanSee <- MCCanSee
  Payloads <- NoPayload
  MaxQueue = 1
  EmptyQueueControl = TRUE
INVARIANTS
  Membership
  MemberAttended
PROPERTIES
  NewerSocketSurvives
  LatestTimerEvicts
  DroppedMemberLeaves
