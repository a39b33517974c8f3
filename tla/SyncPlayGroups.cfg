SPECIFICATION SpecGroups
CONSTANTS
  s1 = s1
  a = a
  b = b
  Session = {s1, s2}
  Item = {a, b}
  EntryId = {e1, e2}
  Ticks <- TicksTwo
  GroupId = {g1}
  ConnId = {c1, c2, c3}
  GraceId = {d1}
  NoGroup = NoGroup
  NoConn = NoConn
  NoGrace = NoGrace
  NoSession = NoSession
  CanSee <- MCCanSee
  Payloads <- PlainOrRare
  MaxQueue = 2
  EmptyQueueControl = FALSE
SYMMETRY Ids
INVARIANTS
  QueueIndexInBounds
  QueueWithinAccess
  WaitsForSomebody
  MembersToldEverything
PROPERTIES
  WaitKeepsPosition
