SPECIFICATION FairSpec
CONSTANTS
  u1 = u1
  User = {u1}
  Place = {p1}
  UserOf <- MCUserOf
  ReadOnly = {}
  Client = {A, B}
  Unknown = Unknown
  Session = {s1, s2, s3}
  Handler = {q1, q2}
  None = None
INVARIANTS
  ClientsKeptApart
PROPERTIES
  ConnectedKept
  UnauthorizedDisconnect
