SPECIFICATION FairSpec
CONSTANTS
  PlayId = {p1}
  Item = {i1, i2}
  User = {u1}
  Server = {v1, v2}
  Request = {q1, q2}
  MaxRevision = 2
  SessionTtl = 1
  NoServer = NoServer
PROPERTIES
  LateReportsHarmless
  ReportsTakeEffect
  ForgottenStaysForgotten
  DeletedServerForgotten
