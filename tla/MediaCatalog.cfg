SPECIFICATION Spec
CONSTANTS
  A = A
  B = B
  x = x
  y = y
  Server = {A, B}
  Mapping = {1, 2, 3}
  Source = {A, B}
  HostOf <- MCHostOf
  Scope = {c1}
  Alias = {x, y}
  Answers <- MCAnswers
  Files <- MCFiles
  MaxClock = 3
  None = None
INVARIANTS
  FencesHold
  SharedTagsShareGroup
  OneVersionPerServer
  ShownOnce
  ReferencesHold
PROPERTIES
  IdsKeepMeaning
CHECK_DEADLOCK FALSE
