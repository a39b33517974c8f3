SPECIFICATION SpecSmall
CONSTANTS
  A = A
  B = B
  movies = movies
  shows = shows
  Server = {A, B}
  Library = {1, 2}
  HostOf <- MCHostOf
  Key = {movies, shows}
  KindOf <- MCKindOf
  Group = {g1, g2}
  Viewer = {u1}
  MaxGen = 2
  MaxAssigns = 1
  None = None
SYMMETRY Symmetry
INVARIANTS
  GroupKeepsKind
  NewestStands
  OpensOnce
