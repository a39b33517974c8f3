SPECIFICATION Spec
CONSTANTS
  l1 = l1
  l2 = l2
  k1 = k1
  k2 = k2
  n1 = n1
  n2 = n2
  Password = {p1, p2}
  Login = {l1, l2}
  BlankLogin = {l2}
  Token = {k1, k2}
  Name = {n1, n2}
  NameOf <- Names
  Server = {v1}
  Device = {d1, d2}
  Task = {t1, t2}
  MaxUsers = 2
  AutoCreate = TRUE
  AdminKey = AdminKey
  Garbled = Garbled
  None = None
SYMMETRY Symmetry
INVARIANTS
  MappingsReadable
  SessionsFit
