SPECIFICATION SpecSmall
CONSTANTS
  bob = bob
  eve = eve
  x = x
  y = y
  d1 = d1
  i1 = i1
  i2 = i2
  agg = agg
  lib = lib
  User = {1, 2, 3}
  NameOf <- MCNameOf
  Host = {x, y}
  Device = {d1}
  Item = {i1, i2}
  Id = {1, 2, 3, 4}
  Time = {1, 2}
  NoServer = NoServer
  Request = {r1, r2}
  Ask <- MCAsk
  Aggregate = {agg}
  Library = {lib}
  Nobody = Nobody
  Blank = Blank
  MaxEvents = 1
SYMMETRY Requests
INVARIANTS
  StartsUp
  DataKept
  OneIdPerItem
  IdsBelong
  OwnAccount
  NamedServerAsked
  ReportsExact
PROPERTIES
  NewestSessionKept
  RestartChangesNothing
