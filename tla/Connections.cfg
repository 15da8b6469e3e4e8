CONSTANTS
  c1 = c1
  c2 = c2
  s1 = s1
  s2 = s2
  a1 = a1
  Clients = {c1, c2}
  ServerThreads = {s1, s2}
  ClientThreads = {a1}
  Owner <- Owners
  MaxSends <- Sends
  Casts <- OneOrTwo
  Server = Server
  None = None
  Nothing = Nothing
  Users = {t1, t2}
  Nodes = {n1, n2}
  MaxLinks = 3
  MaxCasts = 1
  Messages = {m1, m2}
  Callers = {r1, r2}
  Coroutines = {k1, k2}
  Timed = {r1, k1}
  Workers = 1
  MaxQueue = 1
SPECIFICATION LayerSpec
INVARIANTS FramesIntact NoClientLeftBehind LinksAccounted
PROPERTIES DisconnectsNoticed AsyncReceivesEnd
CHECK_DEADLOCK FALSE
