SPECIFICATION Spec
CONSTANTS
  Connections = {c1, c2, c3}
  Main = main
  Server = server
  Nobody = nobody
  Modes = {TRUE, FALSE}
  Tls = {c1}
  Stalling = {}
  MaxTurns = 2
INVARIANTS
  TypeOK
  LockDiscipline
  NoConnectionForgotten
PROPERTIES
  ServiceKept
  ServerReturns
CHECK_DEADLOCK FALSE
