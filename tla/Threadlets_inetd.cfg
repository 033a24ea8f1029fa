SPECIFICATION Spec
CONSTANTS
  Connections = {c1, c2}
  Main = main
  Server = server
  Nobody = nobody
  Modes = {TRUE}
  Tls = {c1}
  Stalling = {}
  MaxTurns = 2
PROPERTY
  InetdExits
CHECK_DEADLOCK FALSE
