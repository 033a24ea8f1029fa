SPECIFICATION Spec
CONSTANTS
  Connections = {c1, c2}
  Main = main
  Server = server
  Nobody = nobody
  Modes = {FALSE}
  Tls = {c1}
  Stalling = {c1}
  MaxTurns = 2
PROPERTY
  SilenceEnds
CHECK_DEADLOCK FALSE
