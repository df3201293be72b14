CONSTANTS
  NoConn = 0
  Conns = {1, 2, 3}
  MaxClients = 2
  Timeout = 2
  Ticks = {0, 1}
  MaxListed = 2
  MaxBacklog = 1
  MaxSessions = 2
  MaxRefused = 1
SPECIFICATION Spec
INVARIANTS TypeOK TablesAgree NoSharedID Converged
PROPERTY ImplementsRoster
CHECK_DEADLOCK FALSE
