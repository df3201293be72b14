CONSTANTS
  NoConn = 0
  Conns = {1, 2}
  MaxClients = 2
  Timeout = 2
  Ticks = {0, 1}
  MaxListed = 2
  MaxBacklog = 0
  MaxSessions = 1
  MaxRefused = 0
  PacketKinds <- OneEach
SPECIFICATION RFairSpec
INVARIANTS RTypeOK AvatarsRegistered
PROPERTIES RemovalIsAnnounced AvatarsAreRemoved ClientsBecomePlayers GhostsExpire
CHECK_DEADLOCK FALSE
