CONSTANTS
  NoConn = 0
  Conns = {1, 2}
  MaxClients = 1
  Timeout = 2
  Ticks = {0}
  MaxListed = 2
  MaxBacklog = 0
  MaxSessions = 1
  MaxRefused = 0
  PacketKinds <- Both
SPECIFICATION RFairSpec
PROPERTY AvatarPerPeer
CHECK_DEADLOCK FALSE
