SPECIFICATION MCSpec
CONSTANTS
  ConfigFiles <- TwoFiles
  MaxSignals = 0
  MaxLines = 1
  MaxIncoming = 0
  Throws = Throws
  Radix = 2
  Passwords = {p1}
  PeerIds = {1}
  PeerKeys = {11}
  RoomKeys = {13}
  MaxSessions = 1
PROPERTY
  EndsByItself
