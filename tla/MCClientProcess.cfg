SPECIFICATION MCSpec
CONSTANTS
  ConfigFiles <- TwoFiles
  MaxSignals = 2
  MaxLines = 1
  MaxIncoming = 1
  Throws = Throws
  Radix = 2
  Passwords = {p1, p2}
  PeerIds = {0, 1, 8, 15}
  PeerKeys = {11}
  RoomKeys = {13}
  MaxSessions = 3
INVARIANTS
  ExitExplained
  KeysSaved
  HandlerHarmless
  ProgressForward
  StoreTypeOK
PROPERTIES
  NeverWaitsAgain
  LeavingEnds
  ServerLossShown
  RestartKeepsKeys
