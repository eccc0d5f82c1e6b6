SPECIFICATION FairSystemSpec
CONSTANTS
  Users = {u1, u2, u3}
  Fds = {1, 2, 3}
  n1 = n1
  Nicknames <- Unnamed
  BanLists <- NoBans
  MaxId = 3
  NoMsg = NoMsg
  NoKey = NoKey
  NoStore = NoStore
  Leavers = {}
  SaveOutcomes = {"saved"}
  Commands <- NoCommands
  MaxEvents = 0
  MaxSessions = 1
INVARIANTS
  PeersKeyed
  RoomKeyed
  RoomKeyAgreed
PROPERTY
  ExchangeSettles
CHECK_DEADLOCK FALSE
