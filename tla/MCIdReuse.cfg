SPECIFICATION SystemSpec
CONSTANTS
  Users = {u1, u2, u3}
  Fds = {1, 2, 3}
  n1 = n1
  Nicknames <- Unnamed
  BanLists <- NoBans
  MaxId = 3
  NoMsg = NoMsg
  NoKey = NoKey
  NoStore = NoStore
  Leavers = {u2}
  SaveOutcomes = {"saved"}
  Commands <- NoCommands
  MaxEvents = 1
  MaxSessions = 1
INVARIANTS
  PeersKeyed
CHECK_DEADLOCK FALSE
