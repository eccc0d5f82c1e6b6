SPECIFICATION SystemSpec
CONSTANTS
  Users = {u1, u2}
  Fds = {1, 2}
  n1 = n1
  Nicknames <- Unnamed
  BanLists <- NoBans
  MaxId = 3
  NoMsg = NoMsg
  NoKey = NoKey
  NoStore = NoStore
  Leavers = {u1}
  SaveOutcomes = {"saved"}
  Commands <- NoCommands
  MaxEvents = 2
  MaxSessions = 2
INVARIANTS
  RoomKeyAgreed
CHECK_DEADLOCK FALSE
