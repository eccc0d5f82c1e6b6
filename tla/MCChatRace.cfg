SPECIFICATION SystemSpec
CONSTANTS
  Users = {u1, u2}
  Fds = {1, 2}
  n1 = n1
  Nicknames <- Unnamed
  BanLists <- NoBans
  MaxId = 3
  NoMsg = NoMsg
  NoKey = NoKey
  NoStore = NoStore
  Leavers = {}
  SaveOutcomes = {"saved"}
  Commands <- ChatCommands
  MaxEvents = 1
  MaxSessions = 1
SYMMETRY UserSymmetry
INVARIANTS
  ChatReadable
CHECK_DEADLOCK FALSE
