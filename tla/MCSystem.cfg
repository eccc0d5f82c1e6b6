SPECIFICATION SystemSpec
CONSTANTS
  Users = {u1, u2}
  Fds = {1, 2, 3}
  n1 = n1
  Nicknames <- OneNickname
  BanLists <- OneBan
  MaxId = 3
  NoMsg = NoMsg
  NoKey = NoKey
  NoStore = NoStore
  Leavers = {u1, u2}
  SaveOutcomes = {"saved", "skipped", "truncated"}
  Commands <- AllCommands
  MaxEvents = 2
  MaxSessions = 2
SYMMETRY UserSymmetry
INVARIANTS
  SystemTypeOK
  IdAgreed
  BannedKeysForgotten
  RosterCatchesUp
CHECK_DEADLOCK FALSE
