SPECIFICATION MCSpec
CONSTANTS
  Fds = {f1, f2, f3}
  n1 = n1
  n2 = n2
  Nicknames <- MCNicknames
  BanLists <- MCBanLists
  MaxId = 6
  NoMsg = NoMsg
  ListenFd = ListenFd
  NoFd = NoFd
  Invalid = Invalid
  AdminLines <- MCAdminLines
  FrameTypes = {"Register", "Malformed"}
  kListenBacklog = 1
  MaxFrames = 1
  MaxAdminLines = 1
  MaxConnections = 2
SYMMETRY Symmetry
INVARIANTS
  RegistryConsistent
  IdsAccounted
  BannedSilent
  RelayedAsMeant
  PollCoversClients
  NoIdleRead
  BannedGoneBeforeReads
PROPERTY
  SmallestIdAssigned
CHECK_DEADLOCK FALSE
