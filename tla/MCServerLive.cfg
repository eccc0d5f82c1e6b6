SPECIFICATION LoopSpec
CONSTANTS
  Fds = {f1, f2}
  n1 = n1
  Nicknames <- MCNicknames
  BanLists <- MCBanLists
  MaxId = 3
  NoMsg = NoMsg
  ListenFd = ListenFd
  NoFd = NoFd
  Invalid = Invalid
  AdminLines <- MCAdminLines
  FrameTypes = {"Malformed"}
  kListenBacklog = 1
  MaxFrames = 1
  MaxAdminLines = 1
PROPERTIES
  StopTerminates
  GonePeersRemoved
  BacklogServed
CHECK_DEADLOCK FALSE
