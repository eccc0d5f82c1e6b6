\* The wire: two threads of a client, the server, a client with one thread.
CONSTANTS
  Radix = 4
  Throws = Throws
  MyId = 1
  MaxFrames = 2
  Ends <- AllEnds
  Rooms <- SomeRooms
  InputLines <- TypedLines
  AdminLines <- BanLines
  Messages <- HandlerMessages
  Peers <- Known
  id_by_nickname_ <- Nicknames
SPECIFICATION FramingSpec
INVARIANTS
  FramingTypeOK
  ReceivedAsMeant
PROPERTIES
  EverythingArrives
CHECK_DEADLOCK FALSE
