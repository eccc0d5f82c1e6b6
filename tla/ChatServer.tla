------------------------------ MODULE ChatServer ------------------------------
(* What the server does for each event: a new connection, a frame, a broken  *)
(* connection, a ban, a stop.  ServerViewModel with its ClientRegistry, the  *)
(* message handlers and the PresenceBroadcaster.  One action is one call     *)
(* from the event loop, which is single-threaded; module ServerLoop adds the *)
(* loop that decides when each call is made.                                 *)
(*                                                                           *)
(* A descriptor is a member of Fds.  A handler sends at most one message to  *)
(* a descriptor; `sent' holds what the last step put on each connection.     *)
EXTENDS Naturals, Sequences, FiniteSets, Functions

CONSTANTS
  Fds,        \* descriptors accept() may return
  Nicknames,  \* strings a client may ask to register
  BanLists,   \* the id lists of the ban commands the administrator may give
  MaxId,      \* bound: the largest client id (2^32 - 1 in the code)
  NoMsg       \* `nothing was sent' and `nothing could be read'

ASSUME ServerConstants ==
  /\ MaxId \in Nat \ {0}
  /\ BanLists \subseteq SUBSET (0 .. MaxId)

VARIABLES
  clients_by_fd_,   \* registry: fd -> record
  fd_by_id_,        \* registry: id -> fd
  id_by_nickname_,  \* registry: nickname -> id
  free_ids_,        \* ids given back by clients that left
  next_id_,         \* the first id never given out
  banned_ids_,      \* ids banned until restart
  running_,         \* cleared by request_stop
  shut,             \* descriptors on which the server called ::shutdown
  sent              \* fd -> the message this step sent on it, or NoMsg

registry == <<clients_by_fd_, fd_by_id_, id_by_nickname_>>
ids == <<free_ids_, next_id_, banned_ids_>>
vars == <<registry, ids, running_, shut, sent>>

kFirstClientId == 1
kBroadcastRecipient == "all"
NoNickname == ""
NoId == 0
Ids == kFirstClientId .. MaxId

-------------------------------------------------------------------------------
(* Queries of the registry.                                                  *)

all_fds == DOMAIN clients_by_fd_

live_ids == {clients_by_fd_[fd].id : fd \in all_fds}

is_banned(id) == id \in banned_ids_

nickname_taken_by_other(nickname, id) ==
  nickname \in DOMAIN id_by_nickname_ /\ id_by_nickname_[nickname] # id

collect_users ==
  LET users == {clients_by_fd_[fd] : fd \in all_fds}
  IN CHOOSE list \in [1 .. Cardinality(users) -> users] :
       \A j, k \in DOMAIN list : j < k => list[j].id < list[k].id

resolve_recipient(to) ==
  IF to.tag = "id" /\ to.id \in DOMAIN fd_by_id_ THEN to.id
  ELSE IF to.tag = "nickname" /\ to.nickname \in DOMAIN id_by_nickname_
  THEN id_by_nickname_[to.nickname]
  ELSE NoId

-------------------------------------------------------------------------------
(* Sending.  A send on a descriptor the server has shut down fails, and its  *)
(* result is ignored everywhere.                                             *)

Silence == [fd \in Fds |-> NoMsg]

To(targets, msg) == [fd \in Fds |-> IF fd \in targets \ shut THEN msg ELSE NoMsg]

(* A step in which the server sends nothing and changes none of this state.  *)
idle == sent' = Silence /\ UNCHANGED <<registry, ids, running_, shut>>

Error(why) == [type |-> "Error", why |-> why]

UserJoined(id, nickname) == [type |-> "UserJoined", id |-> id, nickname |-> nickname]

UserLeft(id, nickname) == [type |-> "UserLeft", id |-> id, nickname |-> nickname]

-------------------------------------------------------------------------------
(* Updates of the registry.                                                  *)

Put(map, key, value) ==
  [k \in DOMAIN map \cup {key} |-> IF k = key THEN value ELSE map[k]]

registry_add(fd, id) ==
  /\ clients_by_fd_' = Put(clients_by_fd_, fd, [id |-> id, nickname |-> NoNickname])
  /\ fd_by_id_' = Put(fd_by_id_, id, fd)
  /\ UNCHANGED id_by_nickname_

erase_no_nickname(fd) == id_by_nickname_

erase_nickname(fd) ==
  Restrict(id_by_nickname_, DOMAIN id_by_nickname_ \ {clients_by_fd_[fd].nickname})

registry_remove(fd) ==
  /\ clients_by_fd_' = Restrict(clients_by_fd_, all_fds \ {fd})
  /\ fd_by_id_' = Restrict(fd_by_id_, DOMAIN fd_by_id_ \ {clients_by_fd_[fd].id})
  /\ id_by_nickname_' = erase_nickname(fd)

set_nickname(fd, nickname) ==
  /\ clients_by_fd_' = [clients_by_fd_ EXCEPT ![fd].nickname = nickname]
  /\ id_by_nickname_' = Put(erase_nickname(fd), nickname, clients_by_fd_[fd].id)
  /\ UNCHANGED fd_by_id_

-------------------------------------------------------------------------------
(* Ids.                                                                      *)

release_banned_too(id) == free_ids_' = free_ids_ \cup {id}

release_client_id(id) ==
  free_ids_' = IF is_banned(id) THEN free_ids_ ELSE free_ids_ \cup {id}

any_free_id(id) == id \in free_ids_ \ banned_ids_

smallest_free_id(id) ==
  id \in free_ids_ \ banned_ids_ /\ \A n \in free_ids_ : n < id => is_banned(n)

(* Free ids below the one returned were banned, and are dropped.             *)
allocate_client_id(id) ==
  \/ /\ smallest_free_id(id)
     /\ free_ids_' = free_ids_ \ ({id} \cup {n \in banned_ids_ : n < id})
     /\ UNCHANGED next_id_
  \/ /\ free_ids_ \subseteq banned_ids_
     /\ id >= next_id_ /\ ~is_banned(id)
     /\ \A n \in next_id_ .. id - 1 : is_banned(n)
     /\ free_ids_' = {}
     /\ next_id_' = id + 1

-------------------------------------------------------------------------------
(* Connections.  The loop accepts and hangs up only while it runs: it leaves *)
(* its passes, and closes the listening socket, once running_ is cleared.    *)

accept_client(fd) ==
  /\ running_
  /\ fd \in Fds \ all_fds
  /\ \E id \in Ids :
       /\ allocate_client_id(id)
       /\ registry_add(fd, id)
       /\ sent' = [To(all_fds, UserJoined(id, NoNickname)) EXCEPT
            ![fd] = [type |-> "AssignId", id |-> id, create_room |-> all_fds = {}]]
  /\ UNCHANGED <<banned_ids_, running_, shut>>

remove_client(fd) ==
  LET record == clients_by_fd_[fd] IN
  /\ registry_remove(fd)
  /\ release_client_id(record.id)
  /\ shut' = shut \ {fd}
  /\ sent' = To(all_fds \ {fd}, UserLeft(record.id, record.nickname))
  /\ UNCHANGED <<next_id_, banned_ids_, running_>>

hangup(fd) == fd \in all_fds /\ running_ /\ remove_client(fd)

-------------------------------------------------------------------------------
(* The message handlers.                                                     *)

RegisterMessageHandler(fd, nickname) ==
  LET id == clients_by_fd_[fd].id
      Refuse(why) == sent' = To({fd}, Error(why)) /\ UNCHANGED registry
  IN IF nickname = NoNickname THEN Refuse("NicknameEmpty")
     ELSE IF nickname = kBroadcastRecipient THEN Refuse("NicknameReserved")
     ELSE IF nickname_taken_by_other(nickname, id) THEN Refuse("NicknameTaken")
     ELSE /\ set_nickname(fd, nickname)
          /\ sent' = To(all_fds \ {fd}, UserJoined(id, nickname))

deliver_type == [Chat |-> "Deliver", KeyOffer |-> "PeerKey", RoomKeyOffer |-> "RoomKey"]

(* The outcome of a chat or key offer m read from fd, as both handlers       *)
(* compute it; from_id is what the relayed message names as its sender.      *)
relay_as(from_id, fd, m) ==
  LET target_id == resolve_recipient(m.to)
      deliver == [type |-> deliver_type[m.type], from_id |-> from_id, text |-> m.text]
  IN IF is_banned(clients_by_fd_[fd].id) THEN Silence
     ELSE IF m.to.tag = "broadcast"
     THEN To({f \in all_fds \ {fd} : ~is_banned(clients_by_fd_[f].id)}, deliver)
     ELSE IF target_id = NoId THEN To({fd}, Error("UnknownRecipient"))
     ELSE IF is_banned(target_id) THEN To({fd}, Error("RecipientBanned"))
     ELSE IF target_id \notin DOMAIN fd_by_id_ THEN To({fd}, Error("RecipientOffline"))
     ELSE To({fd_by_id_[target_id]}, deliver)

relay_trusting_payload(fd, m) == relay_as(m.from_id, fd, m)

(* ChatMessageHandler and, for the two key offers, OpaqueUnicastHandler: the *)
(* sender is the id registered for the connection, never the one in m.       *)
relay(fd, m) == relay_as(clients_by_fd_[fd].id, fd, m)

dispatch(fd, m) ==
  \/ m.type = "Register" /\ RegisterMessageHandler(fd, m.nickname)
  \/ m.type \in DOMAIN deliver_type /\ sent' = relay(fd, m) /\ UNCHANGED registry
  \/ /\ m.type = "ListUsers"
     /\ sent' = To({fd}, [type |-> "UsersList", users |-> collect_users])
     /\ UNCHANGED registry
  \/ /\ m.type \notin {"Register", "ListUsers"} \cup DOMAIN deliver_type
     /\ sent' = To({fd}, Error("UnsupportedType"))
     /\ UNCHANGED registry

(* m is NoMsg when the transport's receive() fails, and of type "Malformed"  *)
(* when decoding the frame throws.                                           *)
handle_client_data(fd, m) ==
  /\ fd \in all_fds
  /\ fd \in shut => m = NoMsg
  /\ \/ is_banned(clients_by_fd_[fd].id) /\ remove_client(fd)
     \/ /\ ~is_banned(clients_by_fd_[fd].id)
        /\ m = NoMsg /\ running_
        /\ remove_client(fd)
     \/ /\ ~is_banned(clients_by_fd_[fd].id)
        /\ m = NoMsg /\ ~running_
        /\ idle
     \/ /\ ~is_banned(clients_by_fd_[fd].id)
        /\ m # NoMsg
        /\ \/ m.type # "Malformed" /\ dispatch(fd, m)
           \/ /\ m.type = "Malformed"
              /\ sent' = To({fd}, Error("Malformed"))
              /\ UNCHANGED registry
        /\ UNCHANGED <<ids, running_, shut>>

-------------------------------------------------------------------------------
(* Ban and stop.                                                             *)

fds_of_none(newly_banned) == {}

fds_of(newly_banned) == {fd_by_id_[id] : id \in newly_banned \cap DOMAIN fd_by_id_}

bannable(banned) == banned \ {NoId}

(* The peers that are not banned are told before the connections of the      *)
(* newly banned ids are shut down.                                           *)
ban_ids(banned) ==
  LET newly_banned == bannable(banned) \ banned_ids_
      peers == {fd \in all_fds : clients_by_fd_[fd].id \notin banned_ids_'}
  IN /\ banned_ids_' = banned_ids_ \cup newly_banned
     /\ free_ids_' = free_ids_ \ bannable(banned)
     /\ sent' = IF newly_banned = {} THEN Silence
                ELSE To(peers, [type |-> "BannedIds", ids |-> newly_banned])
     /\ shut' = shut \cup fds_of(newly_banned)
     /\ UNCHANGED <<registry, next_id_, running_>>

request_stop_by_flag ==
  /\ running_' = FALSE
  /\ sent' = Silence
  /\ UNCHANGED <<registry, ids, shut>>

request_stop ==
  /\ running_' = FALSE
  /\ shut' = shut \cup all_fds
  /\ sent' = Silence
  /\ UNCHANGED <<registry, ids>>

disconnect_all_clients ==
  /\ ~running_
  /\ clients_by_fd_' = Restrict(clients_by_fd_, {})
  /\ fd_by_id_' = Restrict(fd_by_id_, DOMAIN fd_by_id_ \ live_ids)
  /\ id_by_nickname_' = Restrict(id_by_nickname_, DOMAIN id_by_nickname_ \
                          {clients_by_fd_[fd].nickname : fd \in all_fds})
  /\ free_ids_' = free_ids_ \cup (live_ids \ banned_ids_)
  /\ shut' = shut \ all_fds
  /\ sent' = Silence
  /\ UNCHANGED <<next_id_, banned_ids_, running_>>

-------------------------------------------------------------------------------
(* What a client may send.  The body is opaque to the server; the model uses *)
(* it to record what the client at fd meant: where the message came from and *)
(* for whom it is.  The payload itself always claims to be from client 1.    *)

Recipients ==
  [tag : {"id"}, id : 0 .. MaxId] \cup [tag : {"nickname"}, nickname : Nicknames]
    \cup {[tag |-> "broadcast"]}

Requests == [fd \in Fds |->
  [type : {"Register"}, nickname : Nicknames]
    \cup {[type |-> t, from_id |-> kFirstClientId, to |-> r, text |-> [from |-> fd, to |-> r, as |-> t]] :
            t \in DOMAIN deliver_type, r \in Recipients}
    \cup [type : {"ListUsers", "AssignId", "Malformed"}]]

Init ==
  /\ clients_by_fd_ = <<>> /\ fd_by_id_ = <<>> /\ id_by_nickname_ = <<>>
  /\ free_ids_ = {} /\ next_id_ = kFirstClientId /\ banned_ids_ = {}
  /\ running_ = TRUE
  /\ shut = {}
  /\ sent = Silence

Next ==
  \/ \E fd \in Fds : accept_client(fd)
  \/ \E fd \in Fds : hangup(fd)
  \/ \E fd \in Fds : \E m \in Requests[fd] \cup {NoMsg} : handle_client_data(fd, m)
  \/ \E banned \in BanLists : ban_ids(banned)
  \/ request_stop
  \/ disconnect_all_clients
  \/ idle

Spec == Init /\ [][Next]_vars

-------------------------------------------------------------------------------
(* Properties.                                                               *)

(* Types: the three maps of the registry, the id sets, and messages only to  *)
(* descriptors.                                                              *)
TypeOK ==
  /\ all_fds \subseteq Fds
  /\ \A fd \in all_fds : clients_by_fd_[fd] \in
       [id : Ids, nickname : Nicknames \cup {NoNickname}]
  /\ DOMAIN fd_by_id_ \subseteq Ids
  /\ DOMAIN id_by_nickname_ \subseteq Nicknames
  /\ free_ids_ \subseteq Ids
  /\ next_id_ \in kFirstClientId .. MaxId + 1
  /\ banned_ids_ \subseteq Ids
  /\ running_ \in BOOLEAN
  /\ shut \subseteq all_fds
  /\ DOMAIN sent = Fds

(* The three maps of the registry describe the same clients after any        *)
(* sequence of connects, renames, disconnects, id and descriptor reuse: an   *)
(* id leads to the connection that has it and back, a nickname to the one    *)
(* client that holds it and back, and nobody holds "" or "all".              *)
RegistryConsistent ==
  /\ \A fd \in all_fds :
       LET c == clients_by_fd_[fd] IN
       /\ c.id \in DOMAIN fd_by_id_ /\ fd_by_id_[c.id] = fd
       /\ c.nickname # NoNickname =>
            c.nickname \in DOMAIN id_by_nickname_ /\ id_by_nickname_[c.nickname] = c.id
  /\ \A id \in DOMAIN fd_by_id_ :
       fd_by_id_[id] \in all_fds /\ clients_by_fd_[fd_by_id_[id]].id = id
  /\ \A n \in DOMAIN id_by_nickname_ :
       /\ n \notin {NoNickname, kBroadcastRecipient}
       /\ id_by_nickname_[n] \in DOMAIN fd_by_id_
       /\ clients_by_fd_[fd_by_id_[id_by_nickname_[n]]].nickname = n

(* No id is lost and none is owned twice: an id below next_id_ belongs to a  *)
(* client, is free for reuse or is banned; a free id is neither in use nor   *)
(* banned.  The admin can ban ids in any of these states.                    *)
IdsAccounted ==
  /\ \A id \in 1 .. next_id_ - 1 : id \in live_ids \cup free_ids_ \cup banned_ids_
  /\ \A id \in live_ids \cup free_ids_ : id < next_id_
  /\ free_ids_ \cap (live_ids \cup banned_ids_) = {}

Pool == INSTANCE IdPool WITH used <- live_ids, banned <- banned_ids_

(* ChatServer implements IdPool: whatever was freed, reused or banned before *)
(* (allocate_client_id, release_client_id, ban_ids), a new connection gets   *)
(* the smallest id that no client has and that is not banned, and a client   *)
(* that leaves gives back its own id and nobody else's.                      *)
SmallestIdAssigned == Pool!Spec

(* From the ban on, a banned client that is still connected is sent nothing, *)
(* presence notices included, and nothing it sent is relayed to anyone.      *)
BannedSilent ==
  \A fd \in Fds : sent[fd] # NoMsg =>
    /\ fd \in all_fds /\ ~is_banned(clients_by_fd_[fd].id)
    /\ sent[fd].type \in {"Deliver", "PeerKey", "RoomKey"} => ~is_banned(sent[fd].from_id)

(* What a client relays reaches exactly whom it meant, under its own id:     *)
(* the owner of the id or nickname, or, for a broadcast, every other client  *)
(* that is not banned; a key offer never arrives as chat or the reverse.     *)
RelayedAsMeant ==
  \A fd \in Fds : sent[fd] # NoMsg /\ sent[fd].type \in {"Deliver", "PeerKey", "RoomKey"} =>
    LET m == sent[fd]
        to == m.text.to
    IN /\ m.text.from \in all_fds /\ m.from_id = clients_by_fd_[m.text.from].id
       /\ m.type = deliver_type[m.text.as]
       /\ to.tag = "id" => clients_by_fd_[fd].id = to.id
       /\ to.tag = "nickname" => clients_by_fd_[fd].nickname = to.nickname
       /\ to.tag = "broadcast" =>
            \A f \in Fds : sent[f] = (IF f \in all_fds \ ({m.text.from} \cup shut)
                                      THEN m ELSE NoMsg)

(* A recipient that resolves is connected: the handlers' "Recipient offline" *)
(* answer is never given, however nicknames and ids were reused.             *)
NeverOffline ==
  \A fd \in Fds : sent[fd] # NoMsg => sent[fd] # Error("RecipientOffline")
===============================================================================
