------------------------------ MODULE ChatClient ------------------------------
(* The client's view model as operators on the record of one client: what    *)
(* handle_incoming does with each message of the server, what the console    *)
(* commands do, and the key store.  Module ChatSystem connects clients to    *)
(* the server.                                                               *)
(*                                                                           *)
(* The client has two threads, "input" and "receiver".  A handler changes    *)
(* the state under crypto_mutex_ and sends after it has released it, so a    *)
(* handler leaves what it still has to send in unsent[thread], and the other *)
(* thread may run before the sends happen.  Only the receiver writes peers   *)
(* and room key, so its successive critical sections are one step.           *)
(*                                                                           *)
(* A key pair is one value (the public key); the secret shared by two pairs  *)
(* is the set of both, the same from either side.  nickname_by_id_ is left   *)
(* out: nothing reads it.                                                    *)
EXTENDS Naturals, Sequences

CONSTANTS NoKey, NoStore

NoFd == 0

-------------------------------------------------------------------------------
(* The key store, and the file it is loaded from.                            *)

peer_public(c, id) == IF id \in DOMAIN c.peers THEN c.peers[id] ELSE NoKey

set_peer_public(c, id, key) ==
  [c EXCEPT !.peers = [i \in DOMAIN @ \cup {id} |-> IF i = id THEN key ELSE @[i]]]

erase_no_peers(c, ids) == c

erase_peers(c, ids) ==
  [c EXCEPT !.peers = [i \in DOMAIN @ \ ids |-> @[i]]]

serialize(c) == [identity |-> c.identity, room_key |-> c.room_key, peers |-> c.peers]

(* A missing, empty or damaged file gives a new identity, named by fresh.    *)
load_or_create_identity(file, fresh) ==
  IF file # NoStore THEN file
  ELSE [identity |-> fresh, room_key |-> NoKey, peers |-> <<>>]

shared_secret(c, peer_key) == {c.identity, peer_key}

-------------------------------------------------------------------------------
(* A client process that is not running, and one that waits for its id.      *)

Off == [phase |-> "off", fd |-> NoFd, inbox |-> <<>>]

Started(keys, nickname) ==
  [phase |-> "connecting", fd |-> NoFd, inbox |-> <<>>, my_id |-> 0,
   identity |-> keys.identity, room_key |-> keys.room_key, peers |-> keys.peers,
   key_offered_to_ |-> {}, id_by_nickname_ |-> <<>>, nickname |-> nickname,
   unsent |-> [input |-> <<>>, receiver |-> <<>>]]

-------------------------------------------------------------------------------
(* Sending.                                                                  *)

enqueue_send(c, thread, m) == [c EXCEPT !.unsent[thread] = Append(@, m)]

to_peer(c, type, id, body) ==
  [type |-> type, from_id |-> c.my_id, to |-> [tag |-> "id", id |-> id], text |-> body]

offered_already(c) == c.key_offered_to_

offered_or_pointless(c) == {0, c.my_id} \cup c.key_offered_to_

send_key_offer(c, thread, peer_id) ==
  IF peer_id \in offered_or_pointless(c) THEN c
  ELSE enqueue_send([c EXCEPT !.key_offered_to_ = @ \cup {peer_id}], thread,
                    to_peer(c, "KeyOffer", peer_id, c.identity))

(* A send that failed takes back the note that the key was offered.          *)
send_failed(c, m) ==
  IF m.type = "KeyOffer" THEN [c EXCEPT !.key_offered_to_ = @ \ {m.to.id}] ELSE c

keep_room_key(c, peer_id) == c

maybe_send_room_key(c, peer_id) ==
  IF c.room_key = NoKey \/ peer_public(c, peer_id) = NoKey THEN c
  ELSE enqueue_send(c, "receiver", to_peer(c, "RoomKeyOffer", peer_id,
         [secret |-> shared_secret(c, peer_public(c, peer_id)), room_key |-> c.room_key]))

send_encrypted_chat_by_id(c, id) ==
  IF peer_public(c, id) = NoKey THEN c
  ELSE enqueue_send(c, "input", to_peer(c, "Chat", id,
         [secret |-> shared_secret(c, peer_public(c, id))]))

(* The lookup of the nickname and the chat are two critical sections; the    *)
(* model has them in one step.                                               *)
send_encrypted_chat_by_nickname(c, nickname) ==
  IF nickname \notin DOMAIN c.id_by_nickname_ THEN c
  ELSE send_encrypted_chat_by_id(c, c.id_by_nickname_[nickname])

send_encrypted_broadcast(c) ==
  IF c.room_key = NoKey THEN c
  ELSE enqueue_send(c, "input", [type |-> "Chat", from_id |-> c.my_id,
         to |-> [tag |-> "broadcast"], text |-> [secret |-> {c.room_key}]])

(* What a line typed at the console leads to.  Invalid lines and /exit are   *)
(* not here: the first only print, the second ends the process.              *)
handle_input_command(c, command) ==
  CASE command.type = "ListUsers"      -> enqueue_send(c, "input", [type |-> "ListUsers"])
    [] command.type = "KeyOffer"       -> send_key_offer(c, "input", command.id)
    [] command.type = "ChatById"       -> send_encrypted_chat_by_id(c, command.id)
    [] command.type = "ChatByNickname" -> send_encrypted_chat_by_nickname(c, command.nickname)
    [] command.type = "ChatBroadcast"  -> send_encrypted_broadcast(c)

-------------------------------------------------------------------------------
(* Receiving.                                                                *)

(* The peer's key is tried first, then the room key.                         *)
decrypts(c, from_id, body) ==
  \/ /\ peer_public(c, from_id) # NoKey
     /\ body.secret = shared_secret(c, peer_public(c, from_id))
  \/ c.room_key # NoKey /\ body.secret = {c.room_key}

learn_nickname(map, id, nickname) ==
  IF nickname = "" THEN map
  ELSE [n \in DOMAIN map \cup {nickname} |-> IF n = nickname THEN id ELSE map[n]]

keep_nickname(map, nickname) == map

forget_nickname(map, nickname) == [n \in DOMAIN map \ {nickname} |-> map[n]]

(* id_by_nickname_ after message m.                                          *)
nicknames_after(map, m) ==
  CASE m.type = "UserJoined" -> learn_nickname(map, m.id, m.nickname)
    [] m.type = "UserLeft"   -> forget_nickname(map, m.nickname)
    [] m.type = "UsersList"  ->
         LET after[k \in 0 .. Len(m.users)] ==
               IF k = 0 THEN map
               ELSE learn_nickname(after[k - 1], m.users[k].id, m.users[k].nickname)
         IN after[Len(m.users)]
    [] OTHER -> map

open_room_key(c, m) ==
  IF /\ peer_public(c, m.from_id) # NoKey
     /\ m.text.secret = shared_secret(c, peer_public(c, m.from_id))
  THEN [c EXCEPT !.room_key = m.text.room_key]
  ELSE c

offer_nothing(c, from_id) == c

offer_back(c, from_id) == send_key_offer(c, "receiver", from_id)

(* A Deliver is printed or reported as undecryptable and changes nothing,    *)
(* see decrypts; Error and the other types are only printed.                 *)
handle_incoming(c, m) ==
  LET d == [c EXCEPT !.id_by_nickname_ = nicknames_after(@, m)] IN
  CASE m.type = "PeerKey" ->
         maybe_send_room_key(offer_back(set_peer_public(d, m.from_id, m.text), m.from_id),
                             m.from_id)
    [] m.type = "RoomKey"    -> open_room_key(d, m)
    [] m.type = "BannedIds"  -> erase_peers(d, m.ids)
    [] m.type = "UserJoined" -> send_key_offer(d, "receiver", m.id)
    [] OTHER -> d

creates_room_always(c, m) == c.room_key = NoKey

creates_room(c, m) == m.create_room /\ c.room_key = NoKey

receive_id_unset(c, m, fresh) ==
  [c EXCEPT !.phase = "running", !.room_key = IF creates_room(c, m) THEN fresh ELSE @]

(* The first message must be AssignId; the client that finds itself alone    *)
(* creates the room key unless its key store has one.  Then it registers.    *)
receive_assigned_id(c, m, fresh) ==
  [c EXCEPT !.phase = "running", !.my_id = m.id,
            !.room_key = IF creates_room(c, m) THEN fresh ELSE @]

register_nickname(c) ==
  IF c.nickname = "" THEN <<>> ELSE <<[type |-> "Register", nickname |-> c.nickname]>>
===============================================================================
