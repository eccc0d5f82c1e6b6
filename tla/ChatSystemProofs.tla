--------------------------- MODULE ChatSystemProofs ---------------------------
(* The inductive invariant of ChatSystem, the server with any number of      *)
(* clients that come, exchange keys, chat, are banned, leave and return with *)
(* their key store; that the steps of the server and of the clients keep it; *)
(* and what it gives.                                                        *)
EXTENDS ChatSystem, ChatServerProofs

-------------------------------------------------------------------------------
(* Sequences of anything.                                                    *)

IsSeq(s) == \E S : s \in Seq(S)

(* Append, Tail and concatenation on sequences of anything.                  *)
LEMMA AppendFacts ==
  ASSUME NEW s, IsSeq(s), NEW m
  PROVE  /\ IsSeq(Append(s, m)) /\ Len(s) \in Nat /\ DOMAIN s = 1 .. Len(s)
         /\ DOMAIN Append(s, m) = 1 .. Len(s) + 1 /\ Append(s, m)[Len(s) + 1] = m
         /\ \A i \in DOMAIN s : Append(s, m)[i] = s[i]
         /\ s = <<>> => Head(Append(s, m)) = m
         /\ s # <<>> => Head(Append(s, m)) = Head(s)
         /\ Append(s, m) # <<>>
<1>1. PICK S : s \in Seq(S)
  BY Zenon DEF IsSeq
<1>2. s \in Seq(S \cup {m}) /\ Append(s, m) \in Seq(S \cup {m})
  BY <1>1
<1> QED BY <1>1, <1>2 DEF IsSeq

(* The rest of a queue, and what comes first.                                *)
LEMMA TailFacts ==
  ASSUME NEW s, IsSeq(s), s # <<>>
  PROVE  /\ IsSeq(Tail(s)) /\ Len(s) \in Nat /\ DOMAIN s = 1 .. Len(s)
         /\ 1 \in DOMAIN s /\ Head(s) = s[1]
         /\ DOMAIN Tail(s) = 1 .. Len(s) - 1
         /\ \A i \in DOMAIN Tail(s) : Tail(s)[i] = s[i + 1] /\ i + 1 \in DOMAIN s
<1>1. PICK S : s \in Seq(S)
  BY DEF IsSeq
<1>2. Tail(s) \in Seq(S)
  BY <1>1
<1> QED BY <1>1, <1>2 DEF IsSeq

(* What is queued behind a queue is queued.                                  *)
LEMMA ConcatFacts ==
  ASSUME NEW s, IsSeq(s), NEW t, IsSeq(t)
  PROVE  /\ IsSeq(s \o t)
         /\ \A i \in DOMAIN (s \o t) : (\E j \in DOMAIN s : (s \o t)[i] = s[j])
                                        \/ (\E j \in DOMAIN t : (s \o t)[i] = t[j])
<1>1. PICK S : s \in Seq(S)
  BY DEF IsSeq
<1>2. PICK T : t \in Seq(T)
  BY DEF IsSeq
<1>3. s \in Seq(S \cup T) /\ t \in Seq(S \cup T) /\ s \o t \in Seq(S \cup T)
  BY <1>1, <1>2
<1>4. SUFFICES ASSUME NEW i \in DOMAIN (s \o t)
               PROVE  (\E j \in DOMAIN s : (s \o t)[i] = s[j])
                        \/ (\E j \in DOMAIN t : (s \o t)[i] = t[j])
  BY <1>3, Zenon DEF IsSeq
<1>5. CASE i <= Len(s)
  BY <1>3, <1>5
<1>6. CASE i > Len(s)
  <2>1. i - Len(s) \in DOMAIN t /\ (s \o t)[i] = t[i - Len(s)]
    BY <1>3, <1>6
  <2> QED BY <2>1, Zenon
<1> QED BY <1>3, <1>5, <1>6

-------------------------------------------------------------------------------
(* What clients and server write to each other.                              *)

(* A message a client sends: a key it offers is a key pair's or a room's.    *)
Sendable(m) ==
  /\ Wellformed(m)
  /\ m.type = "KeyOffer" => m.text \in KeyNames
  /\ m.type = "RoomKeyOffer" => m.text.room_key \in KeyNames

(* A message the server sends: a key comes from a client.                    *)
Readable(m) ==
  /\ m.type = "PeerKey" => m.from_id \in Ids /\ m.text \in KeyNames
  /\ m.type = "RoomKey" => m.text.room_key \in KeyNames
  /\ m.type = "UserJoined" => m.id \in Ids

Sends(s) == IsSeq(s) /\ \A i \in DOMAIN s : Sendable(s[i])

Reads(s) == IsSeq(s) /\ \A i \in DOMAIN s : Readable(s[i])

(* Queueing one more message, taking the first one, joining two queues.      *)
LEMMA QueueFacts ==
  /\ Sends(<<>>) /\ Reads(<<>>)
  /\ \A m : Sendable(m) => Sends(<<m>>)
  /\ \A s, m : Sends(s) /\ Sendable(m) => Sends(Append(s, m))
  /\ \A s, m : Reads(s) /\ Readable(m) => Reads(Append(s, m))
  /\ \A s : Sends(s) /\ s # <<>> => Sends(Tail(s)) /\ Sendable(Head(s))
  /\ \A s : Reads(s) /\ s # <<>> => Reads(Tail(s)) /\ Readable(Head(s))
  /\ \A s, t : Sends(s) /\ Sends(t) => Sends(s \o t)
<1>1. Sends(<<>>) /\ Reads(<<>>)
  BY DEF Sends, Reads, IsSeq
<1>2. ASSUME NEW m, Sendable(m)
      PROVE  Sends(<<m>>)
  <2>1. <<m>> \in Seq({m})
    OBVIOUS
  <2>2. \A i \in DOMAIN <<m>> : <<m>>[i] = m
    OBVIOUS
  <2>3. IsSeq(<<m>>)
    BY <2>1, Zenon DEF IsSeq
  <2> QED BY <1>2, <2>2, <2>3, Zenon DEF Sends
<1>3. \A s, m : Sends(s) /\ Sendable(m) => Sends(Append(s, m))
  BY AppendFacts DEF Sends
<1>4. \A s, m : Reads(s) /\ Readable(m) => Reads(Append(s, m))
  BY AppendFacts DEF Reads
<1>5. \A s : Sends(s) /\ s # <<>> => Sends(Tail(s)) /\ Sendable(Head(s))
  BY TailFacts, Zenon DEF Sends
<1>6. \A s : Reads(s) /\ s # <<>> => Reads(Tail(s)) /\ Readable(Head(s))
  BY TailFacts, Zenon DEF Reads
<1>7. \A s, t : Sends(s) /\ Sends(t) => Sends(s \o t)
  BY ConcatFacts DEF Sends
<1> QED BY <1>1, <1>2, <1>3, <1>4, <1>5, <1>6, <1>7, SMTT(40)

-------------------------------------------------------------------------------
(* The record of a client process.                                           *)

(* A process has keys it made, read from its file or was sent, it has not    *)
(* offered its key to itself, and what it will send and read are messages.   *)
Process(c) ==
  /\ DOMAIN c = {"phase", "fd", "inbox", "my_id", "identity", "room_key", "peers",
                 "key_offered_to_", "id_by_nickname_", "nickname", "unsent"}
  /\ c.phase \in {"connecting", "running"}
  /\ c.identity \in KeyNames /\ c.room_key \in KeyNames \cup {NoKey}
  /\ \A id \in DOMAIN c.peers : id \in Ids /\ c.peers[id] \in KeyNames
  /\ c.key_offered_to_ \subseteq Ids \ {c.my_id}
  /\ c.phase = "connecting" => c.key_offered_to_ = {}
  /\ c.nickname \in Nicknames
  /\ DOMAIN c.unsent = {"input", "receiver"}
  /\ Sends(c.unsent["input"]) /\ Sends(c.unsent["receiver"])
  /\ Reads(c.inbox)

(* Two states of a process that differ in what it knows, not in where it is. *)
SamePlace(c, d) ==
  d.phase = c.phase /\ d.fd = c.fd /\ d.inbox = c.inbox /\ d.my_id = c.my_id

SameKeys(c, d) ==
  d.peers = c.peers /\ d.room_key = c.room_key /\ d.identity = c.identity

(* enqueue_send adds a message and nothing else.                             *)
LEMMA EnqueueFacts ==
  ASSUME NEW c, Process(c), NEW thread \in {"input", "receiver"}, NEW m, Sendable(m)
  PROVE  LET d == enqueue_send(c, thread, m) IN
         Process(d) /\ SamePlace(c, d) /\ SameKeys(c, d)
<1> DEFINE d == enqueue_send(c, thread, m)
<1>1. /\ DOMAIN d = DOMAIN c /\ SamePlace(c, d) /\ SameKeys(c, d)
      /\ d.key_offered_to_ = c.key_offered_to_ /\ d.nickname = c.nickname
      /\ d.unsent = [c.unsent EXCEPT ![thread] = Append(@, m)]
  BY Zenon DEF enqueue_send, Process, SamePlace, SameKeys
<1>2. Sends(Append(c.unsent[thread], m))
  BY QueueFacts, SMTT(40) DEF Process
<1>3. /\ DOMAIN d.unsent = {"input", "receiver"}
      /\ Sends(d.unsent["input"]) /\ Sends(d.unsent["receiver"])
  BY <1>1, <1>2, SMTT(40) DEF Process
<1> HIDE DEF d
<1>4. Process(d)
  BY <1>1, <1>3, Zenon DEF Process, SamePlace, SameKeys
<1> QED BY <1>1, <1>4 DEF d

(* send_key_offer notes the peer and sends the public key, or does nothing.  *)
LEMMA OfferFacts ==
  ASSUME NEW c, Process(c), c.phase = "running", NEW thread \in {"input", "receiver"},
         NEW id \in 0 .. MaxId
  PROVE  LET d == send_key_offer(c, thread, id) IN
         Process(d) /\ SamePlace(c, d) /\ SameKeys(c, d)
<1>1. CASE id \in offered_or_pointless(c)
  BY <1>1, SMTT(40) DEF send_key_offer, SamePlace, SameKeys
<1>2. CASE id \notin offered_or_pointless(c)
  <2> DEFINE n == [c EXCEPT !.key_offered_to_ = @ \cup {id}]
             m == to_peer(c, "KeyOffer", id, c.identity)
  <2>1. /\ DOMAIN n = DOMAIN c /\ SamePlace(c, n) /\ SameKeys(c, n)
        /\ n.key_offered_to_ = c.key_offered_to_ \cup {id} /\ n.nickname = c.nickname
        /\ n.unsent = c.unsent
    BY Zenon DEF Process, SamePlace, SameKeys
  <2>2. id \in Ids \ {c.my_id}
    BY <1>2, ServerConstants DEF offered_or_pointless, Ids, kFirstClientId
  <2>3. m.type = "KeyOffer" /\ m.text = c.identity
    BY Zenon DEF to_peer
  <2>4. Sendable(m)
    BY <2>3, Zenon DEF Sendable, Wellformed, Process
  <2> HIDE DEF n, m
  <2>5. Process(n)
    BY <2>1, <2>2 DEF Process, SamePlace, SameKeys
  <2>6. LET d == enqueue_send(n, thread, m) IN
        Process(d) /\ SamePlace(n, d) /\ SameKeys(n, d)
    BY <2>4, <2>5, EnqueueFacts
  <2>7. send_key_offer(c, thread, id) = enqueue_send(n, thread, m)
    BY <1>2, Zenon DEF send_key_offer, n, m
  <2> QED BY <2>1, <2>6, <2>7 DEF SamePlace, SameKeys
<1> QED BY <1>1, <1>2, Zenon

(* maybe_send_room_key sends the room key, if there is one, or does nothing. *)
LEMMA RoomKeyFacts ==
  ASSUME NEW c, Process(c), NEW id
  PROVE  LET d == maybe_send_room_key(c, id) IN
         Process(d) /\ SamePlace(c, d) /\ SameKeys(c, d)
<1>1. CASE c.room_key = NoKey \/ peer_public(c, id) = NoKey
  BY <1>1 DEF maybe_send_room_key, SamePlace, SameKeys
<1>2. CASE ~(c.room_key = NoKey \/ peer_public(c, id) = NoKey)
  <2> DEFINE m == to_peer(c, "RoomKeyOffer", id,
                [secret |-> shared_secret(c, peer_public(c, id)), room_key |-> c.room_key])
  <2>1. m.type = "RoomKeyOffer" /\ m.text.room_key = c.room_key
    BY SMTT(40) DEF to_peer
  <2>2. Sendable(m)
    BY <1>2, <2>1 DEF Sendable, Wellformed, Process
  <2> HIDE DEF m
  <2>3. maybe_send_room_key(c, id) = enqueue_send(c, "receiver", m)
    BY <1>2, Zenon DEF maybe_send_room_key, m
  <2> QED BY <2>2, <2>3, EnqueueFacts, SMTT(40)
<1> QED BY <1>1, <1>2, SMTT(40)

(* handle_incoming: what a message may change.  Only a key offer adds a      *)
(* peer, its sender, and a ban notice removes those it names.                *)
LEMMA IncomingFacts ==
  ASSUME NEW c, Process(c), c.phase = "running", NEW m, Readable(m)
  PROVE  LET d == handle_incoming(c, m) IN
         /\ Process(d) /\ SamePlace(c, d)
         /\ DOMAIN d.peers \subseteq
              DOMAIN c.peers \cup {id \in {m.from_id} : m.type = "PeerKey"}
         /\ m.type = "BannedIds" => DOMAIN d.peers \cap m.ids = {}
<1> DEFINE n == [c EXCEPT !.id_by_nickname_ = nicknames_after(@, m)]
<1>1. Process(n) /\ SamePlace(c, n) /\ SameKeys(c, n)
  <2>1. /\ DOMAIN n = DOMAIN c /\ SamePlace(c, n) /\ SameKeys(c, n)
        /\ n.key_offered_to_ = c.key_offered_to_ /\ n.nickname = c.nickname
        /\ n.unsent = c.unsent
    BY DEF Process, SamePlace, SameKeys
  <2> HIDE DEF n
  <2> QED BY <2>1, Zenon DEF Process, SamePlace, SameKeys
<1>2. handle_incoming(c, m) =
        CASE m.type = "PeerKey" ->
               maybe_send_room_key(offer_back(set_peer_public(n, m.from_id, m.text), m.from_id),
                                   m.from_id)
          [] m.type = "RoomKey"    -> open_room_key(n, m)
          [] m.type = "BannedIds"  -> erase_peers(n, m.ids)
          [] m.type = "UserJoined" -> send_key_offer(n, "receiver", m.id)
          [] OTHER -> n
  BY Zenon DEF handle_incoming
<1> HIDE DEF n
<1>3. \A id \in Ids : id \in 0 .. MaxId
  BY ServerConstants, SMTT(40) DEF Ids, kFirstClientId
<1>4. CASE m.type = "PeerKey"
  <2> DEFINE k == set_peer_public(n, m.from_id, m.text)
             o == offer_back(k, m.from_id)
             d == maybe_send_room_key(o, m.from_id)
  <2>1. m.from_id \in Ids /\ m.text \in KeyNames
    BY <1>4, Zenon DEF Readable
  <2>2. /\ DOMAIN k = DOMAIN n /\ SamePlace(n, k)
        /\ k.key_offered_to_ = n.key_offered_to_ /\ k.nickname = n.nickname
        /\ k.unsent = n.unsent /\ k.identity = n.identity /\ k.room_key = n.room_key
        /\ k.peers = [i \in DOMAIN n.peers \cup {m.from_id} |->
                        IF i = m.from_id THEN m.text ELSE n.peers[i]]
    BY <1>1, ZenonT(40) DEF set_peer_public, Process, SamePlace
  <2> HIDE DEF k
  <2>3. Process(k)
    BY <1>1, <2>1, <2>2, SMTT(40) DEF Process, SamePlace
  <2>4. Process(o) /\ SamePlace(k, o) /\ SameKeys(k, o)
    BY <1>1, <1>3, <2>1, <2>2, <2>3, OfferFacts, SMTT(40) DEF offer_back, SamePlace
  <2> HIDE DEF o
  <2>5. Process(d) /\ SamePlace(o, d) /\ SameKeys(o, d)
    BY <2>4, RoomKeyFacts, Zenon
  <2>6. handle_incoming(c, m) = d
    BY <1>2, <1>4, Zenon DEF o, k
  <2> HIDE DEF d
  <2> QED BY <1>1, <1>4, <2>2, <2>4, <2>5, <2>6, SMTT(40) DEF SamePlace, SameKeys
<1>5. CASE m.type = "RoomKey"
  <2> DEFINE d == open_room_key(n, m)
  <2>1. m.text.room_key \in KeyNames
    BY <1>5, Zenon DEF Readable
  <2>2. /\ DOMAIN d = DOMAIN n /\ SamePlace(n, d)
        /\ d.key_offered_to_ = n.key_offered_to_ /\ d.nickname = n.nickname
        /\ d.unsent = n.unsent /\ d.identity = n.identity /\ d.peers = n.peers
        /\ d.room_key \in {n.room_key, m.text.room_key}
    BY <1>1, Zenon DEF open_room_key, Process, SamePlace
  <2>3. handle_incoming(c, m) = d
    BY <1>2, <1>5, Zenon
  <2> HIDE DEF d
  <2>4. Process(d)
    BY <1>1, <2>1, <2>2, Zenon DEF Process, SamePlace
  <2> QED BY <1>1, <1>5, <2>2, <2>3, <2>4, Zenon DEF SamePlace, SameKeys
<1>6. CASE m.type = "BannedIds"
  <2> DEFINE d == erase_peers(n, m.ids)
  <2>1. /\ DOMAIN d = DOMAIN n /\ SamePlace(n, d)
        /\ d.key_offered_to_ = n.key_offered_to_ /\ d.nickname = n.nickname
        /\ d.unsent = n.unsent /\ d.identity = n.identity /\ d.room_key = n.room_key
        /\ d.peers = [i \in DOMAIN n.peers \ m.ids |-> n.peers[i]]
    BY <1>1, Zenon DEF erase_peers, Process, SamePlace
  <2>2. handle_incoming(c, m) = d
    BY <1>2, <1>6, ZenonT(40)
  <2> HIDE DEF d
  <2>3. Process(d)
    BY <1>1, <2>1 DEF Process, SamePlace
  <2> QED BY <1>1, <1>6, <2>1, <2>2, <2>3, Zenon DEF SamePlace, SameKeys
<1>7. CASE m.type = "UserJoined"
  <2> DEFINE d == send_key_offer(n, "receiver", m.id)
  <2>1. m.id \in 0 .. MaxId
    BY <1>3, <1>7, Zenon DEF Readable
  <2>2. Process(d) /\ SamePlace(n, d) /\ SameKeys(n, d)
    BY <1>1, <2>1, OfferFacts DEF SamePlace
  <2>3. handle_incoming(c, m) = d
    BY <1>2, <1>7, Zenon
  <2> HIDE DEF d
  <2> QED BY <1>1, <1>7, <2>2, <2>3, Zenon DEF SamePlace, SameKeys
<1>8. CASE m.type \notin {"PeerKey", "RoomKey", "BannedIds", "UserJoined"}
  <2>1. handle_incoming(c, m) = n
    BY <1>2, <1>8
  <2> QED BY <1>1, <1>8, <2>1 DEF SamePlace, SameKeys
<1> QED BY <1>4, <1>5, <1>6, <1>7, <1>8, Zenon

(* A command of the user only sends.                                         *)
LEMMA CommandFacts ==
  ASSUME NEW c, Process(c), c.phase = "running", NEW command \in Commands
  PROVE  LET d == handle_input_command(c, command) IN
         Process(d) /\ SamePlace(c, d) /\ SameKeys(c, d)
<1> DEFINE d == handle_input_command(c, command)
<1>1. CASE d = c
  BY <1>1, Zenon DEF SamePlace, SameKeys
<1>2. CASE \E m : m.type \in {"ListUsers", "Chat"} /\ d = enqueue_send(c, "input", m)
  <2>1. PICK m : m.type \in {"ListUsers", "Chat"} /\ d = enqueue_send(c, "input", m)
    BY <1>2, Zenon
  <2>2. Sendable(m)
    BY <2>1, Zenon DEF Sendable, Wellformed
  <2> QED BY <2>1, <2>2, EnqueueFacts
<1>3. CASE \E id \in 0 .. MaxId : d = send_key_offer(c, "input", id)
  BY <1>3, OfferFacts, Zenon
<1>4. \A id : LET e == send_encrypted_chat_by_id(c, id) IN
        e = c \/ \E m : m.type = "Chat" /\ e = enqueue_send(c, "input", m)
  BY Zenon DEF send_encrypted_chat_by_id, to_peer
<1>5. LET e == send_encrypted_broadcast(c) IN
      e = c \/ \E m : m.type = "Chat" /\ e = enqueue_send(c, "input", m)
  BY Zenon DEF send_encrypted_broadcast
<1>6. \/ command.type \in {"ListUsers", "ChatBroadcast"}
      \/ command.type \in {"KeyOffer", "ChatById"} /\ command.id \in 0 .. MaxId
      \/ command.type = "ChatByNickname"
  BY SystemConstants
<1>7. CASE command.type \in {"ListUsers", "ChatBroadcast"}
  BY <1>1, <1>2, <1>5, <1>7, SMTT(40) DEF handle_input_command
<1>8. CASE command.type \in {"KeyOffer", "ChatById"} /\ command.id \in 0 .. MaxId
  BY <1>1, <1>2, <1>3, <1>4, <1>8, SMTT(40) DEF handle_input_command
<1>9. CASE command.type = "ChatByNickname"
  BY <1>1, <1>2, <1>4, <1>9 DEF handle_input_command, send_encrypted_chat_by_nickname
<1> QED BY <1>6, <1>7, <1>8, <1>9, Zenon

-------------------------------------------------------------------------------
(* The inductive invariant.                                                  *)

(* A notice behind position i tells of the ban of id.                        *)
Told(s, id, i) == \E j \in DOMAIN s : j > i /\ s[j].type = "BannedIds" /\ id \in s[j].ids

loaded(u) == IF stored[u] = NoStore THEN {} ELSE DOMAIN stored[u].peers

(* The keys of a file are keys of processes.                                 *)
KeyFile(file) ==
  file # NoStore =>
    /\ file.identity \in KeyNames /\ file.room_key \in KeyNames \cup {NoKey}
    /\ \A id \in DOMAIN file.peers : id \in Ids /\ file.peers[id] \in KeyNames

(* The id of a connection is the one its client has, or finds in the first   *)
(* message of its inbox; that is there from accept() on.                     *)
Linked(c) ==
  /\ c.fd \in all_fds \cup {NoFd}
  /\ c.phase = "connecting" /\ c.inbox # <<>> => Head(c.inbox).type = "AssignId"
  /\ c.phase = "connecting" /\ c.fd # NoFd =>
       c.inbox # <<>> /\ Head(c.inbox).id = clients_by_fd_[c.fd].id
  /\ c.phase = "running" /\ c.fd # NoFd => clients_by_fd_[c.fd].id = c.my_id

(* For every ban a client knows nothing of yet, a notice is behind each key  *)
(* of the banned client that it has or that is on its way.                   *)
Informed(c, known) ==
  /\ c.phase = "connecting" => DOMAIN c.peers \subseteq known
  /\ c.fd \in all_fds \ shut => \A id \in banned_ids_ \ known :
       /\ id \in DOMAIN c.peers => Told(c.inbox, id, 0)
       /\ \A i \in DOMAIN c.inbox :
            c.inbox[i].type = "PeerKey" /\ c.inbox[i].from_id = id => Told(c.inbox, id, i)

UserOK(u) ==
  /\ sessions[u] \in 0 .. MaxSessions
  /\ KeyFile(stored[u])
  /\ \/ client[u] = Off
     \/ /\ sessions[u] > 0
        /\ Process(client[u]) /\ Linked(client[u]) /\ Informed(client[u], loaded(u))

(* Users whose connection is not accepted yet wait once, and have been sent  *)
(* nothing.                                                                  *)
Waiting ==
  /\ IsSeq(backlog)
  /\ \A i \in DOMAIN backlog :
       /\ backlog[i] \in Users
       /\ client[backlog[i]].phase = "connecting"
       /\ client[backlog[i]].fd = NoFd /\ client[backlog[i]].inbox = <<>>
  /\ \A i, j \in DOMAIN backlog : backlog[i] = backlog[j] => i = j

Wires ==
  /\ DOMAIN to_server = Fds /\ \A fd \in Fds : Sends(to_server[fd])
  /\ closed \subseteq all_fds
  /\ events \in 0 .. MaxEvents

SysInv ==
  /\ DOMAIN client = Users /\ DOMAIN stored = Users /\ DOMAIN sessions = Users
  /\ \A u \in Users : UserOK(u)
  /\ Waiting
  /\ Wires

(* A notice stays announced while messages arrive and until it is read.      *)
LEMMA ToldFacts ==
  ASSUME NEW s, IsSeq(s), NEW id, NEW i \in Nat
  PROVE  /\ \A m : Told(s, id, i) => Told(Append(s, m), id, i)
         /\ \A m : m.type = "BannedIds" /\ id \in m.ids /\ i <= Len(s) => Told(Append(s, m), id, i)
         /\ s # <<>> /\ Told(s, id, i + 1) => Told(Tail(s), id, i)
         /\ s # <<>> /\ Told(s, id, 0) =>
              Told(Tail(s), id, 0) \/ (Head(s).type = "BannedIds" /\ id \in Head(s).ids)
<1>1. \A m : Told(s, id, i) => Told(Append(s, m), id, i)
  BY AppendFacts, SMTT(40) DEF Told
<1>2. \A m : m.type = "BannedIds" /\ id \in m.ids /\ i <= Len(s) => Told(Append(s, m), id, i)
  <2> SUFFICES ASSUME NEW m, m.type = "BannedIds", id \in m.ids, i <= Len(s)
               PROVE  Told(Append(s, m), id, i)
    BY Zenon
  <2>1. /\ Len(s) + 1 \in DOMAIN Append(s, m) /\ Append(s, m)[Len(s) + 1] = m
        /\ Len(s) + 1 > i
    BY AppendFacts
  <2> QED BY <2>1, Zenon DEF Told
<1>3. ASSUME s # <<>>, NEW n \in Nat, NEW j \in DOMAIN s, j > n + 1
      PROVE  j - 1 \in DOMAIN Tail(s) /\ j - 1 > n /\ Tail(s)[j - 1] = s[j]
  <2>1. /\ Len(s) \in Nat /\ DOMAIN s = 1 .. Len(s) /\ DOMAIN Tail(s) = 1 .. Len(s) - 1
        /\ \A k \in DOMAIN Tail(s) : Tail(s)[k] = s[k + 1]
    BY <1>3, TailFacts, SMTT(40)
  <2>2. j - 1 \in DOMAIN Tail(s) /\ j - 1 > n /\ (j - 1) + 1 = j
    BY <1>3, <2>1
  <2> QED BY <2>1, <2>2
<1>4. s # <<>> /\ Told(s, id, i + 1) => Told(Tail(s), id, i)
  BY <1>3, Zenon DEF Told
<1>5. ASSUME s # <<>>, Told(s, id, 0)
      PROVE  Told(Tail(s), id, 0) \/ (Head(s).type = "BannedIds" /\ id \in Head(s).ids)
  <2>1. PICK j \in DOMAIN s : j > 0 /\ s[j].type = "BannedIds" /\ id \in s[j].ids
    BY <1>5 DEF Told
  <2>2. CASE j = 1
    BY <1>5, <2>1, <2>2, TailFacts, SMTT(40)
  <2>3. CASE j > 0 + 1
    BY <1>3, <1>5, <2>1, <2>3, ZenonT(40) DEF Told
  <2>4. j = 1 \/ j > 0 + 1
    BY <1>5, <2>1, TailFacts
  <2> QED BY <2>2, <2>3, <2>4, SMTT(40)
<1> QED BY <1>1, <1>2, <1>4, <1>5, Zenon

-------------------------------------------------------------------------------
(* Steps of the server.                                                      *)

(* What a step of the server does that clients can tell: ids stay with their *)
(* connections, and everybody who is still served hears of a ban.            *)
Carries ==
  /\ \A f \in all_fds \cap all_fds' :
       clients_by_fd_'[f].id = clients_by_fd_[f].id /\ (f \in shut => f \in shut')
  /\ \A f \in Fds : sent'[f] # NoMsg => Readable(sent'[f])
  /\ \/ banned_ids_' = banned_ids_
     \/ \A f \in all_fds' \ shut' :
          /\ sent'[f] # NoMsg /\ sent'[f].type = "BannedIds"
          /\ banned_ids_' \ banned_ids_ \subseteq sent'[f].ids

(* What a message does to the bans a client must still hear of.              *)
LEMMA ArrivalKeeps ==
  ASSUME Safe', Carries, NEW s, IsSeq(s), NEW peers, NEW known,
         NEW f \in all_fds, f \in all_fds', f \notin shut',
         \A id \in banned_ids_ \ known :
           /\ id \in peers => Told(s, id, 0)
           /\ \A i \in DOMAIN s :
                s[i].type = "PeerKey" /\ s[i].from_id = id => Told(s, id, i),
         NEW t, t = IF sent'[f] = NoMsg THEN s ELSE Append(s, sent'[f])
  PROVE  \A id \in banned_ids_' \ known :
           /\ id \in peers => Told(t, id, 0)
           /\ \A i \in DOMAIN t :
                t[i].type = "PeerKey" /\ t[i].from_id = id => Told(t, id, i)
<1> SUFFICES ASSUME NEW id \in banned_ids_' \ known
             PROVE  /\ id \in peers => Told(t, id, 0)
                    /\ \A i \in DOMAIN t :
                         t[i].type = "PeerKey" /\ t[i].from_id = id => Told(t, id, i)
  BY Zenon
<1> DEFINE m == sent'[f]
<1>1. m # NoMsg /\ m.type = "PeerKey" => m.from_id # id
  BY DEF Safe, BannedSilent, IInv, TypeOK, is_banned
<1>2. CASE id \in banned_ids_
  <2>1. CASE m = NoMsg
    BY <1>2, <2>1, Zenon
  <2>2. CASE m # NoMsg
    <3>1. /\ Len(s) \in Nat /\ DOMAIN s = 1 .. Len(s) /\ t[Len(s) + 1] = m
          /\ DOMAIN t = 1 .. Len(s) + 1 /\ \A i \in DOMAIN s : t[i] = s[i]
      BY <2>2, AppendFacts
    <3>2. \A i \in Nat : Told(s, id, i) => Told(t, id, i)
      BY <2>2, ToldFacts, Zenon
    <3>3. \A i \in DOMAIN t : i \in DOMAIN s \/ i = Len(s) + 1
      BY <3>1
    <3> HIDE DEF m
    <3> QED BY <1>1, <1>2, <2>2, <3>1, <3>2, <3>3, SMTT(40)
  <2> QED BY <2>1, <2>2, Zenon
<1>3. CASE id \notin banned_ids_
  <2>1. m # NoMsg /\ m.type = "BannedIds" /\ id \in m.ids
    BY <1>3, Zenon DEF Carries
  <2>2. /\ Len(s) \in Nat /\ t[Len(s) + 1] = m /\ DOMAIN t = 1 .. Len(s) + 1
    BY <2>1, AppendFacts
  <2>3. \A i \in Nat : i <= Len(s) => Told(t, id, i)
    BY <2>1, ToldFacts, Zenon
  <2>4. \A i \in DOMAIN t : i \in Nat /\ (i <= Len(s) \/ i = Len(s) + 1)
    BY <2>2
  <2> HIDE DEF m
  <2> QED BY <2>1, <2>2, <2>3, <2>4
<1> QED BY <1>2, <1>3, Zenon

(* transmit(): a process may get one message, and may lose its connection.   *)
LEMMA TransmitKeeps ==
  ASSUME Safe, Safe', Carries, NEW clients, transmit(clients), NEW u \in Users,
         Process(clients[u]), Linked(clients[u]), Informed(clients[u], loaded(u)),
         KeyFile(stored[u]), sessions[u] \in 1 .. MaxSessions, UNCHANGED <<stored, sessions>>
  PROVE  UserOK(u)'
<1>1. PICK c, d, m : c = clients[u] /\ d = client'[u] /\ m = sent'[c.fd]
  BY Zenon
<1>2. Process(c) /\ Linked(c) /\ Informed(c, loaded(u))
  BY <1>1, Zenon
<1>3. all_fds \subseteq Fds /\ all_fds' \subseteq Fds /\ NoFd \notin Fds
  BY SystemConstants, ZenonT(40) DEF Safe, IInv, TypeOK
<1>4. CASE c.fd = NoFd
  <2>1. d = c
    BY <1>1, <1>4, Zenon DEF transmit
  <2>2. Linked(c)' /\ Informed(c, loaded(u))'
    BY <1>2, <1>3, <1>4, ZenonT(40) DEF Linked, Informed, loaded
  <2> QED BY <1>1, <1>2, <2>1, <2>2 DEF UserOK
<1>5. CASE c.fd # NoFd
  <2>1. /\ DOMAIN d = DOMAIN c /\ d.phase = c.phase /\ d.my_id = c.my_id
        /\ d.key_offered_to_ = c.key_offered_to_ /\ d.nickname = c.nickname
        /\ d.unsent = c.unsent /\ SameKeys(c, d)
        /\ d.inbox = IF m = NoMsg THEN c.inbox ELSE Append(c.inbox, m)
        /\ d.fd = IF c.fd \in all_fds' THEN c.fd ELSE NoFd
    BY <1>1, <1>2, <1>5, Zenon DEF transmit, Process, SameKeys, Linked, all_fds
  <2>2. c.fd \in all_fds /\ c.fd \in Fds
    BY <1>2, <1>3, <1>5, Zenon DEF Linked
  <2>3. Reads(c.inbox) /\ IsSeq(c.inbox)
    BY <1>2, ZenonT(40) DEF Process, Reads
  <2>4. Reads(d.inbox)
    BY <1>1, <2>1, <2>2, <2>3, QueueFacts, ZenonT(40) DEF Carries
  <2>5. Process(d)
    BY <1>2, <2>1, <2>4, ZenonT(40) DEF Process, SameKeys
  <2>6. /\ c.inbox # <<>> => d.inbox # <<>> /\ Head(d.inbox) = Head(c.inbox)
    BY <2>1, <2>3, AppendFacts
  <2>7. d.fd # NoFd => d.fd = c.fd /\ c.fd \in all_fds'
                       /\ clients_by_fd_'[c.fd].id = clients_by_fd_[c.fd].id
    BY <1>5, <2>1, <2>2, Zenon DEF Carries
  <2>8. Linked(d)'
    BY <1>2, <1>5, <2>1, <2>6, <2>7, ZenonT(40) DEF Linked
  <2>9. Informed(d, loaded(u))'
    <3>1. d.phase = "connecting" => DOMAIN d.peers \subseteq loaded(u)'
      BY <1>2, <2>1, Zenon DEF Informed, SameKeys, loaded
    <3>2. ASSUME d.fd \in all_fds' \ shut'
          PROVE  \A id \in banned_ids_' \ loaded(u)' :
                   /\ id \in DOMAIN d.peers => Told(d.inbox, id, 0)
                   /\ \A i \in DOMAIN d.inbox :
                        d.inbox[i].type = "PeerKey" /\ d.inbox[i].from_id = id
                          => Told(d.inbox, id, i)
      <4>1. d.fd = c.fd /\ c.fd \in all_fds' /\ c.fd \notin shut' /\ c.fd \notin shut
        BY <1>3, <2>2, <2>7, <3>2, Zenon DEF Carries
      <4>2. loaded(u)' = loaded(u) /\ d.peers = c.peers
        BY <2>1, Zenon DEF loaded, SameKeys
      <4>3. \A id \in banned_ids_ \ loaded(u) :
              /\ id \in DOMAIN c.peers => Told(c.inbox, id, 0)
              /\ \A i \in DOMAIN c.inbox :
                   c.inbox[i].type = "PeerKey" /\ c.inbox[i].from_id = id
                     => Told(c.inbox, id, i)
        BY <1>2, <2>2, <4>1, ZenonT(40) DEF Informed
      <4>4. d.inbox = IF sent'[c.fd] = NoMsg THEN c.inbox ELSE Append(c.inbox, sent'[c.fd])
        BY <1>1, <2>1, Zenon
      <4>5. \A id \in banned_ids_' \ loaded(u) :
              /\ id \in DOMAIN c.peers => Told(d.inbox, id, 0)
              /\ \A i \in DOMAIN d.inbox :
                   d.inbox[i].type = "PeerKey" /\ d.inbox[i].from_id = id
                     => Told(d.inbox, id, i)
        BY <2>2, <2>3, <4>1, <4>3, <4>4, ArrivalKeeps, ZenonT(40)
      <4> QED BY <4>2, <4>5, Zenon
    <3> QED BY <3>1, <3>2, Zenon DEF Informed
  <2> QED BY <1>1, <2>5, <2>8, <2>9 DEF UserOK
<1> QED BY <1>4, <1>5, Zenon

(* A step that sends one message on some connections and keeps the rest.     *)
LEMMA NoticeCarries ==
  ASSUME \A f \in all_fds \cap all_fds' :
           clients_by_fd_'[f].id = clients_by_fd_[f].id /\ (f \in shut => f \in shut'),
         banned_ids_' = banned_ids_, NEW targets, NEW m, sent' = To(targets, m), Readable(m)
  PROVE  Carries
BY DEF Carries, To

(* remove_client tells the others, and changes nothing else for them.        *)
LEMMA RemoveCarries ==
  ASSUME Safe, NEW fd \in all_fds, remove_client(fd)
  PROVE  Carries /\ all_fds' \subseteq all_fds
<1>1. /\ all_fds' = all_fds \ {fd}
      /\ \A f \in all_fds \ {fd} : clients_by_fd_'[f] = clients_by_fd_[f]
  BY RemoveFacts, Zenon DEF remove_client, Safe
<1>2. /\ shut' = shut \ {fd} /\ banned_ids_' = banned_ids_
      /\ \E m : m.type = "UserLeft" /\ sent' = To(all_fds \ {fd}, m)
  BY DEF remove_client, UserLeft
<1>3. \A m : m.type = "UserLeft" => Readable(m)
  BY Zenon DEF Readable
<1> QED BY <1>1, <1>2, <1>3, NoticeCarries, Zenon

(* relay(): a key offer arrives as its sender's key, a room key as such.     *)
LEMMA RelayReadable ==
  ASSUME Safe, NEW fd \in all_fds, NEW m, Sendable(m), m.type \in DOMAIN deliver_type
  PROVE  \E targets, msg : relay(fd, m) = To(targets, msg) /\ Readable(msg)
<1> DEFINE id == clients_by_fd_[fd].id
           deliver == [type |-> deliver_type[m.type], from_id |-> id, text |-> m.text]
<1>1. id \in Ids
  BY Zenon DEF Safe, IInv, TypeOK
<1>2. Readable(deliver)
  <2>1. /\ deliver.type = deliver_type[m.type] /\ deliver.from_id = id /\ deliver.text = m.text
    BY Zenon
  <2>2. /\ deliver_type[m.type] = "PeerKey" => m.type = "KeyOffer"
        /\ deliver_type[m.type] = "RoomKey" => m.type = "RoomKeyOffer"
        /\ deliver_type[m.type] # "UserJoined"
    BY DEF deliver_type
  <2> HIDE DEF deliver
  <2> QED BY <1>1, <2>1, <2>2, Zenon DEF Readable, Sendable
<1>3. \A why : Readable(Error(why))
  BY Zenon DEF Readable, Error
<1>4. Silence = To({}, deliver)
  BY Zenon DEF Silence, To
<1> HIDE DEF deliver
<1>5. \/ relay(fd, m) = Silence
      \/ \E targets : relay(fd, m) = To(targets, deliver)
      \/ \E why : relay(fd, m) = To({fd}, Error(why))
  BY Zenon DEF relay, relay_as, deliver
<1> QED BY <1>2, <1>3, <1>4, <1>5, Zenon

(* A step of a client, or a message after a stop: nothing here.              *)
LEMMA IdleCarries ==
  ASSUME idle
  PROVE  Carries /\ all_fds' = all_fds
BY Zenon DEF idle, registry, ids, all_fds, Carries, Silence

(* handle_client_data on what a client sent.                                 *)
LEMMA HandleCarries ==
  ASSUME Safe, NEW fd \in Fds, NEW m, m = NoMsg \/ Sendable(m), handle_client_data(fd, m)
  PROVE  Carries /\ all_fds' \subseteq all_fds
<1>1. fd \in all_fds
  BY Zenon DEF handle_client_data
<1>2. CASE remove_client(fd)
  BY <1>1, <1>2, RemoveCarries, Zenon
<1>3. CASE idle
  BY <1>3, IdleCarries, Zenon
<1>4. CASE m # NoMsg /\ dispatch(fd, m) /\ UNCHANGED <<ids, running_, shut>>
  <2>1. Sendable(m) /\ Wellformed(m)
    BY <1>4, Zenon DEF Sendable
  <2>2. /\ all_fds' = all_fds /\ UNCHANGED <<shut, banned_ids_>>
        /\ \A f \in all_fds : clients_by_fd_'[f].id = clients_by_fd_[f].id
    BY <1>1, <1>4, <2>1, DispatchInvisible, ZenonT(40) DEF ids
  <2>3. \E targets, msg : sent' = To(targets, msg) /\ Readable(msg)
    <3>1. \A why : Readable(Error(why))
      BY Zenon DEF Readable, Error
    <3>2. CASE m.type = "Register" /\ RegisterMessageHandler(fd, m.nickname)
      <4>1. Readable(UserJoined(clients_by_fd_[fd].id, m.nickname))
        BY <1>1, Zenon DEF Readable, UserJoined, Safe, IInv, TypeOK
      <4> QED BY <3>1, <3>2, <4>1, Zenon DEF RegisterMessageHandler
    <3>3. CASE m.type \in DOMAIN deliver_type /\ sent' = relay(fd, m)
      BY <1>1, <2>1, <3>3, RelayReadable, ZenonT(40)
    <3>4. Readable([type |-> "UsersList", users |-> collect_users])
      BY DEF Readable
    <3> QED BY <1>4, <3>1, <3>2, <3>3, <3>4, ZenonT(40) DEF dispatch
  <2> QED BY <2>2, <2>3, NoticeCarries, ZenonT(40)
<1>5. CASE sent' = To({fd}, Error("Malformed")) /\ UNCHANGED <<registry, ids, shut>>
  <2>1. Readable(Error("Malformed"))
    BY Zenon DEF Readable, Error
  <2>2. UNCHANGED <<clients_by_fd_, all_fds, shut, banned_ids_>>
    BY <1>5, Zenon DEF registry, ids, all_fds
  <2> QED BY <1>5, <2>1, <2>2, NoticeCarries, Zenon
<1> QED BY <1>2, <1>3, <1>4, <1>5, ZenonT(40) DEF handle_client_data

(* ban_ids tells everybody it does not shut down.                            *)
LEMMA BanCarries ==
  ASSUME Safe, NEW banned \in BanLists, ban_ids(banned)
  PROVE  Carries /\ all_fds' = all_fds
<1> DEFINE newly_banned == bannable(banned) \ banned_ids_
           peers == {fd \in all_fds : clients_by_fd_[fd].id \notin banned_ids_'}
           msg == [type |-> "BannedIds", ids |-> newly_banned]
<1>1. /\ banned_ids_' = banned_ids_ \cup newly_banned
      /\ sent' = IF newly_banned = {} THEN Silence ELSE To(peers, msg)
      /\ shut' = shut \cup fds_of(newly_banned)
      /\ UNCHANGED <<clients_by_fd_, all_fds>>
  BY Zenon DEF ban_ids, registry, all_fds
<1>2. Readable(msg) /\ msg.type = "BannedIds" /\ msg.ids = newly_banned
  BY Zenon DEF Readable
<1>3. msg # NoMsg
  <2>1. bannable(banned) \subseteq Ids
    BY ServerConstants DEF bannable, NoId, Ids, kFirstClientId
  <2>2. msg \in [type : {"BannedIds"}, ids : SUBSET Ids]
    BY <2>1, Zenon
  <2> QED BY <2>2, SystemConstants, Zenon
<1>4. CASE newly_banned = {}
  BY <1>1, <1>4, ZenonT(40) DEF Carries, Silence
<1>5. CASE newly_banned # {}
  <2>1. \A f \in all_fds \ shut' : f \in peers \ shut /\ f \in Fds
    BY <1>1 DEF fds_of, Safe, IInv, BannedShut, RegistryConsistent, TypeOK, is_banned
  <2>2. \A f \in Fds : sent'[f] = IF f \in peers \ shut THEN msg ELSE NoMsg
    BY <1>1, <1>5, Zenon DEF To
  <2> HIDE DEF msg, peers, newly_banned
  <2> QED BY <1>1, <1>2, <1>3, <2>1, <2>2, ZenonT(40) DEF Carries
<1> QED BY <1>1, <1>4, <1>5, Zenon

(* Whoever waits to be accepted is not concerned by what is sent to others.  *)
LEMMA WaitingKeeps ==
  ASSUME Waiting, NEW clients, transmit(clients), IsSeq(backlog'),
         \A i \in DOMAIN backlog' :
           /\ clients[backlog'[i]] = client[backlog'[i]]
           /\ \E j \in DOMAIN backlog : backlog[j] = backlog'[i],
         \A i, j \in DOMAIN backlog' : backlog'[i] = backlog'[j] => i = j
  PROVE  Waiting'
<1>1. ASSUME NEW i \in DOMAIN backlog'
      PROVE  /\ backlog'[i] \in Users /\ client'[backlog'[i]].phase = "connecting"
             /\ client'[backlog'[i]].fd = NoFd /\ client'[backlog'[i]].inbox = <<>>
  <2>1. PICK v : v = backlog'[i]
    BY Zenon
  <2>2. /\ v \in Users /\ client[v].phase = "connecting" /\ client[v].fd = NoFd
        /\ client[v].inbox = <<>> /\ clients[v] = client[v]
    BY <1>1, <2>1 DEF Waiting
  <2>3. client'[v] = client[v]
    BY <2>2, Zenon DEF transmit
  <2> QED BY <2>1, <2>2, <2>3, Zenon
<1> QED BY <1>1, Zenon DEF Waiting

(* A step of the server for the clients it has.                              *)
LEMMA ServerKeeps ==
  ASSUME Safe, SysInv, Safe', Carries, all_fds' \subseteq all_fds, transmit(client),
         UNCHANGED <<stored, sessions, backlog>>, events' \in 0 .. MaxEvents,
         DOMAIN to_server' = Fds, \A fd \in Fds : Sends(to_server'[fd])
  PROVE  SysInv'
<1>1. DOMAIN client' = Users /\ DOMAIN stored' = Users /\ DOMAIN sessions' = Users
  BY Zenon DEF SysInv, transmit
<1>2. ASSUME NEW u \in Users
      PROVE  UserOK(u)'
  <2>1. UserOK(u)
    BY Zenon DEF SysInv
  <2>2. CASE client[u] = Off
    <3>0. client[u].fd = NoFd
      BY <2>2 DEF Off
    <3>1. client'[u] = Off
      BY <2>2, <3>0, Zenon DEF transmit
    <3> QED BY <2>1, <3>1, ZenonT(40) DEF UserOK
  <2>3. CASE client[u] # Off
    <3>1. /\ Process(client[u]) /\ Linked(client[u]) /\ Informed(client[u], loaded(u))
          /\ KeyFile(stored[u]) /\ sessions[u] \in 1 .. MaxSessions
      BY <2>1, <2>3 DEF UserOK
    <3> QED BY <3>1, TransmitKeeps, ZenonT(40)
  <2> QED BY <2>2, <2>3, Zenon
<1>3. Waiting'
  <2>1. Waiting
    BY Zenon DEF SysInv
  <2> QED BY <2>1, WaitingKeeps, Zenon DEF Waiting
<1>4. closed' \subseteq all_fds'
  BY Zenon DEF SysInv, Wires, transmit, all_fds
<1>5. Wires'
  BY <1>4, Zenon DEF Wires
<1> QED BY <1>1, <1>2, <1>3, <1>5, Zenon DEF SysInv

(* hang_up, read_frame, read_eof and ban.                                    *)
LEMMA ServeKeeps ==
  ASSUME Safe, SysInv,
         \/ \E fd \in Fds : hang_up(fd) \/ read_frame(fd) \/ read_eof(fd)
         \/ \E banned \in BanLists : ban(banned)
  PROVE  Safe' /\ SysInv'
<1>1. /\ DOMAIN to_server = Fds /\ \A fd \in Fds : Sends(to_server[fd])
      /\ events \in 0 .. MaxEvents
  BY Zenon DEF SysInv, Wires
<1>2. CASE \E fd \in Fds : hang_up(fd) \/ read_eof(fd)
  <2>1. PICK fd \in Fds : hang_up(fd) \/ read_eof(fd)
    BY <1>2, Zenon
  <2>2. /\ (fd \in all_fds /\ remove_client(fd)) \/ handle_client_data(fd, NoMsg)
        /\ transmit(client) /\ UNCHANGED <<stored, sessions, events, backlog, to_server>>
    BY <2>1, Zenon DEF hang_up, read_eof, hangup, processes
  <2>3. Safe' /\ Carries /\ all_fds' \subseteq all_fds
    <3>1. CASE fd \in all_fds /\ remove_client(fd)
      BY <3>1, RemoveSafe, RemoveCarries, Zenon
    <3>2. CASE handle_client_data(fd, NoMsg)
      BY <3>2, HandleSafe, HandleCarries, Zenon
    <3> QED BY <2>2, <3>1, <3>2, Zenon
  <2> QED BY <1>1, <2>2, <2>3, ServerKeeps, Zenon
<1>3. CASE \E fd \in Fds : read_frame(fd)
  <2>1. PICK fd \in Fds : read_frame(fd)
    BY <1>3, Zenon
  <2>2. /\ to_server[fd] # <<>> /\ handle_client_data(fd, Head(to_server[fd]))
        /\ to_server' = [to_server EXCEPT ![fd] = Tail(@)]
        /\ transmit(client) /\ UNCHANGED <<stored, sessions, events, backlog>>
    BY <2>1, Zenon DEF read_frame, processes
  <2>3. Sendable(Head(to_server[fd])) /\ Sends(Tail(to_server[fd]))
    BY <1>1, <2>2, QueueFacts, Zenon
  <2>4. DOMAIN to_server' = Fds /\ \A f \in Fds : Sends(to_server'[f])
    BY <1>1, <2>2, <2>3, Zenon
  <2>5. Safe'
    BY <2>2, <2>3, HandleSafe, Zenon DEF Sendable
  <2>6. Carries /\ all_fds' \subseteq all_fds
    BY <2>2, <2>3, HandleCarries, Zenon
  <2> QED BY <1>1, <2>2, <2>4, <2>5, <2>6, ServerKeeps, Zenon
<1>4. CASE \E banned \in BanLists : ban(banned)
  <2>1. PICK banned \in BanLists : ban(banned)
    BY <1>4, Zenon
  <2>2. /\ ban_ids(banned) /\ transmit(client) /\ events < MaxEvents /\ events' = events + 1
        /\ UNCHANGED <<stored, sessions, backlog, to_server>>
    BY <2>1, Zenon DEF ban, another_event
  <2>3. Safe' /\ Carries /\ all_fds' = all_fds
    BY <2>2, BanSafe, BanCarries, Zenon
  <2>4. events' \in 0 .. MaxEvents
    BY <1>1, <2>2, SystemConstants
  <2> QED BY <1>1, <2>2, <2>3, <2>4, ServerKeeps, Zenon
<1> QED BY <1>2, <1>3, <1>4, Zenon

(* What accept_client does for everybody who is connected already, and what  *)
(* the new client finds.                                                     *)
LEMMA AcceptCarries ==
  ASSUME Safe, NEW fd \in Fds, accept_client(fd)
  PROVE  /\ Carries /\ fd \notin all_fds /\ all_fds' = all_fds \cup {fd}
         /\ sent'[fd] # NoMsg /\ Readable(sent'[fd]) /\ sent'[fd].type = "AssignId"
         /\ sent'[fd].id = clients_by_fd_'[fd].id
<1>1. PICK id \in Ids :
        /\ allocate_client_id(id)
        /\ registry_add(fd, id)
        /\ sent' = [To(all_fds, UserJoined(id, NoNickname)) EXCEPT
             ![fd] = [type |-> "AssignId", id |-> id, create_room |-> all_fds = {}]]
  BY Zenon DEF accept_client
<1>2. fd \in Fds \ all_fds /\ UNCHANGED <<banned_ids_, shut>>
  BY Zenon DEF accept_client
<1>3. id \notin live_ids
  BY <1>1, AllocateFacts, Zenon DEF Safe
<1>4. /\ all_fds' = all_fds \cup {fd} /\ clients_by_fd_'[fd].id = id
      /\ \A f \in all_fds : clients_by_fd_'[f] = clients_by_fd_[f]
  <2>1. /\ all_fds' = all_fds \cup {fd}
        /\ clients_by_fd_'[fd] = [id |-> id, nickname |-> NoNickname]
        /\ \A f \in all_fds : clients_by_fd_'[f] = clients_by_fd_[f]
    BY <1>1, <1>2, <1>3, AddFacts, Zenon DEF Safe
  <2> QED BY <2>1
<1>5. PICK assign : assign = [type |-> "AssignId", id |-> id, create_room |-> all_fds = {}]
  BY Zenon
<1>6. assign \in [type : {"AssignId"}, id : Ids, create_room : BOOLEAN]
  BY <1>5, Zenon
<1>7. assign # NoMsg /\ assign.type = "AssignId" /\ assign.id = id
  BY <1>5, <1>6, SystemConstants, Zenon
<1>8. PICK joined : joined = UserJoined(id, NoNickname)
  BY Zenon
<1>9. Readable(assign) /\ Readable(joined)
  BY <1>7, <1>8, Zenon DEF Readable, UserJoined
<1>10. /\ sent'[fd] = assign
       /\ \A f \in Fds : sent'[f] \in {NoMsg, joined, assign}
  BY <1>1, <1>5, <1>8, Zenon DEF To
<1>11. Carries
  BY <1>2, <1>4, <1>9, <1>10, Zenon DEF Carries
<1> QED BY <1>2, <1>4, <1>7, <1>9, <1>10, <1>11, Zenon

(* accept: the client at the head of the queue gets the connection and, as   *)
(* its first message, its id.                                                *)
LEMMA AcceptKeeps ==
  ASSUME Safe, SysInv, NEW fd \in Fds, accept(fd)
  PROVE  Safe' /\ SysInv'
<1>1. PICK h : h = Head(backlog)
  BY Zenon
<1>2. /\ backlog # <<>> /\ accept_client(fd) /\ backlog' = Tail(backlog)
      /\ to_server' = [to_server EXCEPT ![fd] = <<>>]
      /\ transmit([client EXCEPT ![h].fd = fd]) /\ UNCHANGED <<stored, sessions, events>>
  BY <1>1, Zenon DEF accept, processes
<1>3. Safe'
  BY <1>2, AcceptSafe, Zenon
<1>4. /\ Carries /\ fd \notin all_fds /\ all_fds' = all_fds \cup {fd}
      /\ sent'[fd] # NoMsg /\ Readable(sent'[fd]) /\ sent'[fd].type = "AssignId"
      /\ sent'[fd].id = clients_by_fd_'[fd].id
  BY <1>2, AcceptCarries, Zenon
<1>5. /\ IsSeq(backlog) /\ 1 \in DOMAIN backlog /\ h = backlog[1]
      /\ IsSeq(Tail(backlog)) /\ DOMAIN Tail(backlog) \subseteq Nat \ {0}
      /\ \A i \in DOMAIN Tail(backlog) :
           Tail(backlog)[i] = backlog[i + 1] /\ i + 1 \in DOMAIN backlog
  <2>1. IsSeq(backlog) /\ backlog # <<>> /\ h = Head(backlog)
    BY <1>1, <1>2, Zenon DEF SysInv, Waiting
  <2>2. /\ IsSeq(Tail(backlog)) /\ Len(backlog) \in Nat /\ 1 \in DOMAIN backlog
        /\ h = backlog[1] /\ DOMAIN Tail(backlog) = 1 .. Len(backlog) - 1
        /\ \A i \in DOMAIN Tail(backlog) :
             Tail(backlog)[i] = backlog[i + 1] /\ i + 1 \in DOMAIN backlog
    BY <2>1, TailFacts, Zenon
  <2>3. 1 .. Len(backlog) - 1 \subseteq Nat \ {0}
    BY <2>2
  <2> QED BY <2>1, <2>2, <2>3, Zenon
<1>6. /\ h \in Users /\ client[h].phase = "connecting" /\ client[h].fd = NoFd
      /\ client[h].inbox = <<>> /\ client[h] # Off
  BY <1>5 DEF SysInv, Waiting, Off
<1>7. PICK clients : clients = [client EXCEPT ![h].fd = fd]
  BY Zenon
<1>8. /\ clients[h] = [client[h] EXCEPT !.fd = fd]
      /\ \A u \in Users \ {h} : clients[u] = client[u]
  BY <1>6, <1>7, Zenon DEF SysInv
<1>9. UserOK(h)'
  <2>1. PICK c, d : c = client[h] /\ d = client'[h]
    BY ZenonT(40)
  <2>2. /\ Process(c) /\ DOMAIN c.peers \subseteq loaded(h) /\ KeyFile(stored[h])
        /\ sessions[h] \in 1 .. MaxSessions
    BY <1>6, <2>1 DEF SysInv, UserOK, Informed
  <2>3. clients[h] = [c EXCEPT !.fd = fd]
    BY <1>8, <2>1, Zenon
  <2>4. /\ DOMAIN clients[h] = DOMAIN c /\ clients[h].fd = fd
        /\ \A field \in DOMAIN c \ {"fd"} : clients[h][field] = c[field]
    BY <2>2, <2>3, Zenon DEF Process
  <2>5. fd # NoFd /\ fd \notin all_fds \ DOMAIN clients_by_fd_'
    BY <1>4, SystemConstants, Zenon
  <2>6. d = [clients[h] EXCEPT !.inbox = Append(@, sent'[fd]), !.fd = fd]
    BY <1>2, <1>4, <1>6, <1>7, <2>1, <2>4, <2>5, ZenonT(40) DEF transmit
  <2>7. /\ DOMAIN d = DOMAIN c /\ d.fd = fd /\ d.inbox = Append(c.inbox, sent'[fd])
        /\ d.phase = c.phase /\ d.my_id = c.my_id
        /\ d.key_offered_to_ = c.key_offered_to_ /\ d.nickname = c.nickname
        /\ d.unsent = c.unsent /\ SameKeys(c, d)
    BY <2>2, <2>4, <2>6, Zenon DEF Process, SameKeys
  <2>8. Reads(d.inbox)
    <3>1. Reads(c.inbox)
      BY <2>2, Zenon DEF Process
    <3> QED BY <1>4, <2>7, <3>1, QueueFacts, Zenon
  <2>9. Process(d)
    BY <2>2, <2>7, <2>8, ZenonT(40) DEF Process, SameKeys
  <2>10. /\ d.phase = "connecting" /\ d.inbox # <<>> /\ Head(d.inbox) = sent'[fd]
         /\ DOMAIN d.inbox = {1} /\ d.inbox[1] = sent'[fd]
    BY <1>6, <2>1, <2>7
  <2>11. Linked(d)'
    BY <1>4, <2>7, <2>10, Zenon DEF Linked
  <2>12. Informed(d, loaded(h))'
    BY <1>2, <1>4, <2>2, <2>7, <2>10, ZenonT(40) DEF Informed, SameKeys, loaded
  <2> QED BY <1>2, <2>1, <2>2, <2>9, <2>11, <2>12 DEF UserOK
<1>10. ASSUME NEW u \in Users \ {h}
       PROVE  UserOK(u)'
  <2>1. UserOK(u) /\ clients[u] = client[u] /\ transmit(clients)
    BY <1>2, <1>7, <1>8, <1>10, Zenon DEF SysInv
  <2>2. CASE client[u] = Off
    <3>1. client[u].fd = NoFd
      BY <2>2 DEF Off
    <3>2. client'[u] = Off
      BY <2>1, <2>2, <3>1, Zenon DEF transmit
    <3> QED BY <1>2, <2>1, <3>2, ZenonT(40) DEF UserOK
  <2>3. CASE client[u] # Off
    <3>1. /\ Process(clients[u]) /\ Linked(clients[u]) /\ Informed(clients[u], loaded(u))
          /\ KeyFile(stored[u]) /\ sessions[u] \in 1 .. MaxSessions
      BY <2>1, <2>3 DEF UserOK
    <3> QED BY <1>2, <1>3, <1>4, <2>1, <3>1, TransmitKeeps, ZenonT(40)
  <2> QED BY <2>2, <2>3, Zenon
<1>11. Waiting'
  <2>1. \A i, j \in DOMAIN backlog : backlog[i] = backlog[j] => i = j
    BY Zenon DEF SysInv, Waiting
  <2>2. \A i \in DOMAIN backlog' : backlog'[i] # h /\ backlog'[i] \in Users
    BY <1>2, <1>5, <2>1, SMTT(40) DEF SysInv, Waiting
  <2>3. \A i, j \in DOMAIN backlog' : backlog'[i] = backlog'[j] => i = j
    BY <1>2, <1>5, <2>1, SMTT(40)
  <2>4. \A i \in DOMAIN backlog' : \E j \in DOMAIN backlog : backlog[j] = backlog'[i]
    BY <1>2, <1>5, Zenon
  <2>5. Waiting /\ transmit(clients) /\ IsSeq(backlog')
    BY <1>2, <1>5, <1>7, ZenonT(40) DEF SysInv
  <2> QED BY <1>8, <2>2, <2>3, <2>4, <2>5, WaitingKeeps, ZenonT(40)
<1>12. Wires'
  <2>1. closed' \subseteq all_fds'
    BY <1>2, Zenon DEF SysInv, Wires, transmit, all_fds
  <2>2. DOMAIN to_server' = Fds /\ \A f \in Fds : Sends(to_server'[f])
    BY <1>2, QueueFacts, Zenon DEF SysInv, Wires
  <2> QED BY <1>2, <2>1, <2>2, ZenonT(40) DEF SysInv, Wires
<1>13. DOMAIN client' = Users /\ DOMAIN stored' = Users /\ DOMAIN sessions' = Users
  BY <1>2, Zenon DEF SysInv, transmit
<1> QED BY <1>3, <1>9, <1>10, <1>11, <1>12, <1>13, ZenonT(40) DEF SysInv

-------------------------------------------------------------------------------
(* Steps of a client.                                                        *)

(* A step of the client of u leaves everybody else where they are.           *)
LEMMA ClientKeeps ==
  ASSUME Safe, SysInv, idle, NEW u \in Users, NEW d, becomes(u, d),
         DOMAIN stored' = Users, DOMAIN sessions' = Users,
         \A v \in Users \ {u} : stored'[v] = stored[v] /\ sessions'[v] = sessions[v],
         sessions'[u] \in 0 .. MaxSessions, KeyFile(stored'[u]),
         \/ d = Off
         \/ sessions'[u] > 0 /\ Process(d) /\ Linked(d) /\ Informed(d, loaded(u)'),
         Waiting', Wires'
  PROVE  Safe' /\ SysInv'
<1>1. Safe'
  BY IdleSafe, Zenon
<1>2. UNCHANGED <<clients_by_fd_, all_fds, shut, banned_ids_>>
  BY Zenon DEF idle, registry, ids, all_fds
<1>3. /\ DOMAIN client' = Users /\ client'[u] = d
      /\ \A v \in Users \ {u} : client'[v] = client[v]
  BY Zenon DEF becomes, SysInv
<1>4. ASSUME NEW v \in Users
      PROVE  UserOK(v)'
  <2>1. CASE v = u
    <3>1. PICK known : known = loaded(u)'
      BY Zenon
    <3>2. Linked(d) => Linked(d)'
      BY <1>2, Zenon DEF Linked
    <3>3. Informed(d, known) => Informed(d, known)'
      BY <1>2, Zenon DEF Informed
    <3> QED BY <1>3, <2>1, <3>1, <3>2, <3>3 DEF UserOK
  <2>2. CASE v # u
    <3>1. UserOK(v) /\ client'[v] = client[v] /\ stored'[v] = stored[v] /\ sessions'[v] = sessions[v]
      BY <1>3, <2>2, Zenon DEF SysInv
    <3> QED BY <1>2, <3>1, Zenon DEF UserOK, Linked, Informed, loaded
  <2> QED BY <2>1, <2>2, Zenon
<1> QED BY <1>1, <1>3, <1>4, Zenon DEF SysInv

(* A process that goes on leaves sessions and files alone.                   *)
LEMMA RunningKeeps ==
  ASSUME Safe, SysInv, idle, NEW u \in Users, NEW d, becomes(u, d),
         UNCHANGED <<stored, sessions>>, sessions[u] \in 1 .. MaxSessions,
         Process(d), Linked(d), Informed(d, loaded(u)'), Waiting', Wires'
  PROVE  Safe' /\ SysInv'
<1>1. DOMAIN stored' = Users /\ DOMAIN sessions' = Users /\ KeyFile(stored'[u])
  BY Zenon DEF SysInv, UserOK
<1>2. sessions'[u] \in 0 .. MaxSessions /\ sessions'[u] > 0
  BY SystemConstants
<1>3. \A v \in Users \ {u} : stored'[v] = stored[v] /\ sessions'[v] = sessions[v]
  BY Zenon
<1> QED BY <1>1, <1>2, <1>3, ClientKeeps, Zenon

(* Another event is counted, up to the bound.                                *)
LEMMA EventCounted ==
  ASSUME SysInv, another_event \/ events' = events
  PROVE  events' \in 0 .. MaxEvents
<1>1. events \in 0 .. MaxEvents
  BY Zenon DEF SysInv, Wires
<1>2. MaxEvents \in Nat
  BY SystemConstants
<1> QED BY <1>1, <1>2 DEF another_event

(* A process that has read or been sent anything, or runs, waits no more.    *)
LEMMA NotWaitingKeeps ==
  ASSUME SysInv, NEW u \in Users, NEW d, becomes(u, d), UNCHANGED backlog,
         client[u].phase # "connecting" \/ client[u].inbox # <<>> \/ u \notin Range(backlog)
  PROVE  Waiting'
<1>1. \A i \in DOMAIN backlog : backlog[i] # u
  BY DEF SysInv, Waiting, Range
<1>2. \A v \in Users \ {u} : client'[v] = client[v]
  BY DEF becomes, SysInv
<1> QED BY <1>1, <1>2, Zenon DEF SysInv, Waiting

(* carry() puts frames on the wire of a connection the client still has.     *)
LEMMA CarryKeeps ==
  ASSUME Safe, SysInv, NEW c, Linked(c), NEW frames, Sends(frames), carry(c, frames),
         UNCHANGED <<closed, clients_by_fd_>>, events' \in 0 .. MaxEvents
  PROVE  Wires'
<1>1. DOMAIN to_server = Fds /\ (\A fd \in Fds : Sends(to_server[fd])) /\ closed \subseteq all_fds
  BY Zenon DEF SysInv, Wires
<1>2. c.fd = NoFd \/ c.fd \in Fds
  BY DEF Linked, Safe, IInv, TypeOK
<1>3. c.fd \in Fds => Sends(to_server[c.fd] \o frames)
  BY <1>1, QueueFacts, Zenon
<1>4. DOMAIN to_server' = Fds /\ \A fd \in Fds : Sends(to_server'[fd])
  BY <1>1, <1>2, <1>3, Zenon DEF carry
<1> QED BY <1>1, <1>4, Zenon DEF Wires, all_fds

(* connect: the process starts with the keys of its file or with new ones.   *)
LEMMA ConnectKeeps ==
  ASSUME Safe, SysInv, NEW u \in Users, NEW nickname \in Nicknames, connect(u, nickname)
  PROVE  Safe' /\ SysInv'
<1>1. PICK keys, d : /\ keys = load_or_create_identity(stored[u], <<u, sessions[u] + 1>>)
                     /\ d = Started(keys, nickname)
  OBVIOUS
<1>2. /\ client[u].phase = "off" /\ sessions[u] < MaxSessions
      /\ sessions' = [sessions EXCEPT ![u] = @ + 1] /\ becomes(u, d)
      /\ backlog' = Append(backlog, u) /\ idle /\ UNCHANGED <<stored, to_server, closed>>
  BY <1>1, Zenon DEF connect
<1>3. events' \in 0 .. MaxEvents
  BY EventCounted, Zenon DEF connect
<1>4. sessions[u] \in 0 .. MaxSessions /\ KeyFile(stored[u])
  BY Zenon DEF SysInv, UserOK
<1>5. /\ sessions'[u] = sessions[u] + 1 /\ sessions'[u] \in 1 .. MaxSessions
      /\ DOMAIN sessions' = Users /\ \A v \in Users \ {u} : sessions'[v] = sessions[v]
  BY <1>2, <1>4, SystemConstants DEF SysInv
<1>6. /\ keys.identity \in KeyNames /\ keys.room_key \in KeyNames \cup {NoKey}
      /\ \A id \in DOMAIN keys.peers : id \in Ids /\ keys.peers[id] \in KeyNames
      /\ DOMAIN keys.peers \subseteq loaded(u)'
  <2>1. CASE stored[u] = NoStore
    <3>1. keys = [identity |-> <<u, sessions[u] + 1>>, room_key |-> NoKey, peers |-> <<>>]
      BY <1>1, <2>1, Zenon DEF load_or_create_identity
    <3>2. <<u, sessions[u] + 1>> \in KeyNames
      BY <1>5, Zenon DEF KeyNames
    <3>3. /\ keys.identity = <<u, sessions[u] + 1>> /\ keys.room_key = NoKey
          /\ DOMAIN keys.peers = {}
      BY <3>1
    <3> QED BY <3>2, <3>3, Zenon
  <2>2. CASE stored[u] # NoStore
    BY <1>1, <1>2, <1>4, <2>2, Zenon DEF load_or_create_identity, KeyFile, loaded
  <2> QED BY <2>1, <2>2, Zenon
<1>7. /\ d.phase = "connecting" /\ d.fd = NoFd /\ d.inbox = <<>>
      /\ d.peers = keys.peers
  BY <1>1, Zenon DEF Started
<1>8. Process(d)
  <2>1. /\ DOMAIN d = {"phase", "fd", "inbox", "my_id", "identity", "room_key", "peers",
                       "key_offered_to_", "id_by_nickname_", "nickname", "unsent"}
        /\ d.identity = keys.identity /\ d.room_key = keys.room_key
        /\ d.key_offered_to_ = {} /\ d.nickname = nickname
        /\ d.unsent = [input |-> <<>>, receiver |-> <<>>]
    BY <1>1, Zenon DEF Started
  <2>2. /\ DOMAIN d.unsent = {"input", "receiver"}
        /\ d.unsent["input"] = <<>> /\ d.unsent["receiver"] = <<>>
    BY <2>1
  <2> QED BY <1>6, <1>7, <2>1, <2>2, QueueFacts, ZenonT(40) DEF Process
<1>9. NoFd \notin all_fds /\ Linked(d) /\ Informed(d, loaded(u)')
  BY <1>6, <1>7, SystemConstants, Zenon DEF Safe, IInv, TypeOK, Linked, Informed
<1>10. Waiting'
  <2>1. \A i \in DOMAIN backlog : backlog[i] # u
    BY <1>2, Zenon DEF SysInv, Waiting
  <2>2. client'[u] = d /\ \A v \in Users \ {u} : client'[v] = client[v]
    BY <1>2, Zenon DEF becomes, SysInv
  <2>3. /\ IsSeq(backlog') /\ DOMAIN backlog' = 1 .. Len(backlog) + 1 /\ Len(backlog) \in Nat
        /\ DOMAIN backlog = 1 .. Len(backlog) /\ backlog'[Len(backlog) + 1] = u
        /\ \A i \in DOMAIN backlog : backlog'[i] = backlog[i]
    BY <1>2, AppendFacts DEF SysInv, Waiting
  <2>4. \A i \in DOMAIN backlog' : i \in DOMAIN backlog \/ i = Len(backlog) + 1
    BY <2>3
  <2> QED BY <1>7, <2>1, <2>2, <2>3, <2>4, SMTT(40) DEF SysInv, Waiting
<1>11. Wires'
  BY <1>2, <1>3, Zenon DEF SysInv, Wires, idle, registry, all_fds
<1> QED BY <1>2, <1>4, <1>5, <1>8, <1>9, <1>10, <1>11, ClientKeeps DEF SysInv

(* A running or connecting process is a process in every respect.            *)
LEMMA ProcessFacts ==
  ASSUME Safe, SysInv, NEW u \in Users, client[u].phase # "off"
  PROVE  /\ Process(client[u]) /\ Linked(client[u]) /\ Informed(client[u], loaded(u))
         /\ sessions[u] \in 1 .. MaxSessions /\ KeyFile(stored[u])
BY DEF SysInv, UserOK, Off

(* Reading the first message: each ban notice is still behind the keys it    *)
(* concerns, unless it is the message that was read.                         *)
LEMMA ReadKeeps ==
  ASSUME NEW s, IsSeq(s), s # <<>>, NEW id, NEW peers, NEW peers2,
         id \in peers => Told(s, id, 0),
         \A i \in DOMAIN s : s[i].type = "PeerKey" /\ s[i].from_id = id => Told(s, id, i),
         peers2 \subseteq peers \cup {n \in {Head(s).from_id} : Head(s).type = "PeerKey"},
         Head(s).type = "BannedIds" => peers2 \cap Head(s).ids = {}
  PROVE  /\ id \in peers2 => Told(Tail(s), id, 0)
         /\ \A i \in DOMAIN Tail(s) :
              Tail(s)[i].type = "PeerKey" /\ Tail(s)[i].from_id = id => Told(Tail(s), id, i)
<1>1. /\ 1 \in DOMAIN s /\ Head(s) = s[1] /\ DOMAIN Tail(s) \subseteq Nat
      /\ \A i \in DOMAIN Tail(s) : Tail(s)[i] = s[i + 1] /\ i + 1 \in DOMAIN s
  BY TailFacts
<1>2. \A i \in Nat : Told(s, id, i + 1) => Told(Tail(s), id, i)
  BY ToldFacts, Zenon
<1>3. Told(s, id, 1) => Told(Tail(s), id, 0)
  BY <1>2
<1>4. Told(s, id, 0) => Told(Tail(s), id, 0) \/ (Head(s).type = "BannedIds" /\ id \in Head(s).ids)
  BY ToldFacts, Zenon
<1>5. id \in peers2 => Told(Tail(s), id, 0)
  BY <1>1, <1>3, <1>4, ZenonT(40)
<1> QED BY <1>1, <1>2, <1>5, ZenonT(40)

(* start_receiver: the client takes the id the registry has for it.          *)
LEMMA StartKeeps ==
  ASSUME Safe, SysInv, NEW u \in Users, start_receiver(u)
  PROVE  Safe' /\ SysInv'
<1>1. PICK c, m, r, d : /\ c = client[u] /\ m = Head(c.inbox)
                        /\ r = receive_assigned_id(c, m, fresh_key(u))
                        /\ d = [r EXCEPT !.inbox = Tail(@)]
  BY Zenon
<1>2. /\ c.phase = "connecting" /\ c.inbox # <<>> /\ becomes(u, d)
      /\ carry(c, register_nickname(c))
      /\ idle /\ UNCHANGED <<stored, sessions, events, backlog, closed>>
  BY <1>1, Zenon DEF start_receiver, processes
<1>3. /\ Process(c) /\ Linked(c) /\ Informed(c, loaded(u))
      /\ sessions[u] \in 1 .. MaxSessions /\ KeyFile(stored[u])
  BY <1>1, <1>2, ProcessFacts, Zenon
<1>4. fresh_key(u) \in KeyNames
  BY <1>3, Zenon DEF fresh_key, KeyNames
<1>5. /\ DOMAIN d = DOMAIN c /\ d.phase = "running" /\ d.fd = c.fd /\ d.my_id = m.id
      /\ d.inbox = Tail(c.inbox) /\ d.identity = c.identity /\ d.peers = c.peers
      /\ d.room_key \in {c.room_key, fresh_key(u)}
      /\ d.key_offered_to_ = c.key_offered_to_ /\ d.nickname = c.nickname
      /\ d.unsent = c.unsent
  BY <1>1, <1>3, ZenonT(40) DEF receive_assigned_id, Process
<1>6. Reads(c.inbox) /\ IsSeq(c.inbox) /\ Reads(d.inbox)
  <2>1. Reads(c.inbox)
    BY <1>3, Zenon DEF Process
  <2>2. Reads(Tail(c.inbox))
    BY <1>2, <2>1, QueueFacts, Zenon
  <2> QED BY <1>5, <2>1, <2>2, Zenon DEF Reads
<1>7. Process(d)
  BY <1>2, <1>3, <1>4, <1>5, <1>6, Zenon DEF Process
<1>8. Linked(d)
  BY <1>1, <1>2, <1>3, <1>5, ZenonT(40) DEF Linked
<1>9. Informed(d, loaded(u)')
  <2> SUFFICES ASSUME c.fd \in all_fds \ shut, NEW id \in banned_ids_ \ loaded(u)
               PROVE  /\ id \in DOMAIN c.peers => Told(d.inbox, id, 0)
                      /\ \A i \in DOMAIN d.inbox :
                           d.inbox[i].type = "PeerKey" /\ d.inbox[i].from_id = id
                             => Told(d.inbox, id, i)
    BY <1>2, <1>5, ZenonT(40) DEF Informed, loaded
  <2>1. /\ id \notin DOMAIN c.peers
        /\ \A i \in DOMAIN c.inbox :
             c.inbox[i].type = "PeerKey" /\ c.inbox[i].from_id = id => Told(c.inbox, id, i)
    BY <1>2, <1>3, ZenonT(40) DEF Informed
  <2>2. {} \cap Head(c.inbox).ids = {}
    BY Zenon
  <2> QED BY <1>2, <1>5, <1>6, <2>1, <2>2, ReadKeeps, Zenon
<1>10. Sends(register_nickname(c))
  <2>1. Sendable([type |-> "Register", nickname |-> c.nickname])
    BY <1>3, Zenon DEF Sendable, Wellformed, Process
  <2> QED BY <2>1, QueueFacts, Zenon DEF register_nickname
<1>11. Wires'
  BY <1>2, <1>3, <1>10, CarryKeeps, ZenonT(40) DEF SysInv, Wires, idle, registry
<1>12. Waiting'
  BY <1>1, <1>2, NotWaitingKeeps, ZenonT(40)
<1> QED BY <1>2, <1>3, <1>7, <1>8, <1>9, <1>11, <1>12, RunningKeeps, Zenon

(* receive_loop: the handler of the first message of the inbox.              *)
LEMMA ReceiveKeeps ==
  ASSUME Safe, SysInv, NEW u \in Users, receive_loop(u)
  PROVE  Safe' /\ SysInv'
<1>1. PICK c, m, r, d : /\ c = client[u] /\ m = Head(c.inbox)
                        /\ r = [c EXCEPT !.inbox = Tail(@)]
                        /\ d = handle_incoming(r, m)
  BY Zenon
<1>2. /\ c.phase = "running" /\ c.inbox # <<>> /\ becomes(u, d)
      /\ idle /\ UNCHANGED <<stored, sessions, events, backlog, to_server, closed>>
  BY <1>1, Zenon DEF receive_loop, processes, network, Running
<1>3. /\ Process(c) /\ Linked(c) /\ Informed(c, loaded(u))
      /\ sessions[u] \in 1 .. MaxSessions /\ KeyFile(stored[u])
  BY <1>1, <1>2, ProcessFacts, Zenon
<1>4. /\ DOMAIN r = DOMAIN c /\ r.phase = c.phase /\ r.fd = c.fd /\ r.my_id = c.my_id
      /\ r.inbox = Tail(c.inbox) /\ SameKeys(c, r)
      /\ r.key_offered_to_ = c.key_offered_to_ /\ r.nickname = c.nickname
      /\ r.unsent = c.unsent
  BY <1>1, <1>3, Zenon DEF Process, SameKeys
<1>5. Reads(c.inbox) /\ IsSeq(c.inbox) /\ Reads(r.inbox) /\ Readable(m)
  <2>1. Reads(c.inbox) /\ c.inbox # <<>>
    BY <1>2, <1>3, Zenon DEF Process
  <2>2. Reads(Tail(c.inbox)) /\ Readable(Head(c.inbox))
    BY <2>1, QueueFacts, Zenon
  <2> QED BY <1>1, <1>4, <2>1, <2>2, Zenon DEF Reads
<1>6. Process(r)
  BY <1>3, <1>4, <1>5, Zenon DEF Process, SameKeys
<1>7. /\ Process(d) /\ SamePlace(r, d)
      /\ DOMAIN d.peers \subseteq DOMAIN r.peers \cup {id \in {m.from_id} : m.type = "PeerKey"}
      /\ m.type = "BannedIds" => DOMAIN d.peers \cap m.ids = {}
  <2>1. r.phase = "running" /\ d = handle_incoming(r, m)
    BY <1>1, <1>2, <1>4, Zenon
  <2> QED BY <1>5, <1>6, <2>1, IncomingFacts, Zenon
<1>8. /\ d.phase = "running" /\ d.fd = c.fd /\ d.my_id = c.my_id /\ d.inbox = Tail(c.inbox)
      /\ r.peers = c.peers
  BY <1>2, <1>4, <1>7, Zenon DEF SamePlace, SameKeys
<1>9. Linked(d)
  BY <1>2, <1>3, <1>8, Zenon DEF Linked
<1>10. Informed(d, loaded(u)')
  <2> SUFFICES ASSUME c.fd \in all_fds \ shut, NEW id \in banned_ids_ \ loaded(u)
               PROVE  /\ id \in DOMAIN d.peers => Told(d.inbox, id, 0)
                      /\ \A i \in DOMAIN d.inbox :
                           d.inbox[i].type = "PeerKey" /\ d.inbox[i].from_id = id
                             => Told(d.inbox, id, i)
    BY <1>2, <1>8, Zenon DEF Informed, loaded
  <2>1. /\ id \in DOMAIN c.peers => Told(c.inbox, id, 0)
        /\ \A i \in DOMAIN c.inbox :
             c.inbox[i].type = "PeerKey" /\ c.inbox[i].from_id = id => Told(c.inbox, id, i)
    BY <1>3, Zenon DEF Informed
  <2>2. /\ DOMAIN d.peers \subseteq DOMAIN c.peers
             \cup {n \in {Head(c.inbox).from_id} : Head(c.inbox).type = "PeerKey"}
        /\ Head(c.inbox).type = "BannedIds" => DOMAIN d.peers \cap Head(c.inbox).ids = {}
    BY <1>1, <1>7, <1>8, Zenon
  <2>3. /\ id \in DOMAIN d.peers => Told(Tail(c.inbox), id, 0)
        /\ \A i \in DOMAIN Tail(c.inbox) :
             Tail(c.inbox)[i].type = "PeerKey" /\ Tail(c.inbox)[i].from_id = id
               => Told(Tail(c.inbox), id, i)
    BY <1>2, <1>5, <2>1, <2>2, ReadKeeps, Zenon
  <2> QED BY <1>8, <2>3, Zenon
<1>11. Wires'
  BY <1>2, Zenon DEF SysInv, Wires, idle, registry, all_fds
<1>12. Waiting'
  BY <1>1, <1>2, NotWaitingKeeps, Zenon
<1> QED BY <1>2, <1>3, <1>7, <1>9, <1>10, <1>11, <1>12, RunningKeeps, Zenon

(* A step after which the process is where it was, with the peers it had.    *)
LEMMA StayKeeps ==
  ASSUME NEW c, NEW d, NEW known, Linked(c), Informed(c, known), SamePlace(c, d), SameKeys(c, d)
  PROVE  Linked(d) /\ Informed(d, known)
BY Zenon DEF Linked, Informed, SamePlace, SameKeys

(* input_loop: a command of the user.                                        *)
LEMMA InputKeeps ==
  ASSUME Safe, SysInv, NEW u \in Users, NEW command \in Commands, input_loop(u, command)
  PROVE  Safe' /\ SysInv'
<1>1. PICK c, d : c = client[u] /\ d = handle_input_command(c, command)
  OBVIOUS
<1>2. /\ c.phase = "running" /\ becomes(u, d) /\ events < MaxEvents /\ events' = events + 1
      /\ idle /\ UNCHANGED <<stored, sessions, backlog, to_server, closed>>
  BY <1>1, Zenon DEF input_loop, network, Running, another_event
<1>3. /\ Process(c) /\ Linked(c) /\ Informed(c, loaded(u))
      /\ sessions[u] \in 1 .. MaxSessions /\ KeyFile(stored[u])
  BY <1>1, <1>2, ProcessFacts, Zenon
<1>4. Process(d) /\ SamePlace(c, d) /\ SameKeys(c, d)
  BY <1>1, <1>2, <1>3, CommandFacts, Zenon
<1>5. Linked(d) /\ Informed(d, loaded(u)) /\ loaded(u)' = loaded(u)
  <2>1. loaded(u)' = loaded(u)
    BY <1>2, Zenon DEF loaded
  <2> QED BY <1>3, <1>4, <2>1, StayKeeps, Zenon
<1>6. Wires'
  <2>1. events' \in 0 .. MaxEvents
    BY <1>2, EventCounted, Zenon DEF another_event
  <2> QED BY <1>2, <2>1, Zenon DEF SysInv, Wires, idle, registry, all_fds
<1>7. Waiting'
  BY <1>1, <1>2, NotWaitingKeeps, Zenon
<1> QED BY <1>2, <1>3, <1>4, <1>5, <1>6, <1>7, RunningKeeps, Zenon

(* send: the first message a thread has left, which may fail.                *)
LEMMA SendKeeps ==
  ASSUME Safe, SysInv, NEW u \in Users, NEW thread \in {"input", "receiver"}, send(u, thread)
  PROVE  Safe' /\ SysInv'
<1>1. PICK c, m, rest, failed : /\ c = client[u] /\ m = Head(c.unsent[thread])
                                /\ rest = [c EXCEPT !.unsent[thread] = Tail(@)]
                                /\ failed = send_failed(rest, m)
  BY Zenon
<1>2. /\ c.phase = "running" /\ c.unsent[thread] # <<>> /\ carry(c, <<m>>)
      /\ becomes(u, rest) \/ becomes(u, failed)
      /\ idle /\ UNCHANGED <<stored, sessions, events, backlog, closed>>
  BY <1>1, Zenon DEF send, processes, Running
<1>3. /\ Process(c) /\ Linked(c) /\ Informed(c, loaded(u))
      /\ sessions[u] \in 1 .. MaxSessions /\ KeyFile(stored[u])
  BY <1>1, <1>2, ProcessFacts, ZenonT(40)
<1>4. Sendable(m) /\ Sends(<<m>>) /\ Sends(Tail(c.unsent[thread]))
  BY <1>1, <1>2, <1>3, QueueFacts, Zenon DEF Process
<1>5. /\ DOMAIN rest = DOMAIN c /\ SamePlace(c, rest) /\ SameKeys(c, rest)
      /\ rest.key_offered_to_ = c.key_offered_to_ /\ rest.nickname = c.nickname
      /\ rest.unsent = [c.unsent EXCEPT ![thread] = Tail(@)]
  BY <1>1, <1>3, Zenon DEF Process, SamePlace, SameKeys
<1>6. /\ DOMAIN rest.unsent = {"input", "receiver"}
      /\ Sends(rest.unsent["input"]) /\ Sends(rest.unsent["receiver"])
  BY <1>3, <1>4, <1>5, Zenon DEF Process
<1>7. Process(rest)
  BY <1>3, <1>5, <1>6, Zenon DEF Process, SamePlace, SameKeys
<1>8. /\ DOMAIN failed = DOMAIN rest /\ SamePlace(rest, failed) /\ SameKeys(rest, failed)
      /\ failed.key_offered_to_ \subseteq rest.key_offered_to_ /\ failed.nickname = rest.nickname
      /\ failed.unsent = rest.unsent
  BY <1>1, <1>7, Zenon DEF send_failed, Process, SamePlace, SameKeys
<1>9. Process(failed)
  BY <1>7, <1>8, Zenon DEF Process, SamePlace, SameKeys
<1>10. PICK d \in {rest, failed} : becomes(u, d)
  BY <1>2, Zenon
<1>11. Process(d) /\ SamePlace(c, d) /\ SameKeys(c, d)
  BY <1>5, <1>7, <1>8, <1>9, <1>10, ZenonT(40) DEF SamePlace, SameKeys
<1>12. Linked(d) /\ Informed(d, loaded(u)) /\ loaded(u)' = loaded(u)
  <2>1. loaded(u)' = loaded(u)
    BY <1>2, Zenon DEF loaded
  <2> QED BY <1>3, <1>11, <2>1, StayKeeps, Zenon
<1>13. Wires'
  BY <1>2, <1>3, <1>4, CarryKeeps, Zenon DEF SysInv, Wires, idle, registry
<1>14. Waiting'
  BY <1>1, <1>2, <1>10, NotWaitingKeeps, Zenon
<1> QED BY <1>2, <1>3, <1>10, <1>11, <1>12, <1>13, <1>14, RunningKeeps, Zenon

(* leave: what is saved are keys.                                            *)
LEMMA LeaveKeeps ==
  ASSUME Safe, SysInv, NEW u \in Users, NEW outcome \in SaveOutcomes, leave(u, outcome)
  PROVE  Safe' /\ SysInv'
<1>1. PICK c : c = client[u]
  OBVIOUS
<1>2. /\ c.phase # "off" /\ u \notin Range(backlog) /\ becomes(u, Off)
      /\ save_keystore(u, outcome)
      /\ closed' = IF c.fd = NoFd THEN closed ELSE closed \cup {c.fd}
      /\ idle /\ UNCHANGED <<sessions, backlog, to_server>>
  BY <1>1, Zenon DEF leave
<1>3. events' \in 0 .. MaxEvents
  BY EventCounted, Zenon DEF leave
<1>4. /\ Process(c) /\ Linked(c) /\ sessions[u] \in 0 .. MaxSessions /\ KeyFile(stored[u])
  <2>1. Process(c) /\ Linked(c)
    BY <1>1, <1>2, ProcessFacts, Zenon
  <2> QED BY <2>1, Zenon DEF SysInv, UserOK
<1>5. /\ DOMAIN stored' = Users /\ stored'[u] \in {serialize(c), stored[u], NoStore}
      /\ \A v \in Users \ {u} : stored'[v] = stored[v]
  BY <1>1, <1>2, SystemConstants, Zenon DEF save_keystore, SysInv
<1>6. KeyFile(serialize(c)) /\ KeyFile(NoStore)
  BY <1>4, Zenon DEF KeyFile, serialize, Process
<1>7. KeyFile(stored'[u])
  BY <1>4, <1>5, <1>6, Zenon
<1>8. Wires'
  BY <1>2, <1>3, <1>4, Zenon DEF SysInv, Wires, Linked, idle, registry, all_fds
<1>9. Waiting'
  BY <1>1, <1>2, NotWaitingKeeps, Zenon
<1> QED BY <1>2, <1>4, <1>5, <1>7, <1>8, <1>9, ClientKeeps, Zenon DEF SysInv

-------------------------------------------------------------------------------
(* The theorems, for any number of users, descriptors, sessions and events.  *)

(* The invariant of the server and that of the clients hold throughout.      *)
THEOREM SystemSafety == SystemSpec => [](Safe /\ SysInv)
<1>1. SystemInit => Safe /\ SysInv
  <2> SUFFICES ASSUME SystemInit
               PROVE  Safe /\ SysInv
    OBVIOUS
  <2>1. Safe
    BY InitSafe, Zenon DEF SystemInit
  <2>2. /\ client = [u \in Users |-> Off] /\ stored = [u \in Users |-> NoStore]
        /\ sessions = [u \in Users |-> 0] /\ events = 0 /\ backlog = <<>>
        /\ to_server = [fd \in Fds |-> <<>>] /\ closed = {}
    BY Zenon DEF SystemInit
  <2>3. \A u \in Users : UserOK(u)
    BY <2>2, SystemConstants DEF UserOK, KeyFile
  <2>4. Waiting
    BY <2>2 DEF Waiting, IsSeq
  <2>5. Wires
    BY <2>2, SystemConstants, QueueFacts DEF Wires
  <2> QED BY <2>1, <2>2, <2>3, <2>4, <2>5 DEF SysInv
<1>2. Safe /\ SysInv /\ [SystemNext]_sysvars => (Safe /\ SysInv)'
  <2> SUFFICES ASSUME Safe, SysInv, [SystemNext]_sysvars
               PROVE  Safe' /\ SysInv'
    BY Zenon
  <2>1. CASE SystemNext
    BY <2>1, AcceptKeeps, ServeKeeps, ConnectKeeps, StartKeeps, ReceiveKeeps, InputKeeps,
       SendKeeps, LeaveKeeps, Zenon DEF SystemNext
  <2>2. CASE UNCHANGED sysvars
    <3>1. UNCHANGED vars
      BY <2>2, Zenon DEF sysvars, server, vars
    <3>2. Safe'
      BY <3>1, StepSafe, Zenon
    <3>3. UNCHANGED <<clients_by_fd_, all_fds, shut, banned_ids_>>
      BY <3>1, Zenon DEF vars, registry, ids, all_fds
    <3>4. UNCHANGED <<client, stored, sessions, events, backlog, to_server, closed>>
      BY <2>2, Zenon DEF sysvars, processes, network
    <3>5. SysInv'
      <4>1. ASSUME NEW u \in Users, UserOK(u)
            PROVE  UserOK(u)'
        <5>1. loaded(u)' = loaded(u) /\ client'[u] = client[u]
          BY <3>4, Zenon DEF loaded
        <5>2. Linked(client[u]) => Linked(client[u])'
          BY <3>3, <3>4, Zenon DEF Linked
        <5>3. Informed(client[u], loaded(u)) => Informed(client[u], loaded(u))'
          BY <3>3, <5>1, Zenon DEF Informed
        <5> QED BY <3>4, <4>1, <5>1, <5>2, <5>3, Zenon DEF UserOK
      <4>2. Waiting' /\ Wires'
        BY <3>3, <3>4, Zenon DEF SysInv, Waiting, Wires
      <4> QED BY <3>4, <4>1, <4>2, Zenon DEF SysInv
    <3> QED BY <3>2, <3>5, Zenon
  <2> QED BY <2>1, <2>2, Zenon
<1> QED BY <1>1, <1>2, PTL DEF SystemSpec

(* SystemTypeOK: the keys clients hold were made by processes, and the ids   *)
(* they hold them under were given to clients.                               *)
THEOREM SystemTypeTheorem == SystemSpec => []SystemTypeOK
<1>1. Safe /\ SysInv => SystemTypeOK
  <2> SUFFICES ASSUME Safe, SysInv
               PROVE  SystemTypeOK
    OBVIOUS
  <2>1. \A u \in Users :
          /\ client[u].phase \in {"off", "connecting", "running"}
          /\ client[u].fd \in all_fds \cup {NoFd}
          /\ client[u].phase # "off" => Process(client[u])
          /\ sessions[u] \in 0 .. MaxSessions
    BY DEF SysInv, UserOK, Off, Process, Linked
  <2>2. events \in 0 .. MaxEvents /\ closed \subseteq all_fds /\ Range(backlog) \subseteq Users
    BY ZenonT(40) DEF SysInv, Wires, Waiting, Range
  <2> QED BY <2>1, <2>2, Zenon DEF SystemTypeOK, Process
<1> QED BY <1>1, SystemSafety, PTL

(* IdAgreed: the first message a client reads gives it its id, and the id is *)
(* the registry's.                                                           *)
THEOREM IdAgreedTheorem == SystemSpec => []IdAgreed
<1>1. Safe /\ SysInv => IdAgreed
  <2> SUFFICES ASSUME Safe, SysInv, NEW u \in Users, client[u].phase # "off"
               PROVE  Linked(client[u])
    <3>1. "connecting" # "off" /\ "running" # "off"
      OBVIOUS
    <3> QED BY <3>1, Zenon DEF IdAgreed, Linked
  <2> QED BY ProcessFacts, Zenon
<1> QED BY <1>1, SystemSafety, PTL

(* BannedKeysForgotten: every key of a banned client that another client got *)
(* since it started is erased when it has read what is on its way to it.     *)
THEOREM BannedKeysTheorem == SystemSpec => []BannedKeysForgotten
<1>1. Safe /\ SysInv => BannedKeysForgotten
  <2> SUFFICES ASSUME Safe, SysInv, NEW u \in Running, client[u].fd \in all_fds \ shut,
                      NEW id \in banned_ids_ \ loaded(u), id \in DOMAIN client[u].peers
               PROVE  Told(client[u].inbox, id, 0)
    BY Zenon DEF BannedKeysForgotten, loaded, Told
  <2>1. u \in Users /\ client[u].phase # "off"
    BY Zenon DEF Running
  <2>2. Informed(client[u], loaded(u))
    BY <2>1, ProcessFacts, Zenon
  <2> QED BY <2>2, Zenon DEF Informed
<1> QED BY <1>1, SystemSafety, PTL

(* With these clients the registry's maps agree, ids are accounted for and   *)
(* banned clients are silent, as with any others.                            *)
THEOREM SystemServerTheorem ==
  SystemSpec => [](RegistryConsistent /\ IdsAccounted /\ BannedSilent)
BY SystemSafety, PTL DEF Safe, IInv
===============================================================================
