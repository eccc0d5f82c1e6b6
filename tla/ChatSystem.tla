------------------------------ MODULE ChatSystem ------------------------------
(* The server and its clients: every client process connects, exchanges keys *)
(* with the others through the server, chats, leaves and comes back with the *)
(* key store it saved.  The server is ChatServer, one handler per step; the  *)
(* clients are ChatClient, two threads each; connections are FIFO.           *)
EXTENDS ChatServer, ChatClient

CONSTANTS
  Users,         \* client installations, each with a key store file
  Leavers,       \* the users that may leave by themselves
  SaveOutcomes,  \* what may become of the key store file at exit
  Commands,      \* the console commands users give
  MaxEvents,     \* bound: commands, bans, exits and returns, in all
  MaxSessions    \* bound: processes started by each user

ASSUME SystemConstants ==
  /\ Leavers \subseteq Users
  /\ SaveOutcomes \subseteq {"saved", "skipped", "truncated"}
  /\ Fds \subseteq Nat \ {NoFd}
  /\ Commands \subseteq [type : {"ListUsers", "ChatBroadcast"}]
       \cup [type : {"KeyOffer", "ChatById"}, id : 0 .. MaxId]
       \cup [type : {"ChatByNickname"}, nickname : Nicknames]
  /\ NoMsg \notin [type : {"AssignId"}, id : Ids, create_room : BOOLEAN]
       \cup [type : {"BannedIds"}, ids : SUBSET Ids]
  /\ MaxEvents \in Nat /\ MaxSessions \in Nat

VARIABLES
  client,     \* user -> the record of its process (ChatClient)
  stored,     \* user -> the key store file
  sessions,   \* user -> processes started so far; names the keys they make
  events,     \* commands, bans, exits by a user's wish and returns so far
  backlog,    \* users whose connection is not accepted yet
  to_server,  \* fd -> frames the server has not read yet
  closed      \* descriptors whose client end is closed

server == <<registry, ids, running_, shut, sent>>
processes == <<stored, sessions, events>>
network == <<backlog, to_server, closed>>
sysvars == <<server, client, processes, network>>

Running == {u \in Users : client[u].phase = "running"}

-------------------------------------------------------------------------------
(* The connections as the server sees them.  A step of the server appends    *)
(* what it sends to the inbox of each client; closing a descriptor drops     *)
(* what was not read, and the client is left without a connection.           *)

transmit(clients) ==
  LET gone == all_fds \ DOMAIN clients_by_fd_' IN
  /\ client' = [u \in Users |->
       LET c == clients[u] IN
       IF c.fd = NoFd THEN c
       ELSE [c EXCEPT !.inbox = IF sent'[c.fd] = NoMsg THEN @ ELSE Append(@, sent'[c.fd]),
                      !.fd = IF @ \in gone THEN NoFd ELSE @]]
  /\ closed' = closed \ gone

(* accept() returns the lowest free descriptor.                              *)
accept(fd) ==
  /\ backlog # <<>>
  /\ \A f \in Fds \ all_fds : fd <= f
  /\ accept_client(fd)
  /\ backlog' = Tail(backlog)
  /\ to_server' = [to_server EXCEPT ![fd] = <<>>]
  /\ transmit([client EXCEPT ![Head(backlog)].fd = fd])
  /\ UNCHANGED processes

(* The hang-up pass removes a client without reading what it sent last.      *)
hang_up(fd) ==
  /\ fd \in closed \cup shut
  /\ hangup(fd)
  /\ transmit(client)
  /\ UNCHANGED <<processes, backlog, to_server>>

read_frame(fd) ==
  /\ fd \notin shut /\ to_server[fd] # <<>>
  /\ handle_client_data(fd, Head(to_server[fd]))
  /\ to_server' = [to_server EXCEPT ![fd] = Tail(@)]
  /\ transmit(client)
  /\ UNCHANGED <<processes, backlog>>

read_eof(fd) ==
  /\ fd \in shut \/ (fd \in closed /\ to_server[fd] = <<>>)
  /\ handle_client_data(fd, NoMsg)
  /\ transmit(client)
  /\ UNCHANGED <<processes, backlog, to_server>>

another_event == events < MaxEvents /\ events' = events + 1

ban(banned) ==
  /\ ~ banned \subseteq banned_ids_
  /\ another_event
  /\ ban_ids(banned)
  /\ transmit(client)
  /\ UNCHANGED <<stored, sessions, backlog, to_server>>

-------------------------------------------------------------------------------
(* The client processes.                                                     *)

becomes(u, c) == client' = [client EXCEPT ![u] = c]

fresh_key(u) == <<u, sessions[u]>>

(* run() up to the wait for the id.                                          *)
connect(u, nickname) ==
  /\ client[u].phase = "off" /\ sessions[u] < MaxSessions
  /\ IF sessions[u] = 0 THEN UNCHANGED events ELSE another_event
  /\ sessions' = [sessions EXCEPT ![u] = @ + 1]
  /\ becomes(u, Started(load_or_create_identity(stored[u], <<u, sessions[u] + 1>>), nickname))
  /\ backlog' = Append(backlog, u)
  /\ idle /\ UNCHANGED <<stored, to_server, closed>>

(* Frames sent on a connection the server has closed are lost.               *)
carry(c, frames) ==
  to_server' = IF c.fd = NoFd THEN to_server
               ELSE [to_server EXCEPT ![c.fd] = @ \o frames]

start_receiver(u) ==
  LET c == client[u] IN
  /\ c.phase = "connecting" /\ c.inbox # <<>> /\ Head(c.inbox).type = "AssignId"
  /\ becomes(u, [receive_assigned_id(c, Head(c.inbox), fresh_key(u)) EXCEPT
                   !.inbox = Tail(@)])
  /\ carry(c, register_nickname(c))
  /\ idle /\ UNCHANGED <<processes, backlog, closed>>

receive_loop(u) ==
  LET c == client[u] IN
  /\ u \in Running /\ c.inbox # <<>> /\ c.unsent.receiver = <<>>
  /\ becomes(u, handle_incoming([c EXCEPT !.inbox = Tail(@)], Head(c.inbox)))
  /\ idle /\ UNCHANGED <<processes, network>>

input_loop(u, command) ==
  /\ u \in Running /\ client[u].unsent.input = <<>>
  /\ another_event
  /\ becomes(u, handle_input_command(client[u], command))
  /\ idle /\ UNCHANGED <<stored, sessions, network>>

(* transport_->send of a handler that has released the lock.  On a           *)
(* connection the server has closed it may fail.                             *)
send(u, thread) ==
  LET c == client[u]
      m == Head(c.unsent[thread])
      rest == [c EXCEPT !.unsent[thread] = Tail(@)]
  IN /\ u \in Running /\ c.unsent[thread] # <<>>
     /\ \/ becomes(u, rest)
        \/ c.fd = NoFd /\ becomes(u, send_failed(rest, m))
     /\ carry(c, <<m>>)
     /\ idle /\ UNCHANGED <<processes, backlog, closed>>

save_keystore(u, outcome) ==
  stored' = [stored EXCEPT ![u] = CASE outcome = "saved"     -> serialize(client[u])
                                    [] outcome = "skipped"   -> @
                                    [] outcome = "truncated" -> NoStore]

(* The process ends: by the user's wish, or because the server closed the    *)
(* connection.                                                               *)
leave(u, outcome) ==
  LET c == client[u] IN
  /\ c.phase # "off" /\ u \notin Range(backlog)
  /\ IF c.fd \in shut \cup {NoFd} THEN UNCHANGED events ELSE u \in Leavers /\ another_event
  /\ save_keystore(u, outcome)
  /\ becomes(u, Off)
  /\ closed' = IF c.fd = NoFd THEN closed ELSE closed \cup {c.fd}
  /\ idle /\ UNCHANGED <<sessions, backlog, to_server>>

-------------------------------------------------------------------------------

SystemInit ==
  /\ Init
  /\ client = [u \in Users |-> Off]
  /\ stored = [u \in Users |-> NoStore]
  /\ sessions = [u \in Users |-> 0]
  /\ events = 0
  /\ backlog = <<>>
  /\ to_server = [fd \in Fds |-> <<>>]
  /\ closed = {}

SystemNext ==
  \/ \E fd \in Fds : accept(fd)
  \/ \E fd \in Fds : hang_up(fd)
  \/ \E fd \in Fds : read_frame(fd)
  \/ \E fd \in Fds : read_eof(fd)
  \/ \E banned \in BanLists : ban(banned)
  \/ \E u \in Users, nickname \in Nicknames : connect(u, nickname)
  \/ \E u \in Users : start_receiver(u)
  \/ \E u \in Users : receive_loop(u)
  \/ \E u \in Users, command \in Commands : input_loop(u, command)
  \/ \E u \in Users, thread \in {"input", "receiver"} : send(u, thread)
  \/ \E u \in Users, outcome \in SaveOutcomes : leave(u, outcome)

SystemSpec == SystemInit /\ [][SystemNext]_sysvars

(* The server's loop comes round to every connection, and the threads of a   *)
(* client run; whether users connect, type or leave is up to them.           *)
FairSystemSpec ==
  /\ SystemSpec
  /\ \A fd \in Fds : WF_sysvars(accept(fd)) /\ WF_sysvars(read_frame(fd) \/ read_eof(fd))
  /\ \A u \in Users :
       /\ WF_sysvars(start_receiver(u))
       /\ WF_sysvars(receive_loop(u))
       /\ \A thread \in {"input", "receiver"} : WF_sysvars(send(u, thread))

-------------------------------------------------------------------------------
(* Properties.                                                               *)

KeyNames == Users \X (1 .. MaxSessions)

(* Types: the processes, the key store files and the connections.            *)
SystemTypeOK ==
  /\ \A u \in Users :
       /\ client[u].phase \in {"off", "connecting", "running"}
       /\ client[u].fd \in all_fds \cup {NoFd}
       /\ client[u].phase # "off" =>
            /\ client[u].identity \in KeyNames
            /\ client[u].room_key \in KeyNames \cup {NoKey}
            /\ \A id \in DOMAIN client[u].peers : id \in Ids /\ client[u].peers[id] \in KeyNames
            /\ client[u].key_offered_to_ \subseteq Ids \ {client[u].my_id}
       /\ sessions[u] \in 0 .. MaxSessions
  /\ events \in 0 .. MaxEvents
  /\ closed \subseteq all_fds
  /\ Range(backlog) \subseteq Users

(* The first message a client reads is its AssignId, whatever the server     *)
(* broadcast while it connected, so receive_assigned_id() never throws on a  *)
(* live connection; from then on the client and the registry agree on its id.*)
IdAgreed ==
  \A u \in Users :
    LET c == client[u] IN
    /\ c.phase = "connecting" /\ c.inbox # <<>> => Head(c.inbox).type = "AssignId"
    /\ c.phase = "running" /\ c.fd # NoFd => clients_by_fd_[c.fd].id = c.my_id

(* Once a client has applied what is on its way to it, every nickname in its *)
(* id_by_nickname_ names the client that holds it at the server: leaving,    *)
(* rejoining and reuse of ids or nicknames never leave a stale entry behind. *)
RosterCatchesUp ==
  \A u \in Running :
    LET c == client[u]
        after[k \in 0 .. Len(c.inbox)] ==
          IF k = 0 THEN c.id_by_nickname_ ELSE nicknames_after(after[k - 1], c.inbox[k])
        caught_up == after[Len(c.inbox)]
    IN c.fd \in all_fds \ shut =>
         \A n \in DOMAIN caught_up :
           n \in DOMAIN id_by_nickname_ /\ id_by_nickname_[n] = caught_up[n]

(* A client that was told of a ban keeps no key of a banned id, and gets     *)
(* none later: no key offer of a banned client is behind the notice in its   *)
(* inbox.  Keys it loaded from its file are the exception, the notice may    *)
(* have been before its time.                                                *)
BannedKeysForgotten ==
  \A u \in Running :
    LET c == client[u]
        announced(id) == \E i \in DOMAIN c.inbox :
                           c.inbox[i].type = "BannedIds" /\ id \in c.inbox[i].ids
        loaded == IF stored[u] = NoStore THEN {} ELSE DOMAIN stored[u].peers
    IN c.fd \in all_fds \ shut =>
         \A id \in banned_ids_ \ loaded : id \in DOMAIN c.peers => announced(id)

(* Everyone is connected and nothing is on its way.                          *)
Quiescent ==
  /\ backlog = <<>> /\ closed = {} /\ shut = {}
  /\ \A fd \in Fds : to_server[fd] = <<>>
  /\ \A u \in Users :
       /\ client[u].phase # "connecting" /\ client[u].inbox = <<>>
       /\ u \in Running => client[u].unsent = [input |-> <<>>, receiver |-> <<>>]

(* When nothing is on its way any more, every client has the public key of   *)
(* every other client under the id that client has now.                      *)
PeersKeyed ==
  Quiescent => \A u, v \in Running :
    u # v => peer_public(client[u], client[v].my_id) = client[v].identity

(* When nothing is on its way any more, every client has a room key, so that *)
(* all of them can send and read broadcasts.                                 *)
RoomKeyed == Quiescent => \A u \in Running : client[u].room_key # NoKey

(* When nothing is on its way any more, there is one room key: clients that  *)
(* have a room key have the same one, and can read each other's broadcasts.  *)
RoomKeyAgreed ==
  Quiescent => \A u, v \in Running :
    client[u].room_key # NoKey /\ client[v].room_key # NoKey =>
      client[u].room_key = client[v].room_key

(* As long as nobody leaves, the exchange comes to an end: from some point   *)
(* on, all clients have each other's keys and one room key.                  *)
ExchangeSettles ==
  <>[](\A u, v \in Running :
         /\ client[u].room_key # NoKey /\ client[u].room_key = client[v].room_key
         /\ u # v => peer_public(client[u], client[v].my_id) = client[v].identity)

(* A direct message that reaches its recipient can be decrypted there: the   *)
(* sender's key offer is always ahead of it.                                 *)
ChatReadable ==
  \A u \in Running :
    LET c == client[u] IN
    c.inbox # <<>> /\ Head(c.inbox).type = "Deliver" =>
      LET m == Head(c.inbox) IN
      Cardinality(m.text.secret) = 2 => decrypts(c, m.from_id, m.text)
===============================================================================
