--------------------------- MODULE ChatServerProofs ---------------------------
(* Proofs about ChatServer, for any set of descriptors and nicknames, any    *)
(* ban commands and any bound on the ids.                                    *)
EXTENDS ChatServer, TLAPS

(* A client that is banned but not yet disconnected has had its connection   *)
(* shut down: ban_ids does both.                                             *)
BannedShut == \A fd \in all_fds : is_banned(clients_by_fd_[fd].id) => fd \in shut

(* The inductive invariant.  RegistryConsistent is needed by IdsAccounted    *)
(* (an id has one owner, so removing a client frees an id nobody else has),  *)
(* and both by BannedSilent through BannedShut.                              *)
IInv == TypeOK /\ RegistryConsistent /\ IdsAccounted /\ BannedShut

-------------------------------------------------------------------------------
(* What the operations do to the registry.                                   *)

(* add() records the new client under its descriptor and its id.             *)
LEMMA AddFacts ==
  ASSUME IInv, NEW fd \in Fds \ all_fds, NEW id \in Ids, id \notin live_ids,
         registry_add(fd, id)
  PROVE  /\ all_fds' = all_fds \cup {fd}
         /\ clients_by_fd_'[fd] = [id |-> id, nickname |-> NoNickname]
         /\ \A f \in all_fds : clients_by_fd_'[f] = clients_by_fd_[f]
         /\ live_ids' = live_ids \cup {id}
         /\ DOMAIN fd_by_id_' = DOMAIN fd_by_id_ \cup {id}
         /\ fd_by_id_'[id] = fd
         /\ \A i \in DOMAIN fd_by_id_ : i # id => fd_by_id_'[i] = fd_by_id_[i]
         /\ id_by_nickname_' = id_by_nickname_
<1>1. /\ all_fds' = all_fds \cup {fd}
      /\ clients_by_fd_'[fd] = [id |-> id, nickname |-> NoNickname]
      /\ \A f \in all_fds : clients_by_fd_'[f] = clients_by_fd_[f]
  BY DEF registry_add, all_fds, Put
<1>2. /\ DOMAIN fd_by_id_' = DOMAIN fd_by_id_ \cup {id}
      /\ fd_by_id_'[id] = fd
      /\ \A i \in DOMAIN fd_by_id_ : i # id => fd_by_id_'[i] = fd_by_id_[i]
      /\ id_by_nickname_' = id_by_nickname_
  BY DEF registry_add, Put
<1>3. live_ids' = live_ids \cup {id}
  BY <1>1 DEF live_ids
<1> QED BY <1>1, <1>2, <1>3

(* remove() forgets the client under its descriptor, its id and its          *)
(* nickname, and touches nobody else's entries.                              *)
LEMMA RemoveFacts ==
  ASSUME IInv, NEW fd \in all_fds, registry_remove(fd)
  PROVE  /\ all_fds' = all_fds \ {fd}
         /\ \A f \in all_fds \ {fd} : clients_by_fd_'[f] = clients_by_fd_[f]
         /\ live_ids' = live_ids \ {clients_by_fd_[fd].id}
         /\ DOMAIN fd_by_id_' = DOMAIN fd_by_id_ \ {clients_by_fd_[fd].id}
         /\ \A i \in DOMAIN fd_by_id_' : fd_by_id_'[i] = fd_by_id_[i]
         /\ DOMAIN id_by_nickname_' = DOMAIN id_by_nickname_ \ {clients_by_fd_[fd].nickname}
         /\ \A n \in DOMAIN id_by_nickname_' : id_by_nickname_'[n] = id_by_nickname_[n]
<1>1. /\ all_fds' = all_fds \ {fd}
      /\ \A f \in all_fds \ {fd} : clients_by_fd_'[f] = clients_by_fd_[f]
  BY DEF registry_remove, all_fds, Restrict
<1>2. /\ DOMAIN fd_by_id_' = DOMAIN fd_by_id_ \ {clients_by_fd_[fd].id}
      /\ \A i \in DOMAIN fd_by_id_' : fd_by_id_'[i] = fd_by_id_[i]
  BY DEF registry_remove, Restrict
<1>3. /\ DOMAIN id_by_nickname_' = DOMAIN id_by_nickname_ \ {clients_by_fd_[fd].nickname}
      /\ \A n \in DOMAIN id_by_nickname_' : id_by_nickname_'[n] = id_by_nickname_[n]
  BY Zenon DEF registry_remove, erase_nickname, Restrict
<1>4. \A f \in all_fds : clients_by_fd_[f].id = clients_by_fd_[fd].id => f = fd
  BY DEF IInv, RegistryConsistent
<1>5. live_ids' = live_ids \ {clients_by_fd_[fd].id}
  BY <1>1, <1>4 DEF live_ids
<1> QED BY <1>1, <1>2, <1>3, <1>5, Zenon

(* set_nickname() moves the client from its old nickname, if any, to the     *)
(* new one.                                                                  *)
LEMMA RenameFacts ==
  ASSUME IInv, NEW fd \in all_fds, NEW nickname \in Nicknames, set_nickname(fd, nickname)
  PROVE  /\ all_fds' = all_fds
         /\ clients_by_fd_'[fd] = [id |-> clients_by_fd_[fd].id, nickname |-> nickname]
         /\ \A f \in all_fds \ {fd} : clients_by_fd_'[f] = clients_by_fd_[f]
         /\ live_ids' = live_ids
         /\ fd_by_id_' = fd_by_id_
         /\ DOMAIN id_by_nickname_' =
              (DOMAIN id_by_nickname_ \ {clients_by_fd_[fd].nickname}) \cup {nickname}
         /\ id_by_nickname_'[nickname] = clients_by_fd_[fd].id
         /\ \A n \in DOMAIN id_by_nickname_' :
              n # nickname => id_by_nickname_'[n] = id_by_nickname_[n]
<1>1. clients_by_fd_[fd] \in [id : Ids, nickname : Nicknames \cup {NoNickname}]
  BY DEF IInv, TypeOK
<1>2. /\ all_fds' = all_fds
      /\ clients_by_fd_'[fd] = [clients_by_fd_[fd] EXCEPT !.nickname = nickname]
      /\ \A f \in all_fds \ {fd} : clients_by_fd_'[f] = clients_by_fd_[f]
      /\ fd_by_id_' = fd_by_id_
  BY DEF set_nickname, all_fds
<1>3. clients_by_fd_'[fd] = [id |-> clients_by_fd_[fd].id, nickname |-> nickname]
  BY <1>1, <1>2
<1>4. live_ids' = live_ids
  BY <1>2, <1>3 DEF live_ids
<1>5. /\ DOMAIN id_by_nickname_' =
           (DOMAIN id_by_nickname_ \ {clients_by_fd_[fd].nickname}) \cup {nickname}
      /\ id_by_nickname_'[nickname] = clients_by_fd_[fd].id
      /\ \A n \in DOMAIN id_by_nickname_' :
           n # nickname => id_by_nickname_'[n] = id_by_nickname_[n]
  BY DEF set_nickname, erase_nickname, Restrict, Put
<1> QED BY <1>2, <1>3, <1>4, <1>5, Zenon

(* allocate_client_id() returns the smallest id that is neither in use nor   *)
(* banned, and accounts for every id below the counter it leaves.            *)
LEMMA AllocateFacts ==
  ASSUME IInv, NEW id \in Ids, allocate_client_id(id)
  PROVE  /\ id \notin live_ids \cup banned_ids_
         /\ \A n \in 1 .. id - 1 : n \in live_ids \cup banned_ids_
         /\ free_ids_' \subseteq free_ids_ \ {id}
         /\ next_id_' \in kFirstClientId .. MaxId + 1
         /\ next_id_ <= next_id_' /\ id < next_id_'
         /\ \A n \in 1 .. next_id_' - 1 :
              n \in live_ids \cup {id} \cup free_ids_' \cup banned_ids_
<1> USE ServerConstants DEF Ids, kFirstClientId, is_banned
<1>1. CASE /\ smallest_free_id(id)
           /\ free_ids_' = free_ids_ \ ({id} \cup {n \in banned_ids_ : n < id})
           /\ UNCHANGED next_id_
  BY <1>1 DEF IInv, TypeOK, IdsAccounted, smallest_free_id
<1>2. CASE /\ free_ids_ \subseteq banned_ids_
           /\ id >= next_id_ /\ ~is_banned(id)
           /\ \A n \in next_id_ .. id - 1 : is_banned(n)
           /\ free_ids_' = {}
           /\ next_id_' = id + 1
  BY <1>2 DEF IInv, TypeOK, IdsAccounted
<1> QED BY <1>1, <1>2, Zenon DEF allocate_client_id

-------------------------------------------------------------------------------
(* Each action preserves the invariant and sends nothing to a banned client. *)

Safe == IInv /\ BannedSilent

(* accept_client: the new client has an id nobody has, and is not banned.    *)
LEMMA AcceptSafe ==
  ASSUME Safe, NEW fd \in Fds, accept_client(fd)
  PROVE  Safe'
<1>1. PICK id \in Ids :
        /\ allocate_client_id(id)
        /\ registry_add(fd, id)
        /\ sent' = [To(all_fds, UserJoined(id, NoNickname)) EXCEPT
             ![fd] = [type |-> "AssignId", id |-> id, create_room |-> all_fds = {}]]
  BY DEF accept_client
<1>2. fd \in Fds \ all_fds /\ UNCHANGED <<banned_ids_, running_, shut>>
  BY DEF accept_client
<1>3. /\ id \notin live_ids \cup banned_ids_
      /\ free_ids_' \subseteq free_ids_ \ {id}
      /\ next_id_' \in kFirstClientId .. MaxId + 1
      /\ next_id_ <= next_id_' /\ id < next_id_'
      /\ \A n \in 1 .. next_id_' - 1 :
           n \in live_ids \cup {id} \cup free_ids_' \cup banned_ids_
  BY <1>1, AllocateFacts DEF Safe
<1>4. /\ all_fds' = all_fds \cup {fd}
      /\ clients_by_fd_'[fd] = [id |-> id, nickname |-> NoNickname]
      /\ \A f \in all_fds : clients_by_fd_'[f] = clients_by_fd_[f]
      /\ live_ids' = live_ids \cup {id}
      /\ DOMAIN fd_by_id_' = DOMAIN fd_by_id_ \cup {id}
      /\ fd_by_id_'[id] = fd
      /\ \A i \in DOMAIN fd_by_id_ : i # id => fd_by_id_'[i] = fd_by_id_[i]
      /\ id_by_nickname_' = id_by_nickname_
  BY <1>1, <1>2, <1>3, AddFacts, Zenon DEF Safe
<1>5. id \notin DOMAIN fd_by_id_
  BY <1>3 DEF Safe, IInv, RegistryConsistent, live_ids
<1>6. TypeOK'
  BY <1>1, <1>2, <1>3, <1>4 DEF Safe, IInv, TypeOK, To
<1>7. RegistryConsistent'
  BY <1>4, <1>5, <1>2 DEF Safe, IInv, RegistryConsistent
<1>8. IdsAccounted'
  <2>1. live_ids \subseteq Ids /\ free_ids_ \subseteq Ids /\ next_id_ \in Nat
    BY ServerConstants DEF Safe, IInv, TypeOK, live_ids, kFirstClientId
  <2>2. \A i \in live_ids' \cup free_ids_' : i < next_id_'
    BY <1>3, <1>4, <2>1, ServerConstants DEF Safe, IInv, IdsAccounted, kFirstClientId, Ids
  <2>3. free_ids_' \cap (live_ids' \cup banned_ids_') = {}
    BY <1>2, <1>3, <1>4 DEF Safe, IInv, IdsAccounted
  <2> QED BY <1>2, <1>3, <1>4, <2>2, <2>3, Zenon DEF IdsAccounted
<1>9. BannedShut'
  BY <1>2, <1>3, <1>4 DEF Safe, IInv, BannedShut, is_banned
<1>10. BannedSilent'
  BY <1>1, <1>2, <1>3, <1>4 DEF Safe, IInv, BannedShut, BannedSilent, To, UserJoined, is_banned
<1> QED BY <1>6, <1>7, <1>8, <1>9, <1>10, Zenon DEF Safe, IInv

(* remove_client: the id goes back to the free ones unless it is banned.     *)
LEMMA RemoveSafe ==
  ASSUME Safe, NEW fd \in all_fds, remove_client(fd)
  PROVE  Safe'
<1> DEFINE record == clients_by_fd_[fd]
<1>1. /\ registry_remove(fd)
      /\ release_client_id(record.id)
      /\ shut' = shut \ {fd}
      /\ sent' = To(all_fds \ {fd}, UserLeft(record.id, record.nickname))
      /\ UNCHANGED <<next_id_, banned_ids_, running_>>
  BY DEF remove_client
<1>2. /\ all_fds' = all_fds \ {fd}
      /\ \A f \in all_fds \ {fd} : clients_by_fd_'[f] = clients_by_fd_[f]
      /\ live_ids' = live_ids \ {record.id}
      /\ DOMAIN fd_by_id_' = DOMAIN fd_by_id_ \ {record.id}
      /\ \A i \in DOMAIN fd_by_id_' : fd_by_id_'[i] = fd_by_id_[i]
      /\ DOMAIN id_by_nickname_' = DOMAIN id_by_nickname_ \ {record.nickname}
      /\ \A n \in DOMAIN id_by_nickname_' : id_by_nickname_'[n] = id_by_nickname_[n]
  BY <1>1, RemoveFacts, Zenon DEF Safe
<1>3. record.id \in Ids /\ record.id \in live_ids
  BY DEF Safe, IInv, TypeOK, live_ids
<1>4. free_ids_' = IF record.id \in banned_ids_ THEN free_ids_ ELSE free_ids_ \cup {record.id}
  BY <1>1 DEF release_client_id, is_banned
<1>5. TypeOK'
  BY <1>1, <1>2, <1>3, <1>4, Zenon DEF Safe, IInv, TypeOK, To
<1>6. RegistryConsistent'
  BY <1>2 DEF Safe, IInv, RegistryConsistent
<1>7. IdsAccounted'
  BY <1>1, <1>2, <1>3, <1>4 DEF Safe, IInv, IdsAccounted
<1>8. BannedShut'
  BY <1>1, <1>2, Zenon DEF Safe, IInv, BannedShut, is_banned
<1>9. BannedSilent'
  BY <1>1, <1>2, Zenon DEF Safe, IInv, BannedShut, BannedSilent, To, UserLeft, is_banned
<1> QED BY <1>5, <1>6, <1>7, <1>8, <1>9 DEF Safe, IInv

(* A step that leaves the registry, the ids and the shut-down connections    *)
(* alone preserves the invariant if what it sends respects the ban.          *)
LEMMA SendOnlySafe ==
  ASSUME Safe, UNCHANGED <<registry, ids, running_, shut>>,
         DOMAIN sent' = Fds, BannedSilent'
  PROVE  Safe'
BY DEF Safe, IInv, TypeOK, RegistryConsistent, IdsAccounted, BannedShut, is_banned,
       registry, ids, all_fds, live_ids

(* A step that does nothing here.                                            *)
LEMMA IdleSafe ==
  ASSUME Safe, idle
  PROVE  Safe'
<1>1. DOMAIN sent' = Fds /\ BannedSilent'
  BY DEF idle, Silence, BannedSilent
<1> QED BY <1>1, SendOnlySafe DEF idle

(* What the relaying handlers send: to nobody, an answer to the sender, or   *)
(* the message under the sender's id to clients that are not banned.         *)
LEMMA RelaySafe ==
  ASSUME Safe, NEW fd \in all_fds, NEW m, m.type \in DOMAIN deliver_type,
         ~is_banned(clients_by_fd_[fd].id),
         sent' = relay(fd, m), UNCHANGED <<registry, ids, running_, shut>>
  PROVE  Safe'
<1> DEFINE target_id == resolve_recipient(m.to)
           deliver == [type |-> deliver_type[m.type], from_id |-> clients_by_fd_[fd].id,
                       text |-> m.text]
           others == {f \in all_fds \ {fd} : ~is_banned(clients_by_fd_[f].id)}
<1>1. PICK targets, msg :
        /\ targets \subseteq all_fds
        /\ sent' = To(targets, msg)
        /\ \/ msg.type = "Error"
           \/ msg = deliver
        /\ \A f \in targets : ~is_banned(clients_by_fd_[f].id)
  <2>1. CASE m.to.tag = "broadcast"
    <3>1. sent' = To(others, deliver)
      BY <2>1 DEF relay, relay_as
    <3> QED BY <3>1, SMTT(40)
  <2>2. CASE m.to.tag # "broadcast" /\ 
             (target_id = NoId \/ is_banned(target_id) \/ target_id \notin DOMAIN fd_by_id_)
    <3>1. PICK why : sent' = To({fd}, Error(why))
      BY <2>2 DEF relay, relay_as
    <3>2. Error(why).type = "Error"
      BY Zenon DEF Error
    <3> QED BY <3>1, <3>2
  <2>3. CASE m.to.tag # "broadcast" /\ 
             ~(target_id = NoId \/ is_banned(target_id) \/ target_id \notin DOMAIN fd_by_id_)
    <3>1. sent' = To({fd_by_id_[target_id]}, deliver)
      BY <2>3, Zenon DEF relay, relay_as
    <3>2. fd_by_id_[target_id] \in all_fds /\ clients_by_fd_[fd_by_id_[target_id]].id = target_id
      BY <2>3 DEF Safe, IInv, RegistryConsistent
    <3> QED BY <2>3, <3>1, <3>2
  <2> QED BY <2>1, <2>2, <2>3, Zenon
<1>2. DOMAIN sent' = Fds
  BY <1>1, Zenon DEF To
<1>3. BannedSilent'
  BY <1>1 DEF BannedSilent, To, is_banned, registry, ids, all_fds
<1> QED BY <1>2, <1>3, SendOnlySafe, Zenon

(* RegisterMessageHandler: a nickname changes hands only when nobody has it. *)
LEMMA RegisterSafe ==
  ASSUME Safe, NEW fd \in all_fds, NEW nickname \in Nicknames,
         ~is_banned(clients_by_fd_[fd].id),
         RegisterMessageHandler(fd, nickname), UNCHANGED <<ids, running_, shut>>
  PROVE  Safe'
<1> DEFINE id == clients_by_fd_[fd].id
<1>1. CASE \E why : sent' = To({fd}, Error(why)) /\ UNCHANGED registry
  <2>1. PICK why : sent' = To({fd}, Error(why))
    BY <1>1
  <2>2. DOMAIN sent' = Fds
    BY <2>1, Zenon DEF To
  <2>3. BannedSilent'
    BY <1>1, <2>1 DEF BannedSilent, To, Error, is_banned, registry, ids, all_fds
  <2> QED BY <1>1, <2>2, <2>3, SendOnlySafe
<1>2. CASE /\ nickname \notin {NoNickname, kBroadcastRecipient}
           /\ ~nickname_taken_by_other(nickname, id)
           /\ set_nickname(fd, nickname)
           /\ sent' = To(all_fds \ {fd}, UserJoined(id, nickname))
  <2>1. /\ all_fds' = all_fds
        /\ clients_by_fd_'[fd] = [id |-> id, nickname |-> nickname]
        /\ \A f \in all_fds \ {fd} : clients_by_fd_'[f] = clients_by_fd_[f]
        /\ live_ids' = live_ids
        /\ fd_by_id_' = fd_by_id_
        /\ DOMAIN id_by_nickname_' =
             (DOMAIN id_by_nickname_ \ {clients_by_fd_[fd].nickname}) \cup {nickname}
        /\ id_by_nickname_'[nickname] = id
        /\ \A n \in DOMAIN id_by_nickname_' :
             n # nickname => id_by_nickname_'[n] = id_by_nickname_[n]
    BY <1>2, RenameFacts DEF Safe
  <2>2. id \in Ids /\ UNCHANGED <<free_ids_, next_id_, banned_ids_, running_, shut>>
    BY Zenon DEF Safe, IInv, TypeOK, ids
  <2>3. TypeOK'
    BY <1>2, <2>1, <2>2, SMTT(40) DEF Safe, IInv, TypeOK, To
  <2>4. RegistryConsistent'
    <3>1. \A f \in all_fds : f # fd => clients_by_fd_[f].nickname # nickname
      BY <1>2, SMTT(40) DEF Safe, IInv, RegistryConsistent, nickname_taken_by_other
    <3>2. \A f \in all_fds : f # fd /\ clients_by_fd_[f].nickname # NoNickname =>
            clients_by_fd_[f].nickname # clients_by_fd_[fd].nickname
      BY DEF Safe, IInv, RegistryConsistent
    <3> QED BY <1>2, <2>1, <3>1, <3>2, SMTT(40) DEF Safe, IInv, RegistryConsistent
  <2>5. IdsAccounted'
    BY <2>1, <2>2, Zenon DEF Safe, IInv, IdsAccounted
  <2>6. BannedShut'
    BY <2>1, <2>2, SMTT(40) DEF Safe, IInv, BannedShut, is_banned
  <2>7. BannedSilent'
    BY <1>2, <2>1, <2>2, Zenon DEF Safe, IInv, BannedShut, BannedSilent, To, UserJoined,
       is_banned
  <2> QED BY <2>3, <2>4, <2>5, <2>6, <2>7, Zenon DEF Safe, IInv
<1> QED BY <1>1, <1>2 DEF RegisterMessageHandler

(* An answer to the sender of a request, who is not banned.                  *)
LEMMA AnswerSafe ==
  ASSUME Safe, NEW fd \in all_fds, ~is_banned(clients_by_fd_[fd].id),
         NEW msg, msg.type \in {"Error", "UsersList"}, sent' = To({fd}, msg),
         UNCHANGED <<registry, ids, running_, shut>>
  PROVE  Safe'
<1>1. DOMAIN sent' = Fds
  BY DEF To
<1>2. BannedSilent'
  BY Zenon DEF BannedSilent, To, is_banned, registry, ids, all_fds
<1> QED BY <1>1, <1>2, SendOnlySafe

(* A message whose nickname, if it registers one, is a string a client can   *)
(* have asked for.                                                           *)
Wellformed(m) == m.type = "Register" => m.nickname \in Nicknames

(* The messages of Requests are such messages.                               *)
LEMMA RequestsWellformed == \A fd \in Fds : \A m \in Requests[fd] : Wellformed(m)
BY DEF Requests, Wellformed, deliver_type

(* handle_client_data, by the kind of message that was read.                 *)
LEMMA HandleSafe ==
  ASSUME Safe, NEW fd \in Fds, NEW m, m = NoMsg \/ Wellformed(m), handle_client_data(fd, m)
  PROVE  Safe'
<1>1. fd \in all_fds
  BY DEF handle_client_data
<1>2. CASE remove_client(fd)
  BY <1>1, <1>2, RemoveSafe, Zenon
<1>3. CASE idle
  BY <1>3, IdleSafe, Zenon
<1>4. CASE /\ ~is_banned(clients_by_fd_[fd].id) /\ m # NoMsg
           /\ m.type # "Malformed" /\ dispatch(fd, m)
           /\ UNCHANGED <<ids, running_, shut>>
  <2>1. CASE m.type = "Register" /\ RegisterMessageHandler(fd, m.nickname)
    <3>1. m.nickname \in Nicknames
      BY <1>4, <2>1 DEF Wellformed
    <3> QED BY <1>1, <1>4, <2>1, <3>1, RegisterSafe, Zenon
  <2>2. CASE m.type \in DOMAIN deliver_type /\ sent' = relay(fd, m) /\ UNCHANGED registry
    BY <1>1, <1>4, <2>2, RelaySafe, Zenon
  <2>3. CASE sent' = To({fd}, [type |-> "UsersList", users |-> collect_users])
             /\ UNCHANGED registry
    BY <1>1, <1>4, <2>3, AnswerSafe
  <2>4. CASE sent' = To({fd}, Error("UnsupportedType")) /\ UNCHANGED registry
    BY <1>1, <1>4, <2>4, AnswerSafe DEF Error
  <2> QED BY <1>4, <2>1, <2>2, <2>3, <2>4, Zenon DEF dispatch
<1>5. CASE /\ ~is_banned(clients_by_fd_[fd].id)
           /\ sent' = To({fd}, Error("Malformed"))
           /\ UNCHANGED <<registry, ids, running_, shut>>
  BY <1>1, <1>5, AnswerSafe DEF Error
<1> QED BY <1>2, <1>3, <1>4, <1>5, Zenon DEF handle_client_data

(* ban_ids: whoever it bans is shut down in the same step.                   *)
LEMMA BanSafe ==
  ASSUME Safe, NEW banned \in BanLists, ban_ids(banned)
  PROVE  Safe'
<1> DEFINE newly_banned == bannable(banned) \ banned_ids_
           peers == {fd \in all_fds : clients_by_fd_[fd].id \notin banned_ids_'}
<1>1. /\ banned_ids_' = banned_ids_ \cup newly_banned
      /\ free_ids_' = free_ids_ \ bannable(banned)
      /\ \/ sent' = Silence
         \/ sent' = To(peers, [type |-> "BannedIds", ids |-> newly_banned])
      /\ shut' = shut \cup fds_of(newly_banned)
      /\ UNCHANGED <<registry, next_id_, running_>>
  BY Zenon DEF ban_ids
<1>2. UNCHANGED <<clients_by_fd_, fd_by_id_, id_by_nickname_, all_fds, live_ids>>
  BY <1>1 DEF registry, all_fds, live_ids
<1>3. bannable(banned) \subseteq Ids
  BY ServerConstants DEF bannable, NoId, Ids, kFirstClientId
<1>4. fds_of(newly_banned) \subseteq all_fds
  BY DEF fds_of, Safe, IInv, RegistryConsistent
<1>5. TypeOK'
  BY <1>1, <1>2, <1>3, <1>4, Zenon DEF Safe, IInv, TypeOK, To, Silence
<1>6. RegistryConsistent'
  BY <1>2, Zenon DEF Safe, IInv, RegistryConsistent
<1>7. IdsAccounted'
  BY <1>1, <1>2, Zenon DEF Safe, IInv, IdsAccounted
<1>8. BannedShut'
  BY <1>1, <1>2 DEF Safe, IInv, BannedShut, RegistryConsistent, fds_of, is_banned
<1>9. BannedSilent'
  BY <1>1, <1>2 DEF BannedSilent, To, Silence, is_banned
<1> QED BY <1>5, <1>6, <1>7, <1>8, <1>9, Zenon DEF Safe, IInv

(* request_stop: it only shuts connections down.                             *)
LEMMA StopSafe ==
  ASSUME Safe, request_stop
  PROVE  Safe'
<1>1. /\ UNCHANGED <<clients_by_fd_, fd_by_id_, id_by_nickname_, all_fds, live_ids>>
      /\ UNCHANGED <<free_ids_, next_id_, banned_ids_>>
      /\ running_' = FALSE /\ shut' = shut \cup all_fds /\ sent' = Silence
  BY Zenon DEF request_stop, registry, ids, all_fds, live_ids
<1>2. TypeOK'
  BY <1>1, Zenon DEF Safe, IInv, TypeOK, Silence
<1>3. RegistryConsistent'
  BY <1>1, Zenon DEF Safe, IInv, RegistryConsistent
<1>4. IdsAccounted'
  BY <1>1, Zenon DEF Safe, IInv, IdsAccounted
<1>5. BannedShut' /\ BannedSilent'
  BY <1>1, Zenon DEF BannedShut, BannedSilent, Silence
<1> QED BY <1>2, <1>3, <1>4, <1>5 DEF Safe, IInv

(* disconnect_all_clients: nothing is left in the registry.                  *)
LEMMA DisconnectSafe ==
  ASSUME Safe, disconnect_all_clients
  PROVE  Safe'
<1>1. all_fds' = {} /\ live_ids' = {}
  BY Zenon DEF disconnect_all_clients, Restrict, all_fds, live_ids
<1>2. DOMAIN fd_by_id_' = {}
  BY DEF disconnect_all_clients, Restrict, Safe, IInv, RegistryConsistent, live_ids
<1>3. DOMAIN id_by_nickname_' = {}
  BY DEF disconnect_all_clients, Restrict, Safe, IInv, RegistryConsistent
<1>4. live_ids \subseteq Ids
  BY DEF Safe, IInv, TypeOK, live_ids
<1>5. TypeOK'
  BY <1>1, <1>2, <1>3, <1>4, Zenon DEF disconnect_all_clients, Safe, IInv, TypeOK, Silence
<1>6. RegistryConsistent'
  BY <1>1, <1>2, <1>3, Zenon DEF RegistryConsistent
<1>7. IdsAccounted'
  BY <1>1, Zenon DEF disconnect_all_clients, Safe, IInv, IdsAccounted
<1>8. BannedShut' /\ BannedSilent'
  BY <1>1, Zenon DEF disconnect_all_clients, BannedShut, BannedSilent, Silence
<1> QED BY <1>5, <1>6, <1>7, <1>8 DEF Safe, IInv

-------------------------------------------------------------------------------
(* The theorems.                                                             *)

(* At the start the server knows nobody.                                     *)
LEMMA InitSafe == Init => Safe
BY ServerConstants DEF Init, Safe, IInv, TypeOK, RegistryConsistent, IdsAccounted, BannedShut,
   BannedSilent, Silence, all_fds, live_ids, kFirstClientId

(* Every event the server handles preserves the invariant and the silence of *)
(* banned clients.                                                           *)
LEMMA StepSafe ==
  ASSUME Safe, [Next]_vars
  PROVE  Safe'
<1>1. CASE UNCHANGED vars
  BY <1>1 DEF vars, Safe, IInv, TypeOK, RegistryConsistent, IdsAccounted, BannedShut,
     BannedSilent, is_banned, registry, ids, all_fds, live_ids
<1>2. CASE \E fd \in Fds : accept_client(fd)
  BY <1>2, AcceptSafe
<1>3. CASE \E fd \in Fds : hangup(fd)
  BY <1>3, RemoveSafe, Zenon DEF hangup
<1>4. CASE \E fd \in Fds : \E m \in Requests[fd] \cup {NoMsg} : handle_client_data(fd, m)
  BY <1>4, HandleSafe, RequestsWellformed, Zenon
<1>5. CASE \E banned \in BanLists : ban_ids(banned)
  BY <1>5, BanSafe
<1>6. CASE request_stop \/ disconnect_all_clients \/ idle
  BY <1>6, StopSafe, DisconnectSafe, IdleSafe
<1> QED BY <1>1, <1>2, <1>3, <1>4, <1>5, <1>6, Zenon DEF Next

(* The invariant, and the silence of banned clients, hold throughout.        *)
THEOREM Safety == Spec => []Safe
BY InitSafe, StepSafe, PTL DEF Spec

(* The registry's maps, the ids and the messages keep their types: no id is  *)
(* 0, and only connected clients are shut down.                              *)
THEOREM TypeTheorem == Spec => []TypeOK
BY Safety, PTL DEF Safe, IInv

(* The registry's maps always describe the same clients.                     *)
THEOREM RegistryTheorem == Spec => []RegistryConsistent
BY Safety, PTL DEF Safe, IInv

(* No id is lost, none is owned twice, and no banned id is free.             *)
THEOREM IdsTheorem == Spec => []IdsAccounted
BY Safety, PTL DEF Safe, IInv

(* A banned client is sent nothing and nothing of it is relayed.             *)
THEOREM BannedSilentTheorem == Spec => []BannedSilent
BY Safety, PTL DEF Safe

-------------------------------------------------------------------------------
(* Every step is a step of IdPool or leaves its state alone.                 *)

(* remove_client gives back exactly the id of the client that left.          *)
LEMMA RemoveLeaves ==
  ASSUME Safe, NEW fd \in all_fds, remove_client(fd)
  PROVE  Pool!Leave
<1>1. live_ids' = live_ids \ {clients_by_fd_[fd].id} /\ banned_ids_' = banned_ids_
  BY RemoveFacts, Zenon DEF Safe, remove_client
<1>2. clients_by_fd_[fd].id \in live_ids
  BY Zenon DEF live_ids
<1> QED BY <1>1, <1>2, Zenon DEF Pool!Leave

(* A message, a registration included, leaves every id with its owner.       *)
LEMMA DispatchInvisible ==
  ASSUME Safe, NEW fd \in Fds, fd \in all_fds, NEW m, Wellformed(m), dispatch(fd, m)
  PROVE  /\ all_fds' = all_fds /\ live_ids' = live_ids
         /\ \A f \in all_fds : clients_by_fd_'[f].id = clients_by_fd_[f].id
<1>1. CASE UNCHANGED registry
  BY <1>1, Zenon DEF registry, live_ids, all_fds
<1>2. CASE m.type = "Register" /\ RegisterMessageHandler(fd, m.nickname)
  <2>1. m.nickname \in Nicknames
    BY <1>2, Zenon DEF Wellformed
  <2>2. CASE set_nickname(fd, m.nickname)
    <3>1. /\ all_fds' = all_fds /\ live_ids' = live_ids
          /\ clients_by_fd_'[fd] = [id |-> clients_by_fd_[fd].id, nickname |-> m.nickname]
          /\ \A f \in all_fds \ {fd} : clients_by_fd_'[f] = clients_by_fd_[f]
      BY <2>1, <2>2, RenameFacts, ZenonT(40) DEF Safe
    <3>2. clients_by_fd_'[fd].id = clients_by_fd_[fd].id
      BY <3>1
    <3> QED BY <3>1, <3>2, Zenon
  <2> QED BY <1>1, <1>2, <2>2, Zenon DEF RegisterMessageHandler
<1> QED BY <1>1, <1>2, Zenon DEF dispatch

(* The server implements IdPool: ids are always the smallest available.      *)
THEOREM SmallestIdTheorem == Spec => SmallestIdAssigned
<1>1. Init => Pool!Init
  BY DEF Init, Pool!Init, live_ids, all_fds
<1>2. Safe /\ [Next]_vars => [Pool!Next]_<<live_ids, banned_ids_>>
  <2> SUFFICES ASSUME Safe, [Next]_vars
               PROVE  [Pool!Next]_<<live_ids, banned_ids_>>
    BY Zenon
  <2>1. CASE UNCHANGED vars
    BY <2>1 DEF vars, registry, ids, live_ids, all_fds
  <2>2. CASE \E fd \in Fds : accept_client(fd)
    <3>1. PICK fd \in Fds, id \in Ids :
            allocate_client_id(id) /\ registry_add(fd, id) /\ fd \notin all_fds
              /\ banned_ids_' = banned_ids_
      BY <2>2 DEF accept_client
    <3>2. /\ id \notin live_ids \cup banned_ids_
          /\ \A n \in 1 .. id - 1 : n \in live_ids \cup banned_ids_
      BY <3>1, AllocateFacts, Zenon DEF Safe
    <3>3. live_ids' = live_ids \cup {id}
      BY <3>1, <3>2, AddFacts, Zenon DEF Safe
    <3>4. Pool!Join
      BY <3>1, <3>2, <3>3, Zenon DEF Pool!Join, Ids, kFirstClientId
    <3> QED BY <3>4, Zenon DEF Pool!Next
  <2>3. CASE \E fd \in Fds : hangup(fd)
    BY <2>3, RemoveLeaves, Zenon DEF hangup, Pool!Next
  <2>4. CASE \E fd \in Fds : \E m \in Requests[fd] \cup {NoMsg} : handle_client_data(fd, m)
    <3>0. PICK fd \in Fds : \E m \in Requests[fd] \cup {NoMsg} : handle_client_data(fd, m)
      BY <2>4
    <3>1. PICK m \in Requests[fd] \cup {NoMsg} : handle_client_data(fd, m)
      BY <3>0, ZenonT(40)
    <3>2. fd \in all_fds
      BY <3>1, Zenon DEF handle_client_data
    <3>3. CASE remove_client(fd)
      BY <3>2, <3>3, RemoveLeaves, Zenon DEF Pool!Next
    <3>4. CASE UNCHANGED <<registry, ids>>
      BY <3>4, Zenon DEF registry, ids, live_ids, all_fds
    <3>5. CASE m # NoMsg /\ dispatch(fd, m) /\ UNCHANGED ids
      BY <3>1, <3>2, <3>5, DispatchInvisible, RequestsWellformed, Zenon DEF ids
    <3> QED BY <3>1, <3>3, <3>4, <3>5, Zenon DEF handle_client_data, idle
  <2>5. CASE \E banned \in BanLists : ban_ids(banned)
    <3>1. PICK banned \in BanLists : ban_ids(banned)
      BY <2>5, Zenon
    <3>2. live_ids' = live_ids
      BY <3>1, Zenon DEF ban_ids, registry, live_ids, all_fds
    <3>3. banned_ids_' = banned_ids_ \cup (bannable(banned) \ banned_ids_)
      BY <3>1 DEF ban_ids
    <3>4. \A id \in bannable(banned) : id \in 1 .. MaxId
      BY ServerConstants DEF bannable, NoId
    <3>5. bannable(banned) \ banned_ids_ \in SUBSET (1 .. MaxId)
      BY <3>4, Zenon
    <3> QED BY <3>2, <3>3, <3>5, Zenon DEF Pool!Next, Pool!Ban
  <2>6. CASE request_stop \/ idle
    BY <2>6 DEF request_stop, idle, registry, ids, live_ids, all_fds
  <2>7. CASE disconnect_all_clients
    <3>1. live_ids' = {} /\ banned_ids_' = banned_ids_
      BY <2>7, Zenon DEF disconnect_all_clients, Restrict, live_ids, all_fds
    <3> QED BY <3>1, Zenon DEF Pool!Next, Pool!LeaveAll
  <2> QED BY <2>1, <2>2, <2>3, <2>4, <2>5, <2>6, <2>7, Zenon DEF Next
<1> QED BY <1>1, <1>2, Safety, PTL DEF Spec, SmallestIdAssigned, Pool!Spec

-------------------------------------------------------------------------------
(* What the server relays (ChatMessageHandler and OpaqueUnicastHandler).      *)

relayed == {"Deliver", "PeerKey", "RoomKey"}

(* Messages that no client is named the sender of, and not the "Recipient    *)
(* offline" answer.                                                          *)
Notices == \A fd \in Fds :
  sent[fd] # NoMsg => sent[fd].type \notin relayed /\ sent[fd] # Error("RecipientOffline")

Meant == RelayedAsMeant /\ NeverOffline

(* A step that sends one message to some descriptors, and not a relayed one. *)
LEMMA NoticeMeant ==
  ASSUME NEW targets, NEW msg, sent' = To(targets, msg),
         msg.type \notin relayed, msg # Error("RecipientOffline")
  PROVE  Meant'
<1>1. Notices'
  BY DEF Notices, To
<1> QED BY <1>1 DEF Notices, Meant, relayed, RelayedAsMeant, NeverOffline

(* A step that sends nothing.                                                *)
LEMMA SilenceMeant ==
  ASSUME sent' = Silence
  PROVE  Meant'
BY Zenon DEF Silence, Meant, RelayedAsMeant, NeverOffline

(* resolve_recipient() finds nobody or a client that is connected: the maps  *)
(* of the registry agree, whatever ids and nicknames were reused.            *)
LEMMA ResolveFacts ==
  ASSUME Safe, NEW to, resolve_recipient(to) # NoId
  PROVE  /\ to.tag \in {"id", "nickname"}
         /\ resolve_recipient(to) \in DOMAIN fd_by_id_
         /\ LET fd == fd_by_id_[resolve_recipient(to)]
            IN /\ fd \in all_fds /\ clients_by_fd_[fd].id = resolve_recipient(to)
               /\ to.tag = "id" => to.id = clients_by_fd_[fd].id
               /\ to.tag = "nickname" => to.nickname = clients_by_fd_[fd].nickname
<1>1. CASE to.tag = "id" /\ to.id \in DOMAIN fd_by_id_
  BY <1>1, Zenon DEF resolve_recipient, Safe, IInv, RegistryConsistent
<1>2. CASE to.tag = "nickname" /\ to.nickname \in DOMAIN id_by_nickname_
  BY <1>2, SMTT(40) DEF resolve_recipient, Safe, IInv, RegistryConsistent
<1> QED BY <1>1, <1>2, Zenon DEF resolve_recipient

(* relay(): the sender is the one the connection belongs to, the recipients  *)
(* are those the client meant.                                               *)
LEMMA RelayMeant ==
  ASSUME Safe, NEW fd \in all_fds, ~is_banned(clients_by_fd_[fd].id),
         NEW m \in Requests[fd], m.type \in DOMAIN deliver_type,
         sent' = relay(fd, m), UNCHANGED <<registry, ids, running_, shut>>
  PROVE  Meant'
<1> DEFINE target_id == resolve_recipient(m.to)
           id == clients_by_fd_[fd].id
           deliver == [type |-> deliver_type[m.type], from_id |-> id, text |-> m.text]
<1>1. UNCHANGED <<clients_by_fd_, fd_by_id_, id_by_nickname_, banned_ids_, shut, all_fds>>
  BY ZenonT(40) DEF registry, ids, all_fds
<1>2. m.text = [from |-> fd, to |-> m.to, as |-> m.type]
  BY DEF Requests, deliver_type, Safe, IInv, TypeOK
<1>3. CASE m.to.tag = "broadcast"
  <2> DEFINE peers == {f \in all_fds \ {fd} : ~is_banned(clients_by_fd_[f].id)}
  <2>1. sent' = To(peers, deliver)
    BY <1>3, Zenon DEF relay, relay_as
  <2>2. peers \ shut = all_fds \ ({fd} \cup shut)
    BY Zenon DEF Safe, IInv, BannedShut
  <2>3. \A f \in Fds : sent'[f] = IF f \in all_fds \ ({fd} \cup shut) THEN deliver ELSE NoMsg
    BY <2>1, <2>2, ZenonT(40) DEF To
  <2>4. /\ deliver.text.from = fd /\ deliver.text.to = m.to /\ deliver.text.as = m.type
        /\ deliver.from_id = id /\ deliver.type = deliver_type[m.type]
    BY <1>2, SMTT(40)
  <2>5. deliver # Error("RecipientOffline")
    <3>1. deliver.type \in relayed
      BY SMTT(40) DEF deliver_type, relayed
    <3> QED BY <3>1, Zenon DEF Error, relayed
  <2> HIDE DEF deliver, peers
  <2>6. RelayedAsMeant'
    BY <1>1, <1>3, <2>3, <2>4, SMTT(40) DEF RelayedAsMeant
  <2>7. NeverOffline'
    BY <2>3, <2>5, Zenon DEF NeverOffline
  <2> QED BY <2>6, <2>7, Zenon DEF Meant
<1>4. CASE m.to.tag # "broadcast" /\ (target_id = NoId \/ is_banned(target_id))
  <2>1. PICK why \in {"UnknownRecipient", "RecipientBanned"} : sent' = To({fd}, Error(why))
    BY <1>4, Zenon DEF relay, relay_as
  <2>2. Error(why).type \notin relayed /\ Error(why) # Error("RecipientOffline")
    BY Zenon DEF Error, relayed
  <2> QED BY <2>1, <2>2, NoticeMeant, Zenon
<1>5. CASE m.to.tag # "broadcast" /\ target_id # NoId /\ ~is_banned(target_id)
  <2> DEFINE peer == fd_by_id_[target_id]
  <2>1. /\ target_id \in DOMAIN fd_by_id_ /\ m.to.tag \in {"id", "nickname"}
        /\ m.to.tag = "id" => m.to.id = clients_by_fd_[peer].id
        /\ m.to.tag = "nickname" => m.to.nickname = clients_by_fd_[peer].nickname
    BY <1>5, ResolveFacts, Zenon
  <2>2. sent' = To({peer}, deliver)
    BY <1>5, <2>1, Zenon DEF relay, relay_as
  <2>3. \A f \in Fds : sent'[f] # NoMsg => f = peer /\ sent'[f] = deliver
    BY <2>2, ZenonT(40) DEF To
  <2>4. /\ deliver.text.from = fd /\ deliver.text.to = m.to /\ deliver.text.as = m.type
        /\ deliver.from_id = id /\ deliver.type = deliver_type[m.type]
    BY <1>2
  <2>5. deliver # Error("RecipientOffline")
    <3>1. deliver.type \in relayed
      BY DEF deliver_type, relayed
    <3> QED BY <3>1, Zenon DEF Error, relayed
  <2> HIDE DEF deliver, peer
  <2>6. RelayedAsMeant'
    BY <1>1, <2>1, <2>3, <2>4, SMTT(40) DEF RelayedAsMeant
  <2>7. NeverOffline'
    BY <2>3, <2>5, Zenon DEF NeverOffline
  <2> QED BY <2>6, <2>7, Zenon DEF Meant
<1> QED BY <1>3, <1>4, <1>5, Zenon

(* handle_client_data: everything but relay() sends answers and notices.     *)
LEMMA HandleMeant ==
  ASSUME Safe, NEW fd \in Fds, NEW m \in Requests[fd] \cup {NoMsg}, handle_client_data(fd, m)
  PROVE  Meant'
<1> USE DEF Error, UserJoined, UserLeft, relayed
<1>1. fd \in all_fds
  BY Zenon DEF handle_client_data
<1>2. CASE remove_client(fd)
  <2>1. \E msg : msg.type = "UserLeft" /\ sent' = To(all_fds \ {fd}, msg)
    BY <1>2 DEF remove_client
  <2> QED BY <2>1, NoticeMeant
<1>3. CASE idle
  BY <1>3, SilenceMeant, Zenon DEF idle
<1>4. CASE /\ ~is_banned(clients_by_fd_[fd].id) /\ m # NoMsg
           /\ m.type # "Malformed" /\ dispatch(fd, m)
           /\ UNCHANGED <<ids, running_, shut>>
  <2>1. CASE m.type = "Register" /\ RegisterMessageHandler(fd, m.nickname)
    <3>1. \E targets, msg : /\ sent' = To(targets, msg)
                            /\ msg.type \notin relayed /\ msg # Error("RecipientOffline")
      BY <2>1, Zenon DEF RegisterMessageHandler
    <3> QED BY <3>1, NoticeMeant, Zenon
  <2>2. CASE m.type \in DOMAIN deliver_type /\ sent' = relay(fd, m) /\ UNCHANGED registry
    BY <1>1, <1>4, <2>2, RelayMeant, Zenon
  <2>3. CASE sent' = To({fd}, [type |-> "UsersList", users |-> collect_users])
             /\ UNCHANGED registry
    BY <2>3, NoticeMeant, Zenon
  <2>4. CASE sent' = To({fd}, Error("UnsupportedType")) /\ UNCHANGED registry
    BY <2>4, NoticeMeant, Zenon
  <2> QED BY <1>4, <2>1, <2>2, <2>3, <2>4, Zenon DEF dispatch
<1>5. CASE sent' = To({fd}, Error("Malformed"))
  BY <1>5, NoticeMeant, Zenon
<1> QED BY <1>2, <1>3, <1>4, <1>5, ZenonT(40) DEF handle_client_data

(* Both properties of what is relayed hold throughout.                       *)
THEOREM RelaySafety == Spec => []Meant
<1>1. Init => Meant
  BY Zenon DEF Init, Silence, Meant, RelayedAsMeant, NeverOffline
<1>2. Safe /\ Meant /\ [Next]_vars => Meant'
  <2> SUFFICES ASSUME Safe, Meant, [Next]_vars PROVE Meant'
    BY ZenonT(40)
  <2> USE DEF Error, UserJoined, UserLeft, relayed
  <2>1. CASE \E fd \in Fds : accept_client(fd)
    <3>1. PICK fd \in Fds : accept_client(fd)
      BY <2>1, Zenon
    <3>2. PICK id \in Ids :
            sent' = [To(all_fds, UserJoined(id, NoNickname)) EXCEPT
                      ![fd] = [type |-> "AssignId", id |-> id, create_room |-> all_fds = {}]]
      BY <3>1, ZenonT(40) DEF accept_client
    <3>3. Notices'
      BY <3>2, Zenon DEF Notices, To
    <3> QED BY <3>3 DEF Notices, Meant, RelayedAsMeant, NeverOffline
  <2>2. CASE \E fd \in Fds : hangup(fd)
    <3>1. \E targets, msg : msg.type = "UserLeft" /\ sent' = To(targets, msg)
      BY <2>2, Zenon DEF hangup, remove_client
    <3> QED BY <3>1, NoticeMeant
  <2>3. CASE \E fd \in Fds : \E m \in Requests[fd] \cup {NoMsg} : handle_client_data(fd, m)
    BY <2>3, HandleMeant, Zenon
  <2>4. CASE \E banned \in BanLists : ban_ids(banned)
    <3>1. \/ sent' = Silence
          \/ \E targets, msg : msg.type = "BannedIds" /\ sent' = To(targets, msg)
      BY <2>4, ZenonT(40) DEF ban_ids
    <3> QED BY <3>1, NoticeMeant, SilenceMeant
  <2>5. CASE request_stop \/ disconnect_all_clients \/ idle
    BY <2>5, SilenceMeant, Zenon DEF request_stop, disconnect_all_clients, idle
  <2>6. CASE UNCHANGED vars
    BY <2>6 DEF vars, registry, Meant, RelayedAsMeant, NeverOffline, all_fds
  <2> QED BY <2>1, <2>2, <2>3, <2>4, <2>5, <2>6, Zenon DEF Next
<1> QED BY <1>1, <1>2, Safety, PTL DEF Spec

(* What a client sends reaches exactly whom it meant, under its own id, for  *)
(* any descriptors, nicknames, ids and bans.                                 *)
THEOREM RelayedAsMeantTheorem == Spec => []RelayedAsMeant
BY RelaySafety, PTL DEF Meant

(* The handlers never answer "Recipient offline".                            *)
THEOREM NeverOfflineTheorem == Spec => []NeverOffline
BY RelaySafety, PTL DEF Meant
===============================================================================
