------------------------------- MODULE KeyStore --------------------------------
(* The key store of a client over its sessions: PeerKeyStore in memory, its  *)
(* bytes, and EncryptedKeyStoreFile, which a session reads at its start and  *)
(* rewrites at its end.  A session may be killed at any time.                *)
(*                                                                           *)
(* A key is one byte.  The file is sealed with a key made of the password    *)
(* and a random salt (encrypt_keystore): it opens if it is complete and the  *)
(* password is the one it was sealed with.                                   *)
EXTENDS Protocol, FiniteSets

CONSTANTS
  Passwords, PeerIds,
  PeerKeys, RoomKeys,       \* the keys a session may receive
  MaxSessions               \* bound: sessions

VARIABLES
  session,     \* "off", "running", "writing": the file is open for writing
  password,    \* of the session
  store,       \* its PeerKeyStore
  keystore_file,
  sessions,    \* how many there have been
  saved,       \* history: what the last save that was completed has saved
  damaged      \* history: a kill or a failing disk cut a save short since

storage == <<session, password, store, keystore_file, sessions, saved, damaged>>

None == [written |-> "none"]
NoKey == 0
kKeyStoreVersion == 1
kSecretKeySize == 1
kPublicKeySize == 1
kRoomKeySize == 1

Stores ==
  [secret : Nat, public : Nat, room : RoomKeys \union {NoKey},
   peers : UNION {[ids -> PeerKeys] : ids \in SUBSET PeerIds}]

ASSUME StoreConstants ==
  /\ PeerIds \subseteq 0 .. U32 - 1 /\ PeerKeys \subseteq Nat /\ RoomKeys \subseteq Nat
  /\ MaxSessions \in Nat \ {0}
  /\ Throws \notin Stores

-------------------------------------------------------------------------------
(* PeerKeyStore.                                                             *)

(* generate_keypair() and set_identity(): the n-th pair of keys.             *)
generate_identity(n) ==
  [secret |-> 2 * n - 1, public |-> 2 * n, room |-> NoKey, peers |-> <<>>]

(* The ids of a map, in the order of its iterator.                           *)
in_order(ids) == CHOOSE order \in Bijection(1 .. Cardinality(ids), ids) : TRUE

serialize(s) ==
  LET ids == in_order(DOMAIN s.peers)
      room == IF s.room = NoKey THEN <<0>> ELSE <<1, s.room>>
  IN IF Len(ids) > kMaxU16Count THEN Throws
     ELSE <<kKeyStoreVersion, s.secret, s.public>> \o room
            \o encode_list([k \in DOMAIN ids |-> Append(write_u32_be(ids[k]), s.peers[ids[k]])])

size_of_id == 4

entry_size == 4 + kPublicKeySize

(* The peers from the entries of the blob that follow offset.                *)
peer_entries(blob, offset, count) ==
  LET entry(i) == from(blob, offset + entry_size * (i - 1))
  IN [id \in {read_u32_be(entry(i)) : i \in 1 .. count} |->
        entry(CHOOSE i \in 1 .. count : read_u32_be(entry(i)) = id)[5]]

deserialize(blob) ==
  LET fixed == 1 + kSecretKeySize + kPublicKeySize + 1
      has_room == blob[fixed] # 0
      offset == IF has_room THEN fixed + kRoomKeySize ELSE fixed
      count == read_u16_be(from(blob, offset))
  IN IF \/ Len(blob) < fixed + 2 \/ blob[1] # kKeyStoreVersion
        \/ Len(blob) < offset + 2 \/ Len(blob) < offset + 2 + entry_size * count
     THEN Throws
     ELSE [secret |-> blob[2], public |-> blob[3],
           room |-> IF has_room THEN blob[5] ELSE NoKey,
           peers |-> peer_entries(blob, offset + 2, count)]

-------------------------------------------------------------------------------
(* EncryptedKeyStoreFile.                                                    *)

encrypt_keystore(pw, plain) == [written |-> "all", password |-> pw, plain |-> plain]

decrypt_keystore(pw, sealed) ==
  IF sealed.written = "all" /\ sealed.password = pw THEN sealed.plain ELSE Throws

(* Throws, or false when there is no file or nothing in it.                  *)
load(pw) ==
  IF keystore_file.written \in {"none", "nothing"} \/ decrypt_keystore(pw, keystore_file) = Throws
  THEN Throws
  ELSE deserialize(decrypt_keystore(pw, keystore_file))

(* load_or_create_identity().                                                *)
start_session ==
  /\ session = "off" /\ session' = "running"
  /\ sessions < MaxSessions /\ sessions' = sessions + 1
  /\ password' \in Passwords
  /\ store' = IF load(password') # Throws THEN load(password') ELSE generate_identity(sessions')
  /\ UNCHANGED <<keystore_file, saved, damaged>>

change_to(new) ==
  /\ session = "running" /\ store' = new
  /\ UNCHANGED <<session, password, keystore_file, sessions, saved, damaged>>

with_peer(peers, id, key) ==
  [peer \in DOMAIN peers \union {id} |-> IF peer = id THEN key ELSE peers[peer]]

set_peer_public(id, key) ==
  change_to([store EXCEPT !.peers = with_peer(store.peers, id, key)])

erase_peers(ids) ==
  change_to([store EXCEPT !.peers = [id \in DOMAIN store.peers \ ids |-> store.peers[id]]])

set_room_key(key) == change_to([store EXCEPT !.room = key])

(* What a save leaves when it throws: it serializes and encrypts before it   *)
(* opens the file, which empties it.                                         *)
emptied_before == [written |-> "nothing"]

untouched == keystore_file

save ==
  /\ session = "running"
  /\ \/ /\ serialize(store) # Throws
        /\ session' = "writing" /\ keystore_file' = [written |-> "nothing"]
     \/ /\ serialize(store) = Throws
        /\ session' = "off" /\ keystore_file' = untouched
     \/ session' = "off" /\ UNCHANGED keystore_file       \* the file does not open
  /\ UNCHANGED <<password, store, sessions, saved, damaged>>

(* The file is written, or a part of it is when the disk fails or the        *)
(* process is killed.                                                        *)
write ==
  /\ session = "writing" /\ session' = "off"
  /\ \/ /\ keystore_file' = encrypt_keystore(password, serialize(store))
        /\ saved' = [written |-> "all", password |-> password, store |-> store]
        /\ damaged' = FALSE
     \/ /\ keystore_file' \in {[written |-> "nothing"], [written |-> "part"]}
        /\ damaged' = TRUE /\ UNCHANGED saved
  /\ UNCHANGED <<password, store, sessions>>

kill ==
  /\ session # "off" /\ session' = "off"
  /\ damaged' = (damaged \/ session = "writing")
  /\ UNCHANGED <<password, store, keystore_file, sessions, saved>>

StoreInit ==
  /\ session = "off" /\ password \in Passwords /\ store = generate_identity(1)
  /\ keystore_file = None /\ sessions = 0 /\ saved = None /\ damaged = FALSE

StoreNext ==
  \/ start_session
  \/ \E id \in PeerIds : erase_peers({id}) \/ \E key \in PeerKeys : set_peer_public(id, key)
  \/ \E key \in RoomKeys : set_room_key(key)
  \/ save \/ write \/ kill

StoreSpec == StoreInit /\ [][StoreNext]_storage
-------------------------------------------------------------------------------
(* Types: the store of a session, however it was made, holds one identity,   *)
(* and peers and keys that were received.                                    *)
StoreTypeOK ==
  /\ session \in {"off", "running", "writing"} /\ password \in Passwords
  /\ keystore_file.written \in {"none", "nothing", "part", "all"}
  /\ \E n \in 1 .. MaxSessions :
       <<store.secret, store.public>> = <<generate_identity(n).secret, generate_identity(n).public>>
  /\ store.room \in RoomKeys \union {NoKey}
  /\ DOMAIN store.peers \subseteq PeerIds /\ Range(store.peers) \subseteq PeerKeys

(* A session begins with exactly what the last completed save has written,   *)
(* the identity, the room key and the peers, if the password is the same and *)
(* no save was cut short since; else with a new identity and nothing else,   *)
(* never with a part or a mixture.  A save that throws before it writes      *)
(* leaves the file as it was.                                                *)
RestartKeepsKeys ==
  [][session = "off" /\ session' = "running" =>
       IF saved.written = "all" /\ ~damaged /\ saved.password = password'
       THEN store' = saved.store
       ELSE store' = generate_identity(sessions')]_storage
===============================================================================
