-------------------------------- MODULE StoreProofs ---------------------------
(* Proofs about KeyStore, for any sets of passwords, peers and keys and any  *)
(* number of sessions: what deserialize() makes of serialize()'s bytes, and  *)
(* what a session begins with.                                               *)
EXTENDS KeyStore, ProtocolProofs, FiniteSetTheorems

(* A sequence that lists a set: every element, and nothing else.             *)
Lists(q, S) ==
  q \in Seq(S) /\ Len(q) \in Nat /\ \A x \in S : \E i \in 1 .. Len(q) : q[i] = x

(* serialize takes the peers in such an order.                               *)
LEMMA SetListed ==
  ASSUME NEW S, IsFiniteSet(S)
  PROVE  Lists(in_order(S), S)
<1>0. PICK q : q = in_order(S)
  BY Zenon
<1> DEFINE n == Cardinality(S)
<1>1. n \in Nat /\ ExistsBijection(1 .. n, S)
  BY FS_CardinalityType, Zenon
<1>2. PICK f : f \in Bijection(1 .. n, S)
  BY <1>1, Zenon DEF ExistsBijection
<1>3. q \in Bijection(1 .. n, S)
  BY <1>0, <1>2, Zenon DEF in_order
<1>4. q \in [1 .. n -> S] /\ q \in Surjection(1 .. n, S)
  BY <1>3, Zenon DEF Bijection, Injection
<1> HIDE DEF n
<1>5. \A x \in S : \E i \in 1 .. n : q[i] = x
  BY <1>4, Zenon DEF Surjection
<1>6. q \in Seq(S) /\ Len(q) = n
  BY <1>1, <1>4
<1> QED BY <1>0, <1>1, <1>5, <1>6, Zenon DEF Lists

(* An entry of the blob: four bytes of the identifier, and the key.          *)
Entry(entry, id, key) ==
  /\ entry \in Seq(Nat) /\ Len(entry) = 5 /\ entry[5] = key
  /\ \A j \in 1 .. 4 : entry[j] = write_u32_be(id)[j]

(* serialize makes such an entry of a peer.                                  *)
LEMMA EntryFacts ==
  ASSUME NEW id \in 0 .. U32 - 1, NEW key \in Nat
  PROVE  Entry(Append(write_u32_be(id), key), id, key)
<1>1. PICK bytes : bytes = write_u32_be(id)
  BY Zenon
<1>2. bytes \in Seq(0 .. Radix - 1) /\ Len(bytes) = 4
  BY <1>1, U32RoundTrip, Zenon
<1>3. 0 .. Radix - 1 \subseteq Nat
  BY Sizes
<1>4. bytes \in Seq(Nat)
  BY <1>2, <1>3, SeqWider, Zenon
<1>5. /\ Append(bytes, key) \in Seq(Nat) /\ Len(Append(bytes, key)) = Len(bytes) + 1
      /\ Append(bytes, key)[Len(bytes) + 1] = key
      /\ \A j \in 1 .. Len(bytes) : Append(bytes, key)[j] = bytes[j]
  BY <1>4, SeqFacts
<1>6. 4 + 1 = 5
  OBVIOUS
<1> QED BY <1>1, <1>2, <1>5, <1>6, Zenon DEF Entry

(* Data that begins with an entry, and what is read of it.                   *)
Begins(data, entry) ==
  data \in Seq(Nat) /\ Len(data) >= 5 /\ \A j \in 1 .. 5 : data[j] = entry[j]

Reads(data, id, key) == read_u32_be(data) = id /\ data[5] = key

(* deserialize finds the identifier and the key.                             *)
LEMMA EntryRead ==
  ASSUME NEW id \in 0 .. U32 - 1, NEW key, NEW entry, Entry(entry, id, key),
         NEW data, Begins(data, entry)
  PROVE  Reads(data, id, key)
<1>1. data \in Seq(Nat) /\ Len(data) >= 5 /\ \A j \in 1 .. 5 : data[j] = entry[j]
  BY Zenon DEF Begins
<1>2. Len(data) >= 4 /\ 5 \in 1 .. 5 /\ \A j \in 1 .. 4 : j \in 1 .. 5
  BY <1>1, SeqFacts
<1>3. \A j \in 1 .. 4 : data[j] = write_u32_be(id)[j]
  BY <1>1, <1>2, Zenon DEF Entry
<1>4. read_u32_be(data) = id
  BY <1>1, <1>2, <1>3, ReadWritten, Zenon
<1> QED BY <1>1, <1>2, <1>4, Zenon DEF Entry, Reads

(* The n entries behind offset o have these identifiers and their keys.      *)
EntriesAt(blob, o, n, ids, peers) ==
  \A i \in 1 .. n : Reads(from(blob, o + 5 * (i - 1)), ids[i], peers[ids[i]])

(* A head with a list of entries behind it.                                  *)
Filled(blob, head, h, n, ids, peers) ==
  /\ blob \in Seq(Nat) /\ Len(blob) = h + 2 + 5 * n
  /\ \A j \in 1 .. h : blob[j] = head[j]
  /\ read_u16_be(from(blob, h)) = n
  /\ EntriesAt(blob, h + 2, n, ids, peers)

(* The entries that follow a head are found again, the identifier and the    *)
(* key of each.                                                              *)
LEMMA EntriesRead ==
  ASSUME NEW head \in Seq(Nat), NEW h \in Nat, Len(head) = h, NEW n \in 0 .. kMaxU16Count,
         NEW ids, NEW peers, NEW entries \in Seq(Seq(Nat)), Len(entries) = n,
         \A k \in 1 .. n : ids[k] \in 0 .. U32 - 1 /\ Entry(entries[k], ids[k], peers[ids[k]])
  PROVE  Filled(head \o encode_list(entries), head, h, n, ids, peers)
<1>0. PICK list, blob : list = encode_list(entries) /\ blob = head \o list
  BY Zenon
<1>1. n \in Nat
  BY Sizes DEF kMaxU16Count
<1>2. /\ list \in Seq(Nat) /\ Len(list) = 2 + 5 * n
      /\ list[1] * Radix + list[2] = n
      /\ \A k \in 1 .. n : \A j \in 1 .. 5 : list[2 + 5 * (k - 1) + j] = entries[k][j]
  <2>1. 5 \in Nat
    OBVIOUS
  <2>2. \A k \in 1 .. n : Len(entries[k]) = 5
    BY Zenon DEF Entry
  <2>3. Listed(encode_list(entries), entries, 5, n)
    BY <2>1, <2>2, ListFacts, Zenon
  <2> QED BY <1>0, <2>3, Zenon DEF Listed
<1>3. /\ blob \in Seq(Nat) /\ Len(blob) = h + Len(list)
      /\ \A j \in 1 .. h : blob[j] = head[j]
      /\ \A o \in 0 .. Len(list) :
           /\ from(blob, h + o) \in Seq(Nat) /\ Len(from(blob, h + o)) = Len(list) - o
           /\ \A j \in 1 .. Len(list) - o : from(blob, h + o)[j] = list[o + j]
  <2>1. list \in Seq(Nat)
    BY <1>2
  <2>2. /\ head \o list \in Seq(Nat) /\ Len(head \o list) = Len(head) + Len(list)
        /\ \A j \in 1 .. Len(head) : (head \o list)[j] = head[j]
        /\ \A o \in 0 .. Len(list) :
             LET rest_ == from(head \o list, Len(head) + o) IN
             /\ rest_ \in Seq(Nat) /\ Len(rest_) = Len(list) - o
             /\ \A j \in 1 .. Len(list) - o : rest_[j] = list[o + j]
    BY <2>1, Behind, Zenon
  <2> QED BY <1>0, <2>2, Zenon
<1>4. \A k \in 1 .. n : /\ 2 + 5 * (k - 1) \in 0 .. Len(list)
                        /\ Len(list) - (2 + 5 * (k - 1)) \in Int
                        /\ Len(list) - (2 + 5 * (k - 1)) >= 5
                        /\ h + (2 + 5 * (k - 1)) = h + 2 + 5 * (k - 1)
  BY <1>1, <1>2
<1>5. Len(blob) = h + 2 + 5 * n
  <2>1. h + (2 + 5 * n) = h + 2 + 5 * n
    BY <1>1
  <2> QED BY <1>2, <1>3, <2>1, Zenon
<1>6. read_u16_be(from(blob, h)) = n
  <2>1. 0 \in 0 .. Len(list) /\ h + 0 = h /\ 1 \in 1 .. Len(list) - 0 /\ 2 \in 1 .. Len(list) - 0
        /\ 0 + 1 = 1 /\ 0 + 2 = 2
    BY <1>1, <1>2
  <2>2. from(blob, h)[1] = list[1] /\ from(blob, h)[2] = list[2]
    BY <1>3, <2>1, Zenon
  <2> QED BY <1>2, <2>2, Zenon DEF read_u16_be
<1>7. ASSUME NEW i \in 1 .. n
      PROVE  Reads(from(blob, h + 2 + 5 * (i - 1)), ids[i], peers[ids[i]])
  <2>1. PICK o \in 0 .. Len(list) : o = 2 + 5 * (i - 1)
    BY <1>4, Zenon
  <2>2. PICK data : data = from(blob, h + o)
    BY Zenon
  <2>3. /\ data \in Seq(Nat) /\ Len(data) = Len(list) - o
        /\ \A j \in 1 .. Len(list) - o : data[j] = list[o + j]
    BY <1>3, <2>2, Zenon
  <2>4. Len(list) - o >= 5 /\ Len(list) - o \in Int
    BY <1>4, <2>1, Zenon
  <2>5. \A j \in 1 .. 5 : j \in 1 .. Len(list) - o
    BY <2>4
  <2>6. \A j \in 1 .. 5 : data[j] = entries[i][j]
    BY <1>2, <2>1, <2>3, <2>5, Zenon
  <2>7. Len(data) >= 5
    BY <2>3, <2>4, Zenon
  <2>8. Reads(data, ids[i], peers[ids[i]])
    <3>1. ids[i] \in 0 .. U32 - 1 /\ Entry(entries[i], ids[i], peers[ids[i]])
      BY Zenon
    <3>2. Begins(data, entries[i])
      BY <2>3, <2>6, <2>7, Zenon DEF Begins
    <3> QED BY <3>1, <3>2, EntryRead, Zenon
  <2> QED BY <1>4, <2>1, <2>2, <2>8, Zenon
<1>8. EntriesAt(blob, h + 2, n, ids, peers)
  BY <1>7, Zenon DEF EntriesAt
<1> QED BY <1>0, <1>3, <1>5, <1>6, <1>8, Zenon DEF Filled

(* The identifiers of the entries are those of D.                            *)
Covering(ids, n, D) ==
  (\A i \in 1 .. n : ids[i] \in D) /\ \A id \in D : \E i \in 1 .. n : ids[i] = id

(* deserialize makes the function of the peers of the entries it reads.      *)
LEMMA PeersRead ==
  ASSUME NEW ids, NEW n, NEW peers, NEW D, NEW K, peers \in [D -> K],
         Covering(ids, n, D), NEW blob, NEW o, EntriesAt(blob, o, n, ids, peers)
  PROVE  peer_entries(blob, o, n) = peers
<1>0. (\A i \in 1 .. n : ids[i] \in D) /\ \A id \in D : \E i \in 1 .. n : ids[i] = id
  BY Zenon DEF Covering
<1> DEFINE entry(i) == from(blob, o + entry_size * (i - 1))
           found(id) == CHOOSE i \in 1 .. n : read_u32_be(entry(i)) = id
<1>1. entry_size = 5
  BY DEF entry_size, kPublicKeySize
<1>2. \A i \in 1 .. n : read_u32_be(entry(i)) = ids[i] /\ entry(i)[5] = peers[ids[i]]
  BY <1>1, Zenon DEF Reads, EntriesAt
<1> HIDE DEF entry
<1>3. {read_u32_be(entry(i)) : i \in 1 .. n} = D
  <2>1. \A id \in D : \E i \in 1 .. n : read_u32_be(entry(i)) = id
    <3> TAKE id \in D
    <3>1. PICK i \in 1 .. n : ids[i] = id
      BY <1>0, Zenon
    <3>2. read_u32_be(entry(i)) = id
      BY <1>2, <3>1
    <3> QED BY <3>2, Zenon
  <2>2. \A i \in 1 .. n : read_u32_be(entry(i)) \in D
    BY <1>0, <1>2, Zenon
  <2> QED BY <2>1, <2>2, Zenon
<1>4. \A id \in D : entry(found(id))[5] = peers[id]
  <2> TAKE id \in D
  <2>1. \E i \in 1 .. n : read_u32_be(entry(i)) = id
    BY <1>3, Zenon
  <2>2. found(id) \in 1 .. n /\ read_u32_be(entry(found(id))) = id
    BY <2>1, Zenon
  <2>3. PICK i \in 1 .. n : i = found(id)
    BY <2>2, Zenon
  <2>4. id = ids[i] /\ entry(i)[5] = peers[ids[i]]
    BY <1>2, <2>2, <2>3
  <2> QED BY <2>3, <2>4, Zenon
<1>5. peer_entries(blob, o, n) = [id \in {read_u32_be(entry(i)) : i \in 1 .. n} |-> entry(found(id))[5]]
  BY Zenon DEF peer_entries, entry
<1> HIDE DEF found
<1>6. peer_entries(blob, o, n) = [id \in D |-> entry(found(id))[5]]
  BY <1>3, <1>5, Zenon
<1> QED BY <1>4, <1>6, Zenon

(* The head of a blob: the version, the identity, and whether a room key     *)
(* follows.                                                                  *)
Roomless(head, a, b) ==
  /\ head \in Seq(Nat) /\ Len(head) = 4
  /\ head[1] = 1 /\ head[2] = a /\ head[3] = b /\ head[4] = 0

Roomy(head, a, b, c) ==
  /\ head \in Seq(Nat) /\ Len(head) = 5
  /\ head[1] = 1 /\ head[2] = a /\ head[3] = b /\ head[4] = 1 /\ head[5] = c

(* A head without a room key, and with one.                                  *)
LEMMA HeadFacts ==
  ASSUME NEW a \in Nat, NEW b \in Nat, NEW c \in Nat
  PROVE  Roomless(<<1, a, b>> \o <<0>>, a, b) /\ Roomy(<<1, a, b>> \o <<1, c>>, a, b, c)
<1>1. PICK x : x = <<1, a, b>>
  BY Zenon
<1>2. x \in Seq(Nat) /\ Len(x) = 3 /\ x[1] = 1 /\ x[2] = a /\ x[3] = b
  BY <1>1
<1>3. PICK y, z : y = <<0>> /\ z = <<1, c>>
  BY Zenon
<1>4. /\ y \in Seq(Nat) /\ Len(y) = 1 /\ y[1] = 0
      /\ z \in Seq(Nat) /\ Len(z) = 2 /\ z[1] = 1 /\ z[2] = c
  BY <1>3
<1>5. /\ 1 \in 1 .. 3 /\ 2 \in 1 .. 3 /\ 3 \in 1 .. 3 /\ 1 \in 1 .. 1 /\ 1 \in 1 .. 2 /\ 2 \in 1 .. 2
      /\ 3 + 1 = 4 /\ 3 + 2 = 5
  OBVIOUS
<1>6. Joins(x \o y, x, y, 3, 1) /\ Joins(x \o z, x, z, 3, 2)
  BY <1>2, <1>4, ConcatFacts, Zenon
<1>7. Roomless(x \o y, a, b)
  BY <1>2, <1>4, <1>5, <1>6, Zenon DEF Joins, Roomless
<1>8. Roomy(x \o z, a, b, c)
  BY <1>2, <1>4, <1>5, <1>6, Zenon DEF Joins, Roomy
<1> QED BY <1>1, <1>3, <1>7, <1>8, Zenon

(* The head of the blob of a store, up to the room key.                      *)
Headed(head, h, s) ==
  /\ head \in Seq(Nat) /\ Len(head) = h /\ h \in {4, 5}
  /\ head[1] = 1 /\ head[2] = s.secret /\ head[3] = s.public
  /\ h = 4 => head[4] = 0 /\ s.room = NoKey
  /\ h = 5 => head[4] = 1 /\ head[5] = s.room

(* serialize writes such a head.                                             *)
LEMMA StoreHeaded ==
  ASSUME NEW s \in Stores
  PROVE  \E h : Headed(<<kKeyStoreVersion, s.secret, s.public>>
                         \o (IF s.room = NoKey THEN <<0>> ELSE <<1, s.room>>), h, s)
<1>0. s.secret \in Nat /\ s.public \in Nat /\ s.room \in RoomKeys \union {NoKey}
  BY Zenon DEF Stores
<1>1. s.room \in Nat /\ kKeyStoreVersion = 1 /\ 4 # 5
  <2>1. NoKey \in Nat /\ kKeyStoreVersion = 1 /\ 4 # 5
    BY DEF NoKey, kKeyStoreVersion
  <2> QED BY <1>0, <2>1, StoreConstants, Zenon
<1> DEFINE none == <<1, s.secret, s.public>> \o <<0>>
           one == <<1, s.secret, s.public>> \o <<1, s.room>>
<1>4. Roomless(none, s.secret, s.public) /\ Roomy(one, s.secret, s.public, s.room)
  BY <1>0, <1>1, HeadFacts, Zenon
<1> HIDE DEF none, one
<1>2. CASE s.room = NoKey
  <2>1. Headed(none, 4, s)
    BY <1>1, <1>2, <1>4, Zenon DEF Headed, Roomless
  <2> QED BY <1>1, <1>2, <2>1, Zenon DEF none
<1>3. CASE s.room # NoKey
  <2>1. Headed(one, 5, s)
    BY <1>1, <1>3, <1>4, Zenon DEF Headed, Roomy
  <2> QED BY <1>1, <1>3, <2>1, Zenon DEF one
<1> QED BY <1>2, <1>3, Zenon

(* The blob of a store: the head, and the entries of its peers.              *)
Blob(blob, h, n, s, ids) ==
  /\ blob \in Seq(Nat) /\ Len(blob) = h + 2 + 5 * n /\ h \in {4, 5} /\ n \in Nat
  /\ blob[1] = 1 /\ blob[2] = s.secret /\ blob[3] = s.public
  /\ h = 4 => blob[4] = 0 /\ s.room = NoKey
  /\ h = 5 => blob[4] = 1 /\ blob[5] = s.room
  /\ read_u16_be(from(blob, h)) = n
  /\ Covering(ids, n, DOMAIN s.peers) /\ EntriesAt(blob, h + 2, n, ids, s.peers)

(* What deserialize makes of such a blob is the store.                       *)
LEMMA BlobRead ==
  ASSUME NEW s \in Stores, NEW blob, NEW h, NEW n, NEW ids, Blob(blob, h, n, s, ids)
  PROVE  deserialize(blob) = s
<1>1. /\ kKeyStoreVersion = 1 /\ 1 + kSecretKeySize + kPublicKeySize + 1 = 4
      /\ 4 + kRoomKeySize = 5 /\ entry_size = 5 /\ 1 # 0
  BY DEF kKeyStoreVersion, kSecretKeySize, kPublicKeySize, kRoomKeySize, entry_size
<1>2. h = IF blob[4] # 0 THEN 5 ELSE 4
  BY <1>1, Zenon DEF Blob
<1>3. /\ ~(Len(blob) < 4 + 2) /\ ~(Len(blob) < h + 2) /\ ~(Len(blob) < h + 2 + 5 * n)
  BY DEF Blob
<1>4. peer_entries(blob, h + 2, n) = s.peers
  <2>0. PICK peers, o : peers = s.peers /\ o = h + 2
    BY Zenon
  <2>1. PICK D, K : peers \in [D -> K]
    BY <2>0, Zenon DEF Stores
  <2>2. DOMAIN peers = D
    BY <2>1, Zenon
  <2>3. Covering(ids, n, D) /\ EntriesAt(blob, o, n, ids, peers)
    BY <2>0, <2>2, Zenon DEF Blob
  <2>4. peer_entries(blob, o, n) = peers
    BY <2>1, <2>3, PeersRead, Zenon
  <2> QED BY <2>0, <2>4, Zenon
<1>5. deserialize(blob) =
        [secret |-> s.secret, public |-> s.public, room |-> s.room, peers |-> s.peers]
  <2>1. read_u16_be(from(blob, h)) = n /\ blob[1] = 1 /\ blob[2] = s.secret /\ blob[3] = s.public
    BY Zenon DEF Blob
  <2>2. (IF blob[4] # 0 THEN blob[5] ELSE NoKey) = s.room
    BY <1>2, Zenon DEF Blob
  <2> QED BY <1>1, <1>2, <1>3, <1>4, <2>1, <2>2, Zenon DEF deserialize
<1> QED BY <1>5 DEF Stores

(* The blob of a store has its head and an entry of each peer.               *)
LEMMA StoreBlob ==
  ASSUME NEW s \in Stores, IsFiniteSet(DOMAIN s.peers), serialize(s) # Throws
  PROVE  \E h, n, ids : Blob(serialize(s), h, n, s, ids)
<1> DEFINE D == DOMAIN s.peers
<1>1. PICK ids, n : ids = in_order(D) /\ n = Len(ids)
  BY Zenon
<1>2. /\ ids \in Seq(D) /\ n \in Nat /\ \A x \in D : \E i \in 1 .. n : ids[i] = x
  BY <1>1, SetListed, Zenon DEF Lists
<1>3. DOMAIN ids = 1 .. n /\ \A i \in 1 .. n : ids[i] \in D
  BY <1>1, <1>2, SeqFacts, SeqElement, Zenon
<1>4. Covering(ids, n, D)
  BY <1>2, <1>3, Zenon DEF Covering
<1>5. \A id \in D : id \in 0 .. U32 - 1 /\ s.peers[id] \in Nat
  <2>1. PICK C \in SUBSET PeerIds : s.peers \in [C -> PeerKeys]
    BY Zenon DEF Stores
  <2> QED BY <2>1, StoreConstants, Zenon
<1>6. PICK entries : entries = [k \in DOMAIN ids |-> Append(write_u32_be(ids[k]), s.peers[ids[k]])]
  BY Zenon
<1>7. \A k \in 1 .. n : entries[k] = Append(write_u32_be(ids[k]), s.peers[ids[k]])
  BY <1>3, <1>6, Zenon
<1>8. \A k \in 1 .. n : ids[k] \in 0 .. U32 - 1 /\ Entry(entries[k], ids[k], s.peers[ids[k]])
  BY <1>3, <1>5, <1>7, EntryFacts, Zenon
<1>9. entries \in Seq(Seq(Nat)) /\ Len(entries) = n
  <2>1. entries \in [1 .. n -> Seq(Nat)]
    <3>1. \A k \in 1 .. n : entries[k] \in Seq(Nat)
      BY <1>8, Zenon DEF Entry
    <3> QED BY <1>3, <1>6, <3>1, Zenon
  <2> QED BY <1>2, <2>1
<1>10. PICK head, h : /\ Headed(head, h, s)
                      /\ head = <<kKeyStoreVersion, s.secret, s.public>>
                                  \o (IF s.room = NoKey THEN <<0>> ELSE <<1, s.room>>)
  BY StoreHeaded, Zenon
<1>11. ~(n > kMaxU16Count) /\ serialize(s) = head \o encode_list(entries)
  BY <1>1, <1>6, <1>10, Zenon DEF serialize
<1>12. n \in 0 .. kMaxU16Count /\ h \in Nat /\ head \in Seq(Nat) /\ Len(head) = h
  <2>1. n \in 0 .. kMaxU16Count
    BY <1>2, <1>11, Sizes DEF kMaxU16Count
  <2>2. 4 \in Nat /\ 5 \in Nat
    OBVIOUS
  <2> QED BY <1>10, <2>1, <2>2, Zenon DEF Headed
<1>13. Filled(serialize(s), head, h, n, ids, s.peers)
  BY <1>8, <1>9, <1>11, <1>12, EntriesRead, Zenon
<1>14. /\ 1 \in 1 .. h /\ 2 \in 1 .. h /\ 3 \in 1 .. h /\ 4 \in 1 .. h
       /\ h = 5 => 5 \in 1 .. h
  <2>1. h \in {4, 5}
    BY <1>10, Zenon DEF Headed
  <2> QED BY <2>1
<1>15. Blob(serialize(s), h, n, s, ids)
  <2>1. PICK blob : blob = serialize(s)
    BY Zenon
  <2>2. /\ blob[1] = 1 /\ blob[2] = s.secret /\ blob[3] = s.public /\ h \in {4, 5}
        /\ h = 4 => blob[4] = 0 /\ s.room = NoKey
        /\ h = 5 => blob[4] = 1 /\ blob[5] = s.room
    <3>1. \A j \in 1 .. h : blob[j] = head[j]
      BY <1>13, <2>1, Zenon DEF Filled
    <3>2. blob[1] = head[1] /\ blob[2] = head[2] /\ blob[3] = head[3] /\ blob[4] = head[4]
      BY <1>14, <3>1, Zenon
    <3>3. h = 5 => blob[5] = head[5]
      BY <1>14, <3>1, Zenon
    <3> QED BY <1>10, <3>2, <3>3, Zenon DEF Headed
  <2>3. /\ blob \in Seq(Nat) /\ Len(blob) = h + 2 + 5 * n /\ read_u16_be(from(blob, h)) = n
        /\ EntriesAt(blob, h + 2, n, ids, s.peers)
    BY <1>13, <2>1, Zenon DEF Filled
  <2> QED BY <1>2, <1>4, <2>1, <2>2, <2>3, Zenon DEF Blob
<1> QED BY <1>15, Zenon

(* A session that loads what a session has saved has the same store: the     *)
(* identity, the room key, if there is one, and every peer with its key.     *)
THEOREM StoreRoundTrip ==
  ASSUME NEW s \in Stores, IsFiniteSet(DOMAIN s.peers), serialize(s) # Throws
  PROVE  deserialize(serialize(s)) = s
BY StoreBlob, BlobRead, Zenon

-------------------------------------------------------------------------------
(* The sessions.                                                             *)

(* A store a session may have: an identity that was generated, and finitely  *)
(* many peers.                                                               *)
Fine(s) ==
  /\ s \in Stores /\ IsFiniteSet(DOMAIN s.peers)
  /\ \E n \in 1 .. MaxSessions : s.secret = 2 * n - 1 /\ s.public = 2 * n

(* The file holds the last completed save, or nothing that opens.            *)
FileKept ==
  IF saved.written = "all" /\ ~damaged
  THEN keystore_file = encrypt_keystore(saved.password, serialize(saved.store))
  ELSE keystore_file.written \in {"none", "nothing", "part"}

(* The inductive invariant.  While a session writes, the file is empty and   *)
(* the store is one that serialize() has accepted.                           *)
StoreInv ==
  /\ session \in {"off", "running", "writing"} /\ password \in Passwords
  /\ sessions \in 0 .. MaxSessions
  /\ Fine(store)
  /\ saved.written \in {"none", "all"}
  /\ saved.written = "all" => Fine(saved.store) /\ serialize(saved.store) # Throws
  /\ session = "writing" => keystore_file.written = "nothing" /\ serialize(store) # Throws
  /\ session # "writing" => FileKept

(* A new identity comes without a peer.                                      *)
LEMMA NewFine ==
  ASSUME NEW n \in 1 .. MaxSessions
  PROVE  Fine(generate_identity(n))
<1>1. PICK s : s = generate_identity(n)
  BY Zenon
<1>2. /\ s = [secret |-> s.secret, public |-> s.public, room |-> s.room, peers |-> s.peers]
      /\ s.secret = 2 * n - 1 /\ s.public = 2 * n /\ s.room = NoKey /\ s.peers = <<>>
  BY <1>1 DEF generate_identity
<1>3. s.secret \in Nat /\ s.public \in Nat
  BY <1>2, StoreConstants
<1>4. <<>> \in [{} -> PeerKeys] /\ DOMAIN <<>> = {}
  OBVIOUS
<1>5. IsFiniteSet({}) /\ {} \in SUBSET PeerIds
  BY FS_EmptySet, Zenon
<1>6. s.peers \in UNION {[ids -> PeerKeys] : ids \in SUBSET PeerIds}
  BY <1>2, <1>4, <1>5, Zenon
<1>7. s \in Stores
  BY <1>2, <1>3, <1>6, Zenon DEF Stores
<1> QED BY <1>1, <1>2, <1>4, <1>5, <1>7, Zenon DEF Fine

(* A store that differs from a fine one in its peers or its room key.        *)
LEMMA ChangedFine ==
  ASSUME NEW s, Fine(s), NEW C \in SUBSET PeerIds, IsFiniteSet(C), NEW p \in [C -> PeerKeys]
  PROVE  Fine([s EXCEPT !.peers = p])
<1>1. PICK t : t = [s EXCEPT !.peers = p]
  BY Zenon
<1>2. s \in Stores
  BY Zenon DEF Fine
<1>3. /\ s \in [secret : Nat, public : Nat, room : RoomKeys \union {NoKey},
                peers : UNION {[ids -> PeerKeys] : ids \in SUBSET PeerIds}]
  BY <1>2, Zenon DEF Stores
<1>4. p \in UNION {[ids -> PeerKeys] : ids \in SUBSET PeerIds}
  BY Zenon
<1>5. PICK U : U = UNION {[ids -> PeerKeys] : ids \in SUBSET PeerIds}
  BY Zenon
<1>6. PICK R : R = RoomKeys \union {NoKey}
  BY Zenon
<1>7. /\ t \in [secret : Nat, public : Nat, room : R, peers : U]
      /\ t.secret = s.secret /\ t.public = s.public /\ t.peers = p
  <2>1. s \in [secret : Nat, public : Nat, room : R, peers : U] /\ p \in U
    BY <1>3, <1>4, <1>5, <1>6, Zenon
  <2> QED BY <1>1, <2>1
<1>8. t \in Stores
  BY <1>5, <1>6, <1>7, Zenon DEF Stores
<1>9. IsFiniteSet(DOMAIN t.peers)
  BY <1>7, Zenon
<1> QED BY <1>1, <1>7, <1>8, <1>9, Zenon DEF Fine

(* set_room_key.                                                             *)
LEMMA RoomFine ==
  ASSUME NEW s, Fine(s), NEW key \in RoomKeys
  PROVE  Fine([s EXCEPT !.room = key])
<1>1. PICK t : t = [s EXCEPT !.room = key]
  BY Zenon
<1>2. s \in Stores
  BY Zenon DEF Fine
<1>3. PICK U, R : /\ U = UNION {[ids -> PeerKeys] : ids \in SUBSET PeerIds}
                  /\ R = RoomKeys \union {NoKey}
  BY Zenon
<1>4. /\ t \in [secret : Nat, public : Nat, room : R, peers : U]
      /\ t.secret = s.secret /\ t.public = s.public /\ t.peers = s.peers
  <2>1. s \in [secret : Nat, public : Nat, room : R, peers : U] /\ key \in R
    BY <1>2, <1>3, Zenon DEF Stores
  <2> QED BY <1>1, <2>1
<1>5. t \in Stores
  BY <1>3, <1>4, Zenon DEF Stores
<1> QED BY <1>1, <1>4, <1>5, Zenon DEF Fine

(* The peers of a fine store.                                                *)
LEMMA PeersFine ==
  ASSUME NEW s, Fine(s)
  PROVE  \E C \in SUBSET PeerIds : IsFiniteSet(C) /\ s.peers \in [C -> PeerKeys]
<1>1. PICK C \in SUBSET PeerIds : s.peers \in [C -> PeerKeys]
  BY Zenon DEF Fine, Stores
<1>2. DOMAIN s.peers = C
  BY <1>1, Zenon
<1> QED BY <1>1, <1>2, Zenon DEF Fine

(* set_peer_public: finitely many peers become finitely many.                *)
LEMMA AddedFine ==
  ASSUME NEW s, Fine(s), NEW id \in PeerIds, NEW key \in PeerKeys
  PROVE  Fine([s EXCEPT !.peers = with_peer(s.peers, id, key)])
<1>1. PICK C \in SUBSET PeerIds : IsFiniteSet(C) /\ s.peers \in [C -> PeerKeys]
  BY PeersFine, Zenon
<1>2. PICK q : q = with_peer(s.peers, id, key)
  BY Zenon
<1>3. q \in [C \cup {id} -> PeerKeys]
  BY <1>1, <1>2, Zenon DEF with_peer
<1>4. IsFiniteSet(C \cup {id}) /\ C \cup {id} \in SUBSET PeerIds
  BY <1>1, FS_AddElement, Zenon
<1> QED BY <1>2, <1>3, <1>4, ChangedFine, Zenon

(* erase_peers.                                                              *)
LEMMA ErasedFine ==
  ASSUME NEW s, Fine(s), NEW ids
  PROVE  Fine([s EXCEPT !.peers = [id \in DOMAIN s.peers \ ids |-> s.peers[id]]])
<1>1. PICK C \in SUBSET PeerIds : IsFiniteSet(C) /\ s.peers \in [C -> PeerKeys]
  BY PeersFine, Zenon
<1>2. PICK q : q = [id \in DOMAIN s.peers \ ids |-> s.peers[id]]
  BY Zenon
<1>3. q \in [C \ ids -> PeerKeys]
  BY <1>1, <1>2, Zenon
<1>4. IsFiniteSet(C \ ids) /\ C \ ids \in SUBSET PeerIds
  <2>1. C \ ids \in SUBSET C
    BY Zenon
  <2> QED BY <1>1, <2>1, FS_Subset, Zenon
<1> QED BY <1>2, <1>3, <1>4, ChangedFine, Zenon

(* The store of a session that begins: what the last completed save has      *)
(* written, or a new identity.                                               *)
LEMMA Restarted ==
  ASSUME StoreInv, start_session
  PROVE  IF saved.written = "all" /\ ~damaged /\ saved.password = password'
         THEN store' = saved.store
         ELSE store' = generate_identity(sessions')
<1>1. /\ session = "off"
      /\ store' = IF load(password') # Throws THEN load(password') ELSE generate_identity(sessions')
  BY Zenon DEF start_session
<1>2. FileKept
  BY <1>1, Zenon DEF StoreInv
<1>3. CASE saved.written = "all" /\ ~damaged
  <2>1. PICK s, plain : s = saved.store /\ plain = serialize(s)
    BY Zenon
  <2>2. /\ Fine(s) /\ plain # Throws
        /\ keystore_file = [written |-> "all", password |-> saved.password, plain |-> plain]
    BY <1>2, <1>3, <2>1, Zenon DEF StoreInv, FileKept, encrypt_keystore
  <2>3. /\ keystore_file.written = "all" /\ keystore_file.password = saved.password
        /\ keystore_file.plain = plain
    BY <2>2, Zenon
  <2>4. deserialize(plain) = s /\ s # Throws
    BY <2>1, <2>2, StoreRoundTrip, StoreConstants, Zenon DEF Fine
  <2>5. CASE saved.password = password'
    <3>1. decrypt_keystore(password', keystore_file) = plain
      BY <2>3, <2>5, Zenon DEF decrypt_keystore
    <3>2. load(password') = s
      BY <2>2, <2>3, <2>4, <3>1, Zenon DEF load
    <3> QED BY <1>1, <1>3, <2>1, <2>4, <2>5, <3>2, Zenon
  <2>6. CASE saved.password # password'
    <3>1. decrypt_keystore(password', keystore_file) = Throws
      BY <2>3, <2>6, Zenon DEF decrypt_keystore
    <3>2. load(password') = Throws
      BY <3>1, Zenon DEF load
    <3> QED BY <1>1, <2>6, <3>2, Zenon
  <2> QED BY <2>5, <2>6, Zenon
<1>4. CASE ~(saved.written = "all" /\ ~damaged)
  <2>1. keystore_file.written \in {"none", "nothing", "part"}
    BY <1>2, <1>4, Zenon DEF FileKept
  <2>2. load(password') = Throws
    BY <2>1, Zenon DEF load, decrypt_keystore
  <2> QED BY <1>1, <1>4, <2>2, Zenon
<1> QED BY <1>3, <1>4, Zenon

(* There is no file at first.                                                *)
LEMMA StoreInitInv == StoreInit => StoreInv
<1> SUFFICES ASSUME StoreInit PROVE StoreInv
  OBVIOUS
<1>1. Fine(store)
  <2>1. 1 \in 1 .. MaxSessions
    BY StoreConstants
  <2> QED BY <2>1, NewFine, Zenon DEF StoreInit
<1>2. 0 \in 0 .. MaxSessions
  BY StoreConstants
<1>3. saved.written = "none" /\ keystore_file.written = "none"
  BY Zenon DEF StoreInit, None
<1> QED BY <1>1, <1>2, <1>3, Zenon DEF StoreInit, StoreInv, FileKept

(* One step per operation: while the file is written nothing is known of the *)
(* last save, and a kill then makes the file damaged.                        *)
LEMMA StoreStep ==
  ASSUME StoreInv, [StoreNext]_storage
  PROVE  StoreInv'
<1>1. CASE start_session
  <2>1. /\ session = "off" /\ session' = "running" /\ password' \in Passwords
        /\ UNCHANGED <<keystore_file, saved, damaged>>
    BY <1>1, Zenon DEF start_session
  <2>2. sessions' \in 1 .. MaxSessions /\ sessions' \in 0 .. MaxSessions
    BY <1>1, StoreConstants DEF start_session, StoreInv
  <2>3. Fine(store')
    <3>1. CASE saved.written = "all" /\ ~damaged /\ saved.password = password'
      BY <1>1, <3>1, Restarted, Zenon DEF StoreInv
    <3>2. CASE ~(saved.written = "all" /\ ~damaged /\ saved.password = password')
      BY <1>1, <2>2, <3>2, NewFine, Restarted, Zenon
    <3> QED BY <3>1, <3>2, Zenon
  <2>4. FileKept'
    BY <2>1, Zenon DEF StoreInv, FileKept
  <2> QED BY <2>1, <2>2, <2>3, <2>4, Zenon DEF StoreInv
<1>2. ASSUME NEW new, change_to(new), Fine(new) PROVE StoreInv'
  <2>1. /\ session = "running" /\ store' = new
        /\ UNCHANGED <<session, password, keystore_file, sessions, saved, damaged>>
    BY <1>2, Zenon DEF change_to
  <2>2. FileKept'
    BY <2>1, Zenon DEF StoreInv, FileKept
  <2> QED BY <1>2, <2>1, <2>2, Zenon DEF StoreInv
<1>3. CASE \E id \in PeerIds : erase_peers({id}) \/ \E key \in PeerKeys : set_peer_public(id, key)
  <2>1. Fine(store)
    BY Zenon DEF StoreInv
  <2>2. ASSUME NEW id \in PeerIds, erase_peers({id}) PROVE StoreInv'
    BY <1>2, <2>1, <2>2, ErasedFine, Zenon DEF erase_peers
  <2>3. ASSUME NEW id \in PeerIds, NEW key \in PeerKeys, set_peer_public(id, key) PROVE StoreInv'
    BY <1>2, <2>1, <2>3, AddedFine, Zenon DEF set_peer_public
  <2> QED BY <1>3, <2>2, <2>3, Zenon
<1>4. CASE \E key \in RoomKeys : set_room_key(key)
  BY <1>2, <1>4, RoomFine, Zenon DEF StoreInv, set_room_key
<1>5. CASE save
  <2>1. /\ session = "running"
        /\ \/ /\ serialize(store) # Throws /\ session' = "writing"
              /\ keystore_file' = [written |-> "nothing"]
           \/ session' = "off" /\ keystore_file' = keystore_file
        /\ UNCHANGED <<password, store, sessions, saved, damaged>>
    BY <1>5, Zenon DEF save, untouched
  <2>2. session' # "writing" => FileKept'
    BY <2>1, Zenon DEF StoreInv, FileKept
  <2>3. session' = "writing" => keystore_file'.written = "nothing" /\ serialize(store') # Throws
    BY <2>1
  <2> QED BY <2>1, <2>2, <2>3, Zenon DEF StoreInv
<1>6. CASE write
  <2>1. /\ session = "writing" /\ session' = "off" /\ UNCHANGED <<password, store, sessions>>
    BY <1>6, Zenon DEF write
  <2>2. CASE /\ keystore_file' = encrypt_keystore(password, serialize(store))
             /\ saved' = [written |-> "all", password |-> password, store |-> store]
             /\ damaged' = FALSE
    <3>1. saved'.written = "all" /\ saved'.password = password /\ saved'.store = store
      BY <2>2, Zenon
    <3>2. FileKept' /\ Fine(saved'.store) /\ serialize(saved'.store) # Throws
      BY <2>1, <2>2, <3>1, Zenon DEF StoreInv, FileKept
    <3> QED BY <2>1, <3>1, <3>2, Zenon DEF StoreInv
  <2>3. CASE /\ keystore_file' \in {[written |-> "nothing"], [written |-> "part"]}
             /\ damaged' = TRUE /\ UNCHANGED saved
    <3>1. keystore_file'.written \in {"none", "nothing", "part"}
      BY <2>3
    <3>2. FileKept'
      BY <2>3, <3>1, Zenon DEF FileKept
    <3> QED BY <2>1, <2>3, <3>2, Zenon DEF StoreInv
  <2> QED BY <1>6, <2>2, <2>3, Zenon DEF write
<1>7. CASE kill
  <2>1. /\ session # "off" /\ session' = "off"
        /\ damaged' = (damaged \/ session = "writing")
        /\ UNCHANGED <<password, store, keystore_file, sessions, saved>>
    BY <1>7, Zenon DEF kill
  <2>2. FileKept'
    <3>1. CASE session = "writing"
      BY <2>1, <3>1, Zenon DEF StoreInv, FileKept
    <3>2. CASE session # "writing"
      BY <2>1, <3>2, Zenon DEF StoreInv, FileKept
    <3> QED BY <3>1, <3>2, Zenon
  <2> QED BY <2>1, <2>2, Zenon DEF StoreInv
<1>8. CASE UNCHANGED storage
  BY <1>8, Zenon DEF storage, StoreInv, FileKept
<1> QED BY <1>1, <1>3, <1>4, <1>5, <1>6, <1>7, <1>8, Zenon DEF StoreNext

(* Outside a save, the file of EncryptedKeyStoreFile holds the last store    *)
(* that was saved completely, under its password, or nothing that opens.     *)
THEOREM StoreKept == StoreSpec => []StoreInv
<1>1. StoreInv /\ [StoreNext]_storage => StoreInv'
  BY StoreStep, Zenon
<1> QED BY <1>1, StoreInitInv, PTL DEF StoreSpec

(* The store of a session, generated or loaded, has one identity, and peers  *)
(* and keys that were received, for any number of peers, keys and sessions.  *)
THEOREM StoreTypes == StoreSpec => []StoreTypeOK
<1>1. StoreInv => StoreTypeOK
  <2> SUFFICES ASSUME StoreInv PROVE StoreTypeOK
    OBVIOUS
  <2>1. store \in Stores /\ \E n \in 1 .. MaxSessions : store.secret = 2 * n - 1 /\ store.public = 2 * n
    BY Zenon DEF StoreInv, Fine
  <2>2. \E n \in 1 .. MaxSessions :
         <<store.secret, store.public>> = <<generate_identity(n).secret, generate_identity(n).public>>
    <3>1. \A n : generate_identity(n).secret = 2 * n - 1 /\ generate_identity(n).public = 2 * n
      BY Zenon DEF generate_identity
    <3> QED BY <2>1, <3>1, Zenon
  <2>3. PICK C \in SUBSET PeerIds : store.peers \in [C -> PeerKeys]
    BY <2>1, Zenon DEF Stores
  <2>4. /\ store.room \in RoomKeys \union {NoKey}
        /\ DOMAIN store.peers \subseteq PeerIds /\ Range(store.peers) \subseteq PeerKeys
    <3>1. store.room \in RoomKeys \union {NoKey}
      BY <2>1, Zenon DEF Stores
    <3>2. DOMAIN store.peers = C /\ \A x \in C : store.peers[x] \in PeerKeys
      BY <2>3, Zenon
    <3> QED BY <3>1, <3>2, Zenon DEF Range
  <2>5. keystore_file.written \in {"none", "nothing", "part", "all"}
    <3>1. CASE session = "writing"
      BY <3>1, Zenon DEF StoreInv
    <3>2. CASE FileKept
      BY <3>2 DEF FileKept, encrypt_keystore
    <3> QED BY <3>1, <3>2, Zenon DEF StoreInv
  <2> QED BY <2>2, <2>4, <2>5, Zenon DEF StoreInv, StoreTypeOK
<1> QED BY <1>1, StoreKept, PTL

(* load_or_create_identity() begins a session with exactly what the last     *)
(* completed save() has written, or with a new identity.                     *)
THEOREM RestartProved == StoreSpec => RestartKeepsKeys
<1>1. StoreInv /\ [StoreNext]_storage =>
        [session = "off" /\ session' = "running" =>
           IF saved.written = "all" /\ ~damaged /\ saved.password = password'
           THEN store' = saved.store
           ELSE store' = generate_identity(sessions')]_storage
  <2> SUFFICES ASSUME StoreInv, StoreNext, session = "off", session' = "running"
               PROVE  IF saved.written = "all" /\ ~damaged /\ saved.password = password'
                      THEN store' = saved.store
                      ELSE store' = generate_identity(sessions')
    BY Zenon
  <2>1. start_session
    BY Zenon DEF StoreNext, erase_peers, set_peer_public, set_room_key, change_to, save, write, kill
  <2> QED BY <2>1, Restarted, Zenon
<1> QED BY <1>1, StoreKept, PTL DEF StoreSpec, RestartKeepsKeys
===============================================================================
