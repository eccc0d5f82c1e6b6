-------------------------------- MODULE Framing --------------------------------
(* One direction of a connection, byte by byte: frames are written with      *)
(* write_exact by the threads of one process and read with read_exact by the *)
(* other.  What is written comes from lines on a console, through the        *)
(* parsers, or from handlers.                                                *)
EXTENDS Console, FiniteSets

CONSTANTS
  Ends,         \* the processes that write in the instance
  Rooms,        \* sizes of the socket's buffer
  InputLines,   \* lines typed at a client
  AdminLines,   \* lines typed at the server
  Messages,     \* [Ends -> set of messages their handlers send]
  MyId,         \* the client's id
  Peers,        \* ids the client has keys of
  id_by_nickname_,
  MaxFrames     \* bound on the number of frames

ASSUME FramingConstants ==
  /\ Rooms \subseteq Nat /\ MaxFrames \in Nat
  /\ MyId \in Ids /\ Peers \subseteq Ids
  /\ InputLines \subseteq Lines /\ AdminLines \subseteq AdministratorLines
  /\ \A process \in Ends : Messages[process] \subseteq AppMessages

VARIABLES
  end,              \* "client", "server", or "peer": a client with one thread
  room,
  connection,       \* "up", "closed" by the writer, or "lost" for the reader
  sending,          \* the frame each thread is writing
  frames,
  key_offered_to_,
  banned_ids_,
  wire,             \* bytes written and not read
  reading,          \* bytes of the frame being read
  received,         \* what the reader decoded, Throws for what it could not
  (* History: what was meant by the frames, in the order of their first      *)
  (* bytes; whether two threads wrote into each other's frames; whether a    *)
  (* frame was longer than its length field can say.                         *)
  meant, torn, too_long

writers == <<sending, frames, key_offered_to_, banned_ids_>>
history == <<meant, torn, too_long>>
framing_vars == <<end, room, connection, writers, wire, reading, received, history>>

Threads == IF end = "client" THEN {"input", "receiver"} ELSE {"loop"}

Idle == [left |-> <<>>, begun |-> FALSE]

-------------------------------------------------------------------------------
(* What the reader takes a message for, and what a line asks for.            *)

understood(m) ==
  CASE m = Throws -> m
    [] m.type \in ChatTypes ->
         [type |-> m.type, from_id |-> m.from_id, text |-> m.text,
          to |-> CASE m.recipient_tag = kRecipientById -> <<"id", read_u32_be(m.recipient_data)>>
                   [] m.recipient_tag = kRecipientByNickname ->
                        <<"nickname", decode_string(m.recipient_data)>>
                   [] m.recipient_tag = kRecipientBroadcast -> <<"all">>]
    [] m.type = "BannedIds" -> [type |-> m.type, ids |-> Range(m.ids)]
    [] OTHER -> m

ToPeer(type, id, text) == [type |-> type, from_id |-> MyId, text |-> text, to |-> <<"id", id>>]

(* Numbers that are no ids, which the parsers do not refuse: too large, or   *)
(* negative and wrapped by stoul.                                            *)
NoId == [type |-> "NoId"]

ToNumber(type, token, text) ==
  IF token.kind = "number" /\ token.value < U32 THEN ToPeer(type, token.value, text) ELSE NoId

(* Of a line that is sent: an id, a nickname or "all", a colon, the text.    *)
Asked(line) ==
  CASE line.form = "/users" -> [type |-> "ListUsers"]
    [] line.form = "/key" -> ToNumber("KeyOffer", line.argument, <<MyId>>)
    [] line.form = "ban:" ->
         IF \E token \in Range(line.ids) : token.kind = "negative" THEN NoId
         ELSE [type |-> "BannedIds",
               ids |-> {token.value : token \in {t \in Range(line.ids) : t.kind = "number"}}
                         \ banned_ids_]
    [] line.form = "message" ->
         CASE line.recipient = all ->
                [type |-> "Chat", from_id |-> MyId, text |-> line.text, to |-> <<"all">>]
           [] line.recipient.kind = "name" ->
                ToPeer("Chat", id_by_nickname_[line.recipient.name], line.text)
           [] OTHER -> ToNumber("Chat", line.recipient, line.text)

-------------------------------------------------------------------------------
(* transport_->send(), up to the first send() of write_exact().              *)

write_frame(thread, m, asked) ==
  sending' = [sending EXCEPT ![thread] =
                [left |-> encode(m), begun |-> FALSE, fits |-> fits(m),
                 meaning |-> IF asked = NoId THEN understood(m) ELSE asked]]

begins(thread) ==
  /\ connection = "up"
  /\ thread \in Threads /\ sending[thread] = Idle
  /\ frames < MaxFrames /\ frames' = frames + 1
  /\ UNCHANGED <<end, room, wire, reading, received, history>>

(* So does /exit, and an exception that leaves the input loop.               *)
process_ends ==
  /\ connection' = "closed"
  /\ sending' = [thread \in Threads |-> Idle]

nothing_sent == UNCHANGED <<connection, sending, key_offered_to_>>

offer_due_to_0(peer_id) == peer_id # MyId /\ peer_id \notin key_offered_to_

offer_due(peer_id) == peer_id # 0 /\ peer_id # MyId /\ peer_id \notin key_offered_to_

send_key_offer(thread, peer_id, asked) ==
  IF offer_due(peer_id)
  THEN /\ key_offered_to_' = key_offered_to_ \union {peer_id}
       /\ write_frame(thread, build_by_id("KeyOffer", MyId, peer_id, <<MyId>>), asked)
       /\ UNCHANGED connection
  ELSE nothing_sent

(* A text or a list that cannot be encoded: no one catches the exception.    *)
send(thread, m, asked) ==
  IF encode(m) = Throws THEN process_ends
  ELSE write_frame(thread, m, asked) /\ UNCHANGED connection

send_input(m, asked) == send("input", m, asked) /\ UNCHANGED key_offered_to_

send_encrypted_chat_by_id(recipient_id, text, asked) ==
  IF recipient_id \in Peers
  THEN send_input(build_by_id("Chat", MyId, recipient_id, text), asked)
  ELSE nothing_sent

send_encrypted_chat_by_nickname(nickname, text, asked) ==
  IF nickname \in DOMAIN id_by_nickname_
  THEN send_encrypted_chat_by_id(id_by_nickname_[nickname], text, asked)
  ELSE nothing_sent

send_encrypted_broadcast(text, asked) ==
  \/ send_input(build_chat_broadcast(MyId, text), asked)
  \/ nothing_sent                                  \* there is no room key yet

handle_input_command(command, line) ==
  IF command = Throws \/ command.type = "Exit"
  THEN process_ends /\ UNCHANGED key_offered_to_
  ELSE CASE command.type = "Invalid" -> nothing_sent
         [] command.type = "ListUsers" -> send_input([type |-> "ListUsers"], Asked(line))
         [] command.type = "KeyOffer" -> send_key_offer("input", command.id, Asked(line))
         [] command.type = "ChatById" ->
              send_encrypted_chat_by_id(command.id, command.text, Asked(line))
         [] command.type = "ChatByNickname" ->
              send_encrypted_chat_by_nickname(command.nickname, command.text, Asked(line))
         [] command.type = "ChatBroadcast" ->
              send_encrypted_broadcast(command.text, Asked(line))

type_line(line) ==
  /\ begins("input")
  /\ handle_input_command(parse_input_line(line), line)
  /\ UNCHANGED banned_ids_

(* maybe_send_room_key() and what a handler of the server sends.             *)
send_from_handler(thread, m) ==
  /\ thread # "input" /\ begins(thread)
  /\ write_frame(thread, m, understood(m))
  /\ UNCHANGED <<connection, key_offered_to_, banned_ids_>>

send_offer_from_handler(peer_id) ==
  /\ begins("receiver")
  /\ offer_due(peer_id)
  /\ send_key_offer("receiver", peer_id, ToPeer("KeyOffer", peer_id, <<MyId>>))
  /\ UNCHANGED banned_ids_

(* ban_ids() and broadcast_banned_ids(), to a client that is not banned.     *)
newly_banned(ids) ==
  LET list[k \in 0 .. Len(ids)] ==
        IF k = 0 THEN <<>>
        ELSE IF ids[k] \in banned_ids_ \union Range(list[k - 1]) THEN list[k - 1]
        ELSE Append(list[k - 1], ids[k])
  IN list[Len(ids)]

ban_ids(line) ==
  LET ids == newly_banned(parse_admin_command(line)) IN
  /\ end = "server" /\ begins("loop")
  /\ banned_ids_' = banned_ids_ \union Range(ids)
  /\ IF ids = <<>> THEN UNCHANGED <<connection, sending>>
     ELSE send("loop", [type |-> "BannedIds", ids |-> ids], Asked(line))
  /\ UNCHANGED key_offered_to_

-------------------------------------------------------------------------------
(* write_exact(): send() takes what there is room for and holds the socket   *)
(* meanwhile; when it waits for room another thread may send.                *)

chunk(left) == IF Len(left) < room - Len(wire) THEN Len(left) ELSE room - Len(wire)

write_exact(thread) ==
  LET frame == sending[thread]
      n == chunk(frame.left)
  IN /\ connection = "up" /\ frame # Idle /\ Len(wire) < room
     /\ wire' = wire \o SubSeq(frame.left, 1, n)
     /\ sending' = [sending EXCEPT ![thread] =
                       IF n = Len(frame.left) THEN Idle
                       ELSE [frame EXCEPT !.left = from(frame.left, n), !.begun = TRUE]]
     /\ meant' = IF frame.begun THEN meant ELSE Append(meant, frame.meaning)
     /\ torn' = (torn \/ \E other \in Threads \ {thread} : sending[other].begun)
     /\ too_long' = (too_long \/ ~frame.fits)
     /\ UNCHANGED <<end, room, connection, frames, key_offered_to_, banned_ids_,
                    reading, received>>

(* send() fails once the connection is gone; a key that was not sent is not  *)
(* offered.                                                                  *)
write_fails(thread) ==
  LET frame == sending[thread] IN
  /\ connection = "lost" /\ frame # Idle
  /\ sending' = [sending EXCEPT ![thread] = Idle]
  /\ key_offered_to_' = IF frame.meaning.type = "KeyOffer"
                        THEN key_offered_to_ \ {frame.meaning.to[2]} ELSE key_offered_to_
  /\ UNCHANGED <<end, room, connection, frames, banned_ids_, wire, reading, received, history>>

(* The writer exits or crashes, possibly within a frame.                     *)
hang_up ==
  /\ connection = "up"
  /\ process_ends
  /\ UNCHANGED <<end, room, frames, key_offered_to_, banned_ids_, wire, reading,
                 received, history>>

-------------------------------------------------------------------------------
(* read_frame(): read_exact() for the header, then for the length it says.   *)

size(bytes) ==
  IF Len(bytes) < kMbapHeaderSize THEN kMbapHeaderSize
  ELSE kMbapHeaderSize + read_u16_be(from(bytes, 4))

(* read() returns what has arrived, at most what is missing.                 *)
take(missing) == IF Len(wire) < missing THEN Len(wire) ELSE missing

(* A length of zero is given up; a frame that cannot be decoded is reported. *)
read_frame ==
  LET n == take(size(reading) - Len(reading))
      bytes == reading \o SubSeq(wire, 1, n)
      complete == Len(bytes) = size(bytes)
      empty == complete /\ Len(bytes) = kMbapHeaderSize
  IN /\ connection # "lost" /\ wire # <<>>
     /\ wire' = from(wire, n)
     /\ reading' = IF complete THEN <<>> ELSE bytes
     /\ received' = IF complete /\ ~empty
                    THEN Append(received, decode_app_message(from(bytes, kMbapHeaderSize)))
                    ELSE received
     /\ connection' = IF empty THEN "lost" ELSE connection
     /\ UNCHANGED <<end, room, writers, history>>

(* End of file, or a hang-up, which read_exact() puts before what is left.   *)
read_fails ==
  /\ connection = "closed" /\ connection' = "lost"
  /\ UNCHANGED <<end, room, writers, wire, reading, received, history>>

-------------------------------------------------------------------------------
FramingInit ==
  /\ end \in Ends /\ room \in Rooms
  /\ connection = "up"
  /\ sending = [thread \in Threads |-> Idle]
  /\ frames = 0
  /\ key_offered_to_ = {} /\ banned_ids_ = {}
  /\ wire = <<>> /\ reading = <<>> /\ received = <<>>
  /\ meant = <<>> /\ torn = FALSE /\ too_long = FALSE

FramingNext ==
  \/ \E line \in InputLines : type_line(line)
  \/ \E line \in AdminLines : ban_ids(line)
  \/ \E peer_id \in Peers : send_offer_from_handler(peer_id)
  \/ \E thread \in Threads : \/ \E m \in Messages[end] : send_from_handler(thread, m)
                             \/ write_exact(thread)
                             \/ write_fails(thread)
  \/ hang_up
  \/ read_frame
  \/ read_fails

(* The kernel moves bytes on; the reader comes back to the socket.           *)
FramingFairness ==
  /\ \A thread \in {"input", "receiver", "loop"} :
       WF_framing_vars(thread \in Threads /\ (write_exact(thread) \/ write_fails(thread)))
  /\ WF_framing_vars(read_frame)

FramingSpec == FramingInit /\ [][FramingNext]_framing_vars /\ FramingFairness

-------------------------------------------------------------------------------
(* The buffer is never overfilled, a thread that writes has bytes left, and  *)
(* offered keys and bans are for ids, never 0 or more than 32 bits, although *)
(* the number typed after "/key" may be reduced to 0.                        *)
FramingTypeOK ==
  /\ connection \in {"up", "closed", "lost"}
  /\ Len(wire) <= room
  /\ ~torn /\ ~too_long => Len(reading) < kMbapHeaderSize + U16
  /\ \A thread \in Threads : sending[thread] # Idle => sending[thread].left # <<>>
  /\ Len(meant) <= frames /\ frames <= MaxFrames
  /\ key_offered_to_ \subseteq 1 .. U32 - 1 /\ banned_ids_ \subseteq 1 .. U32 - 1

(* What the lines and handlers meant arrives: as long as no two threads      *)
(* wrote into each other's frames and no frame was longer than its length    *)
(* field, what read_frame and decode_app_message return is, in order and     *)
(* with nothing changed, lost in between or made up, what was asked for at   *)
(* the console (parsed, built, encoded, cut into pieces and put together     *)
(* again) or sent by a handler.  A number that is no id (NoId: 2^32 or more, *)
(* or negative) asks for nothing in particular: whatever the parsers made of *)
(* it is what must arrive.                                                   *)
ReceivedAsMeant ==
  ~torn /\ ~too_long =>
    /\ Len(received) <= Len(meant)
    /\ \A k \in 1 .. Len(received) : understood(received[k]) = meant[k]

(* Every frame of which a byte was sent is received, however it was cut:     *)
(* again and again nothing is on its way (the frames are finitely many),     *)
(* unless the writer hangs up, two threads mixed their frames or a frame was *)
(* too long.  For no other reason does read_frame give the connection up.    *)
EverythingArrives ==
  \/ <>(connection = "closed")
  \/ []<>(Len(received) = Len(meant) \/ torn \/ too_long)
===============================================================================
