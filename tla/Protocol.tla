------------------------------- MODULE Protocol -------------------------------
(* The bytes on the wire: protocol::encode_* and decode_app_message, and the *)
(* Modbus TCP frames (MBAP header and PDU) they travel in.                   *)
(*                                                                           *)
(* A byte counts to Radix, 256 in the code, so that a 16-bit field counts to *)
(* Radix^2 and a 32-bit field to Radix^4: a small Radix lets an instance     *)
(* reach the limits of both.  The function code, the type codes and the tags *)
(* are bytes too, whatever Radix is; nothing is claimed of a reader that     *)
(* takes them for part of a number.  A string is a sequence of bytes.        *)
EXTENDS Naturals, Sequences, Functions

CONSTANTS
  Radix,
  Throws     \* the result of a function that throws

ASSUME RadixAssumption == Radix \in Nat /\ Radix >= 2

ASSUME ThrowsAssumption == Throws \notin Seq(Nat)

U16 == Radix * Radix
U32 == U16 * U16
kMaxU16Count == U16 - 1

kRecipientById == 1
kRecipientByNickname == 2
kRecipientBroadcast == 3

MsgType == [Register |-> 1, AssignId |-> 2, Chat |-> 3, Deliver |-> 4, Error |-> 5,
            UserJoined |-> 6, UserLeft |-> 7, ListUsers |-> 8, UsersList |-> 9,
            KeyOffer |-> 10, RoomKeyOffer |-> 11, BannedIds |-> 12, PeerKey |-> 13,
            RoomKey |-> 14]

ChatTypes == {"Chat", "KeyOffer", "RoomKeyOffer"}
DeliverTypes == {"Deliver", "PeerKey", "RoomKey"}

-------------------------------------------------------------------------------
(* Numbers.  The conversion to the field's type drops what does not fit.     *)

write_u16_be(n) == <<(n \div Radix) % Radix, n % Radix>>

read_u16_be(data) == data[1] * Radix + data[2]

write_u32_be(n) == write_u16_be(n \div U16) \o write_u16_be(n % U16)

read_u32_be(data) == read_u16_be(data) * U16 + read_u16_be(SubSeq(data, 3, 4))

from(data, offset) == SubSeq(data, offset + 1, Len(data))

(* One part or more, each inserted behind the ones before it.                *)
inserted(parts) ==
  LET data[k \in 1 .. Len(parts)] ==
        IF k = 1 THEN parts[k] ELSE data[k - 1] \o parts[k]
  IN data[Len(parts)]

(* Parts of a payload, if none of them threw.                                *)
joined(parts) ==
  IF Throws \in Range(parts) THEN Throws ELSE inserted(parts)

-------------------------------------------------------------------------------
(* Strings and lists have a 16-bit count in front.                           *)

encode_string(value) ==
  IF Len(value) > kMaxU16Count THEN Throws ELSE write_u16_be(Len(value)) \o value

decode_string(data) ==
  IF Len(data) < 2 THEN Throws
  ELSE IF Len(data) < 2 + read_u16_be(data) THEN Throws
  ELSE SubSeq(data, 3, 2 + read_u16_be(data))

encode_user_info(info) == joined(<<write_u32_be(info.id), encode_string(info.nickname)>>)

decode_user_info(data) ==
  IF Len(data) < 4 THEN Throws
  ELSE LET nickname == decode_string(from(data, 4)) IN
       IF nickname = Throws THEN Throws
       ELSE [id |-> read_u32_be(data), nickname |-> nickname]

(* The entries, each encoded, behind their number.                           *)
encode_list(entries) ==
  IF Len(entries) > kMaxU16Count THEN Throws
  ELSE joined(<<write_u16_be(Len(entries))>> \o entries)

(* Each entry begins where the one before ended.                             *)
next_user(list) ==
  IF list = Throws THEN Throws
  ELSE LET info == decode_user_info(list.rest) IN
       IF info = Throws THEN Throws
       ELSE [users |-> Append(list.users, info),
             rest |-> from(list.rest, 6 + Len(info.nickname))]

decode_users(data) ==
  LET count == read_u16_be(data)
      list[k \in 0 .. count] ==
        IF k = 0 THEN [users |-> <<>>, rest |-> from(data, 2)] ELSE next_user(list[k - 1])
  IN list[count]

-------------------------------------------------------------------------------
(* Payloads.                                                                 *)

encode_payload(m) ==
  CASE m.type = "Register" -> encode_string(m.nickname)
    [] m.type = "AssignId" -> write_u32_be(m.id) \o <<IF m.create_room THEN 1 ELSE 0>>
    [] m.type \in ChatTypes ->
         joined(<<write_u32_be(m.from_id), <<m.recipient_tag>>, m.recipient_data,
                  encode_string(m.text)>>)
    [] m.type \in DeliverTypes -> joined(<<write_u32_be(m.from_id), encode_string(m.text)>>)
    [] m.type = "Error" -> encode_string(m.text)
    [] m.type \in {"UserJoined", "UserLeft"} -> encode_user_info(m)
    [] m.type = "ListUsers" -> <<>>
    [] m.type = "UsersList" ->
         encode_list([k \in DOMAIN m.users |-> encode_user_info(m.users[k])])
    [] m.type = "BannedIds" -> encode_list([k \in DOMAIN m.ids |-> write_u32_be(m.ids[k])])

(* A message with a field that was decoded, if that did not throw.           *)
with(field, m) == IF field = Throws THEN Throws ELSE m

decode_chat_payload(type, data) ==
  IF Len(data) < 5 THEN Throws
  ELSE LET tag == data[5]
           nickname == decode_string(from(data, 5))
           recipient_data ==
             CASE tag = kRecipientById -> IF Len(data) < 9 THEN Throws ELSE SubSeq(data, 6, 9)
               [] tag = kRecipientByNickname ->
                    IF nickname = Throws THEN Throws ELSE encode_string(nickname)
               [] tag = kRecipientBroadcast -> <<>>
               [] OTHER -> Throws
           text == decode_string(from(data, 5 + Len(recipient_data)))
       IN IF recipient_data = Throws THEN Throws
          ELSE with(text, [type |-> type, from_id |-> read_u32_be(data), recipient_tag |-> tag,
                           recipient_data |-> recipient_data, text |-> text])

decode_payload(type, data) ==
  CASE type = "Register" ->
         with(decode_string(data), [type |-> type, nickname |-> decode_string(data)])
    [] type = "AssignId" ->
         IF Len(data) < 4 THEN Throws
         ELSE [type |-> type, id |-> read_u32_be(data),
               create_room |-> Len(data) > 4 /\ data[5] # 0]
    [] type \in ChatTypes -> decode_chat_payload(type, data)
    [] type \in DeliverTypes ->
         IF Len(data) < 4 THEN Throws
         ELSE LET text == decode_string(from(data, 4)) IN
              with(text, [type |-> type, from_id |-> read_u32_be(data), text |-> text])
    [] type = "Error" -> with(decode_string(data), [type |-> type, text |-> decode_string(data)])
    [] type \in {"UserJoined", "UserLeft"} ->
         LET info == decode_user_info(data) IN
         with(info, [type |-> type, id |-> info.id, nickname |-> info.nickname])
    [] type = "ListUsers" -> [type |-> type]
    [] type = "UsersList" ->
         LET list == IF Len(data) < 2 THEN Throws ELSE decode_users(data) IN
         with(list, [type |-> type, users |-> list.users])
    [] type = "BannedIds" ->
         IF Len(data) < 2 THEN Throws
         ELSE IF Len(data) < 2 + 4 * read_u16_be(data) THEN Throws
         ELSE [type |-> type, ids |-> [k \in 1 .. read_u16_be(data) |->
                                         read_u32_be(SubSeq(data, 4 * k - 1, 4 * k + 2))]]

-------------------------------------------------------------------------------
(* Frames: transaction (0), protocol (0), length, unit (0), PDU.             *)

kMbapHeaderSize == 6
kAppFunctionCode == 65      \* 0x41
kTransactionId == 0
kProtocolId == 0

(* The length of unit and PDU, cut to 16 bits.                               *)
length_of_frame(pdu) == (Len(pdu) + 7) % U16

length_field(pdu) == (Len(pdu) + 1) % U16

pdu_of(type, payload) == <<kAppFunctionCode, MsgType[type]>> \o payload

encode(m) ==
  LET payload == encode_payload(m)
      pdu == pdu_of(m.type, payload)
  IN IF payload = Throws THEN Throws
     ELSE write_u16_be(kTransactionId) \o write_u16_be(kProtocolId)
            \o write_u16_be(length_field(pdu)) \o <<0>> \o pdu

(* What follows the header of a frame: unit and PDU.                         *)
decode_app_message(rest) ==
  LET pdu == from(rest, 1) IN
  IF Len(pdu) < 2 THEN Throws
  ELSE IF pdu[1] # kAppFunctionCode THEN Throws
  ELSE IF pdu[2] \notin Range(MsgType) THEN Throws
  ELSE decode_payload(CHOOSE type \in DOMAIN MsgType : MsgType[type] = pdu[2], from(pdu, 2))

fits(m) == Len(encode_payload(m)) + 3 < U16

-------------------------------------------------------------------------------
(* The messages that can be encoded: what the code's types and the limits of *)
(* encode_string and encode_list allow.  A recipient is four bytes of an id, *)
(* an encoded nickname, or nothing.                                          *)

Ids == 0 .. U32 - 1
Strings == {value \in Seq(Nat) : Len(value) <= kMaxU16Count}
UserInfos == [id : Ids, nickname : Strings]
UserLists == [users : Seq(UserInfos), rest : Seq(Nat)]

addressed(m) ==
  \/ m.recipient_tag = kRecipientById /\ Len(m.recipient_data) = 4
  \/ /\ m.recipient_tag = kRecipientByNickname
     /\ decode_string(m.recipient_data) \in Strings
     /\ m.recipient_data = encode_string(decode_string(m.recipient_data))
  \/ m.recipient_tag = kRecipientBroadcast /\ m.recipient_data = <<>>

ChatMessages ==
  {m \in [type : ChatTypes, from_id : Ids, recipient_tag : Nat, recipient_data : Seq(Nat),
          text : Strings] : addressed(m)}

ListMessages ==
  {m \in [type : {"UsersList"}, users : Seq(UserInfos)] : Len(m.users) <= kMaxU16Count}
  \union {m \in [type : {"BannedIds"}, ids : Seq(Ids)] : Len(m.ids) <= kMaxU16Count}

PlainMessages ==
  [type : {"Register"}, nickname : Strings]
  \union [type : {"AssignId"}, id : Ids, create_room : BOOLEAN]
  \union [type : DeliverTypes, from_id : Ids, text : Strings]
  \union [type : {"Error"}, text : Strings]
  \union [type : {"UserJoined", "UserLeft"}, id : Ids, nickname : Strings]
  \union [type : {"ListUsers"}]

AppMessages == PlainMessages \union ChatMessages \union ListMessages

ASSUME ResultsAssumption == Throws \notin AppMessages \union UserInfos \union UserLists
===============================================================================
