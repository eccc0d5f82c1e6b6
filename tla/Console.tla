-------------------------------- MODULE Console --------------------------------
(* What the consoles make of a line: parse_input_line of the client (with    *)
(* Message.hpp) and parse_admin_command of the server, and the messages that *)
(* OutgoingMessageBuilder makes of the client's commands.                    *)
(*                                                                           *)
(* A line is a record of its parts.  Between its separators it has tokens:   *)
(* a number (possibly with a minus sign), a number with something behind it, *)
(* the word "all", another name, or nothing.                                 *)
EXTENDS Protocol

U64 == U32 * U32

number(value) == [kind |-> "number", value |-> value]
negative(value) == [kind |-> "negative", value |-> value]
mixed(value) == [kind |-> "mixed", value |-> value]
name(bytes) == [kind |-> "name", name |-> bytes]
all == [kind |-> "all"]
nothing == [kind |-> "nothing"]

Tokens == [kind : {"number", "negative", "mixed"}, value : Nat]
            \union [kind : {"name"}, name : Seq(Nat)] \union {all, nothing}

(* std::stoul with 64-bit long: the value, which a minus sign wraps.         *)
stoul(token) ==
  IF token.kind \in {"name", "all", "nothing"} THEN Throws
  ELSE IF token.value >= U64 THEN Throws
  ELSE IF token.kind = "negative" THEN (U64 - token.value) % U64
  ELSE token.value

consumed_all(token) == token.kind # "mixed"

-------------------------------------------------------------------------------
(* The client: "/users", "/exit", "/key <id>", "<who>:<text>", "all:<text>". *)

Invalid == [type |-> "Invalid"]

parse_key(token) ==
  IF token.kind = "nothing" THEN Invalid
  ELSE IF stoul(token) = Throws THEN Invalid
  ELSE IF ~consumed_all(token) \/ stoul(token) = 0 THEN Invalid
  ELSE [type |-> "KeyOffer", id |-> stoul(token) % U32]

is_numeric_recipient(token) == token.kind = "number"

(* The number is not checked and the exception of stoul is not caught.       *)
parse_id_message(line) ==
  IF stoul(line.recipient) = Throws THEN Throws
  ELSE [type |-> "ChatById", id |-> stoul(line.recipient) % U32, text |-> line.text]

parse_nickname_message(line) ==
  IF line.recipient = all THEN [type |-> "ChatBroadcast", text |-> line.text]
  ELSE [type |-> "ChatByNickname", nickname |-> line.recipient.name, text |-> line.text]

parse_input_line(line) ==
  CASE line.form = "/users" -> [type |-> "ListUsers"]
    [] line.form = "/exit" -> [type |-> "Exit"]
    [] line.form = "/key" -> parse_key(line.argument)
    [] line.form = "message" -> IF is_numeric_recipient(line.recipient)
                                THEN parse_id_message(line)
                                ELSE parse_nickname_message(line)
    [] OTHER -> Invalid

(* The commands, and the lines whose parts are of the right kind.            *)
Commands == [type : {"Invalid", "ListUsers", "Exit"}]
              \union [type : {"KeyOffer"}, id : Ids]
              \union [type : {"ChatById"}, id : Ids, text : Seq(Nat)]
              \union [type : {"ChatByNickname"}, nickname : Seq(Nat), text : Seq(Nat)]
              \union [type : {"ChatBroadcast"}, text : Seq(Nat)]

Lines == [form : {"/users", "/exit", ""}]
           \union [form : {"/key"}, argument : Tokens]
           \union {line \in [form : {"message"}, recipient : Tokens, text : Seq(Nat)] :
                     line.recipient.kind \in {"number", "name", "all"}}

AdministratorLines == [form : {"help"}] \union [form : {"ban:"}, ids : Seq(Tokens) \ {<<>>}]

ASSUME CommandsAssumption == Throws \notin Nat \union Commands

build_chat_like(type, from_id, tag, recipient_data, text) ==
  [type |-> type, from_id |-> from_id, recipient_tag |-> tag,
   recipient_data |-> recipient_data, text |-> text]

build_by_id(type, from_id, recipient_id, body) ==
  build_chat_like(type, from_id, kRecipientById, write_u32_be(recipient_id), body)

(* For a nickname that can be encoded.                                       *)
build_chat_by_nickname(from_id, recipient, text) ==
  build_chat_like("Chat", from_id, kRecipientByNickname, encode_string(recipient), text)

build_chat_broadcast(from_id, text) ==
  build_chat_like("Chat", from_id, kRecipientBroadcast, <<>>, text)

-------------------------------------------------------------------------------
(* The administrator: "ban:" and a list separated by commas.  getline() does *)
(* not see an empty token behind the last comma.                             *)

getline_tokens(ids_part) ==
  LET last == Len(ids_part) IN
  IF ids_part[last] = nothing THEN SubSeq(ids_part, 1, last - 1) ELSE ids_part

bannable_id_unchecked(token) ==
  stoul(token) # Throws /\ consumed_all(token) /\ stoul(token) # 0

bannable_id(token) ==
  /\ stoul(token) # Throws /\ consumed_all(token)
  /\ stoul(token) # 0 /\ stoul(token) < U32

(* The ids to ban, none if the help text is shown: one bad token spoils the  *)
(* line.                                                                     *)
parse_admin_command(line) ==
  IF line.form # "ban:" \/ line.ids = <<nothing>> THEN <<>>
  ELSE LET tokens == getline_tokens(line.ids) IN
       IF \A k \in DOMAIN tokens : bannable_id(tokens[k])
       THEN [k \in DOMAIN tokens |-> stoul(tokens[k]) % U32]
       ELSE <<>>
===============================================================================
