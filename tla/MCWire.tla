-------------------------------- MODULE MCWire ---------------------------------
(* Lines, messages and buffers for Framing.  With bytes that count to 4, ids *)
(* count to 256, lengths to 16 and std::stoul to 65536.                      *)
EXTENDS Framing, TLC

AllEnds == {"client", "server", "peer"}
SomeRooms == {5, 40}
Bob == <<3>>
Known == {2}
Nicknames == (Bob :> 2)
Hi == <<1>>
Long == <<1, 2>>                       \* one byte more than a frame has room for
Endless == [k \in 1 .. 16 |-> 0]       \* one byte more than a string may have

message(recipient, text) == [form |-> "message", recipient |-> recipient, text |-> text]

TypedLines ==
  { message(number(2), Hi), message(number(3), Hi), message(name(Bob), <<>>),
    message(name(<<>>), Hi), message(all, Long),
    message(number(2), Long), message(number(258), Hi), message(number(65536), Hi),
    message(all, Endless),
    [form |-> "/users"], [form |-> "/exit"], [form |-> ""],
    [form |-> "/key", argument |-> number(2)], [form |-> "/key", argument |-> number(256)],
    [form |-> "/key", argument |-> mixed(2)], [form |-> "/key", argument |-> nothing] }

BanLines ==
  { [form |-> "ban:", ids |-> <<number(2), number(2), nothing>>],
    [form |-> "ban:", ids |-> <<number(2), number(255)>>],
    [form |-> "ban:", ids |-> <<number(3), number(256)>>],
    [form |-> "ban:", ids |-> <<negative(1)>>],
    [form |-> "ban:", ids |-> <<number(3), nothing, number(2)>>],
    [form |-> "ban:", ids |-> <<nothing>>],
    [form |-> "ban:", ids |-> [k \in 1 .. 16 |-> number(k)]],  \* more than a list may have
    [form |-> "ban:", ids |-> <<negative(65535)>>],            \* wraps to 1
    [form |-> "help"] }

Anna == [id |-> 1, nickname |-> <<1, 2>>]
Carl == [id |-> 200, nickname |-> <<>>]

HandlerMessages ==
  [client |-> { build_by_id("RoomKeyOffer", 1, 2, <<2>>) },
   peer |-> { [type |-> "Register", nickname |-> <<1, 2>>],
              build_chat_by_nickname(1, Bob, Hi), build_chat_broadcast(1, Hi) },
   server |-> { [type |-> "AssignId", id |-> 200, create_room |-> TRUE],
                [type |-> "UserJoined", id |-> 1, nickname |-> <<1, 2>>],
                [type |-> "UserLeft", id |-> 200, nickname |-> <<>>],
                [type |-> "UsersList", users |-> <<>>],
                [type |-> "UsersList", users |-> <<Carl>>],
                [type |-> "UsersList", users |-> <<Anna, Carl>>],     \* too long
                [type |-> "Deliver", from_id |-> 200, text |-> Hi],
                [type |-> "PeerKey", from_id |-> 2, text |-> Hi],
                [type |-> "RoomKey", from_id |-> 2, text |-> Long],
                [type |-> "Error", text |-> Hi] }]
===============================================================================
