----------------------------- MODULE MCChatSystem -----------------------------
(* ChatSystem for TLC.                                                       *)
EXTENDS ChatSystem, TLC

CONSTANTS n1

KeyCommands == [type : {"KeyOffer"}, id : 1 .. 2]
ChatCommands == [type : {"ChatById"}, id : 1 .. MaxId]
AllCommands == KeyCommands \cup ChatCommands
  \cup {[type |-> "ListUsers"], [type |-> "ChatBroadcast"],
        [type |-> "ChatByNickname", nickname |-> n1]}
NoCommands == {}
Unnamed == {NoNickname}
OneNickname == {NoNickname, n1}
NoBans == {}
OneBan == {{2}}
UserSymmetry == Permutations(Users)
===============================================================================
