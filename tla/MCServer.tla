-------------------------------- MODULE MCServer --------------------------------
(* ChatServer and ServerLoop for TLC.  When the handlers move, they are      *)
(* called in any order, for three descriptors, two nicknames beside the two  *)
(* that are refused, and bans of an id in use, a free id, an id not yet      *)
(* given out, 0 and several at once.  When the loop moves, it decides which  *)
(* of them is called, for at most MaxConnections clients at a time.          *)
EXTENDS ServerLoop, TLC

CONSTANTS
  n1, n2,
  MaxConnections   \* bound: clients that wait or are connected, in the loop

VARIABLE moving

MCNicknames == {NoNickname, kBroadcastRecipient, n1, n2}
MCBanLists == {{0, 1}, {2}, {1, 3}}
MCAdminLines == {{0, 1}, Invalid}
Symmetry == Permutations(Fds) \cup Permutations({n1, n2})

HandlersStep == moving = "handlers" /\ Next /\ UNCHANGED <<moving, loop, admin_queue_, listening, net>>

LoopStep ==
  /\ moving = "loop" /\ LoopNext /\ UNCHANGED moving
  /\ backlog' + Cardinality(all_fds') <= MaxConnections

MCSpec ==
  /\ LoopInit /\ moving \in {"handlers", "loop"}
  /\ [][HandlersStep \/ LoopStep]_<<moving, loopvars>>
=================================================================================
