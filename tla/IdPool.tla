-------------------------------- MODULE IdPool --------------------------------
(* What the server promises about client ids: a client that joins gets the   *)
(* smallest id that nobody has and that is not banned; an id is held by one  *)
(* client at a time; a ban is for ever.  ChatServer keeps this promise with  *)
(* a set of returned ids and a counter.                                      *)
EXTENDS Naturals

CONSTANT MaxId      \* bound: the largest id

VARIABLES
  used,             \* ids of the connected clients
  banned            \* ids banned so far

Join ==
  \E id \in (1 .. MaxId) \ (used \cup banned) :
    /\ \A n \in 1 .. id - 1 : n \in used \cup banned
    /\ used' = used \cup {id}
    /\ UNCHANGED banned

Leave == \E id \in used : used' = used \ {id} /\ UNCHANGED banned

LeaveAll == used' = {} /\ UNCHANGED banned

Ban == \E ids \in SUBSET (1 .. MaxId) : banned' = banned \cup ids /\ UNCHANGED used

Init == used = {} /\ banned = {}

Next == Join \/ Leave \/ LeaveAll \/ Ban

Spec == Init /\ [][Next]_<<used, banned>>
===============================================================================
