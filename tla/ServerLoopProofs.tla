--------------------------- MODULE ServerLoopProofs ---------------------------
(* ServerLoop implements ChatServer, so that what is proved of the handlers  *)
(* under any order of events holds under the order run() gives them; and the *)
(* passes over pollfds keep its entries, the registry and the sockets in     *)
(* step, for any number of descriptors, frames and admin lines.              *)
EXTENDS ServerLoop, ChatServerProofs, FiniteSetTheorems, WellFoundedInduction

(* Lines are what the administrator typed, and run() is in the loop over     *)
(* them only while there are some.                                           *)
Queues ==
  /\ lines \in Seq(AdminLines) /\ admin_queue_ \in Seq(AdminLines)
  /\ pc = "admin" => lines # <<>>

(* process_admin_queue() takes the whole queue at once and empties it line   *)
(* by line; everything else leaves both alone, but for the console thread.   *)
LEMMA QueuesSafe == LoopSpec => []Queues
<1>1. LoopInit => Queues
  BY DEF LoopInit, Queues
<1>2. Queues /\ [LoopNext]_loopvars => Queues'
  <2> SUFFICES ASSUME Queues, [LoopNext]_loopvars PROVE Queues'
    BY Zenon
  <2>1. CASE open
    BY <2>1, Zenon DEF open, Queues
  <2>2. CASE while_running
    <3>1. CASE running_
      BY <2>2, <3>1, SMTT(40) DEF while_running, Queues
    <3>2. CASE ~running_
      BY <2>2, <3>2, SMTT(40) DEF while_running, Queues
    <3> QED BY <3>1, <3>2
  <2>3. CASE process_admin_queue
    BY <2>3, SMTT(40) DEF process_admin_queue, Queues
  <2>4. CASE poll
    BY <2>4, SMTT(40) DEF poll, Queues
  <2>5. CASE hangup_pass
    BY <2>5, SMTT(40) DEF hangup_pass, Queues
  <2>6. CASE input_pass
    BY <2>6, Zenon DEF input_pass, Queues
  <2>7. CASE exit
    BY <2>7, Zenon DEF exit, Queues
  <2>8. CASE stop_signal \/ network \/ UNCHANGED loopvars
    BY <2>8, Zenon DEF stop_signal, network, loopvars, loop, Queues
  <2>9. CASE submit_admin_line
    BY <2>9 DEF submit_admin_line, loop, Queues
  <2> QED BY <2>1, <2>2, <2>3, <2>4, <2>5, <2>6, <2>7, <2>8, <2>9, ZenonT(40) DEF LoopNext, run
<1> QED BY <1>1, <1>2, PTL DEF LoopSpec

(* A step of the loop, of the console thread, of the signal handler or of    *)
(* the network is a step of ChatServer: a handler is called for a client     *)
(* that is registered, with a message that client can have sent, and ban_ids *)
(* with a list the administrator typed.                                      *)
LEMMA StepImplements ==
  ASSUME Queues, TypeOK, LoopNext
  PROVE  Next
<1>1. CASE open \/ while_running \/ poll \/ submit_admin_line \/ network
  BY <1>1, SMTT(40) DEF open, while_running, poll, submit_admin_line, network, Next
<1>2. CASE process_admin_queue
  <2>1. Head(lines) \in AdminLines
    BY <1>2 DEF Queues, process_admin_queue
  <2>2. Head(lines) # Invalid => Head(lines) \in BanLists
    BY <2>1, LoopConstants
  <2> QED BY <1>2, <2>2 DEF process_admin_queue, Next
<1>3. CASE hangup_pass
  <2>1. idle \/ \E fd \in all_fds : hangup(fd)
    BY <1>3 DEF hangup_pass
  <2> QED BY <2>1, Zenon DEF Next, TypeOK
<1>4. CASE input_pass
  <2>1. \/ idle \/ \E fd \in Fds : accept_client(fd)
        \/ \E k : read(k)
    BY <1>4, Zenon DEF input_pass, accept
  <2>2. CASE \E k : read(k)
    <3>1. PICK k : read(k)
      BY <2>2
    <3> DEFINE fd == pollfds[k].fd
    <3>2. \E m \in Input[fd] \cup {NoMsg} : handle_client_data(fd, m)
      BY <3>1, ZenonT(40) DEF read
    <3>3. fd \in Fds
      BY <3>2 DEF handle_client_data, TypeOK
    <3>4. Input[fd] \subseteq Requests[fd]
      BY <3>3, Zenon DEF Input
    <3> QED BY <3>2, <3>3, <3>4, ZenonT(40) DEF Next
  <2> QED BY <2>1, <2>2, ZenonT(40) DEF Next
<1>5. CASE exit \/ stop_signal
  BY <1>5, Zenon DEF exit, stop_signal, Next
<1> QED BY <1>1, <1>2, <1>3, <1>4, <1>5, SMTT(40) DEF LoopNext, run

(* run() implements ChatServer: whatever poll() returns, and whenever a stop *)
(* comes, the handlers are called as ChatServer allows.                      *)
THEOREM LoopImplementsServer == LoopSpec => Spec
<1>1. LoopInit => Init
  BY Zenon DEF LoopInit
<1>2. Safe /\ Queues /\ [LoopNext]_loopvars => [Next]_vars
  BY StepImplements, Zenon DEF loopvars, Safe, IInv
<1>3. Safe /\ [Next]_vars => Safe'
  BY StepSafe
<1> QED BY <1>1, <1>2, <1>3, InitSafe, QueuesSafe, PTL DEF LoopSpec, Spec

(* So the registry, the ids and the silence of banned clients are right in   *)
(* every state of run(), stopped or not.                                     *)
THEOREM LoopSafety == LoopSpec => [](RegistryConsistent /\ IdsAccounted /\ BannedSilent)
BY LoopImplementsServer, Safety, PTL DEF Safe, IInv

-------------------------------------------------------------------------------
(* pollfds.                                                                  *)

(* What the kernel knows of the connections.                                 *)
NetTypes ==
  /\ peer \in [Fds -> PeerStates] /\ frames \in [Fds -> Nat] /\ partial \in [Fds -> BOOLEAN]

Looping == {"while", "admin", "poll", "hangups", "input"}

PollFd == [fd : Fds \cup {ListenFd, NoFd}, revents : SUBSET {"in", "hup"}]

(* An entry is the listening socket, a connected client or one to be erased, *)
(* and no descriptor has two: the passes forget the entry of a client in the *)
(* step that closes it, so that accept() can give its number to another.     *)
Entries ==
  /\ pollfds \in Seq(PollFd)
  /\ pc \in Looping => \A k \in DOMAIN pollfds : pollfds[k].fd \in all_fds \cup {ListenFd, NoFd}
  /\ \A j, k \in DOMAIN pollfds :
       pollfds[j].fd = pollfds[k].fd /\ pollfds[j].fd # NoFd => j = k
  /\ pc \in {"while", "admin", "poll"} => \A k \in DOMAIN pollfds : pollfds[k].fd # NoFd

(* Unless it stops, run() has an entry for each client, and the listening    *)
(* socket is open and comes first.                                           *)
Covered ==
  /\ pc = "start" => all_fds = {}
  /\ pc \in Looping /\ running_ =>
       /\ listening /\ pollfds # <<>> /\ pollfds[1].fd = ListenFd
       /\ \A fd \in all_fds : \E k \in DOMAIN pollfds : pollfds[k].fd = fd

(* A read of this connection would not find it idle.                         *)
readable(fd) == hung_up(fd) \/ frames[fd] > 0 \/ partial[fd] \/ peer[fd] # "up"

(* The snapshot is not outgrown: what was readable stays so until it is read.*)
Ready ==
  pc \in {"hangups", "input"} =>
    \A k \in DOMAIN pollfds :
      pollfds[k].fd \in all_fds /\ "in" \in pollfds[k].revents => readable(pollfds[k].fd)

(* A banned client has been shut down, so poll() reported a hang-up for it,  *)
(* and the first pass removes it.                                            *)
BannedLeave ==
  /\ pc = "hangups" /\ running_ =>
       \A fd \in all_fds : is_banned(clients_by_fd_[fd].id) =>
         \E k \in 2 .. Len(pollfds) : pollfds[k].fd = fd /\ "hup" \in pollfds[k].revents
  /\ BannedGoneBeforeReads

(* The inductive invariant of run().                                         *)
LoopInv == NetTypes /\ Entries /\ Covered /\ Ready /\ BannedLeave

-------------------------------------------------------------------------------
(* Facts the steps below use.                                                *)

(* A set of numbers has a least one.                                         *)
LEMMA Least ==
  ASSUME NEW S, S \subseteq Nat, S # {}
  PROVE  \E m \in S : \A n \in S : m <= n
<1> DEFINE R == OpToRel(<, Nat)
<1>1. IsWellFoundedOn(R, Nat)
  BY NatLessThanWellFounded, Zenon
<1>2. \A y, x \in Nat : y < x => <<y, x>> \in R
  BY DEF OpToRel
<1> HIDE DEF R
<1>3. PICK x \in S : \A y \in S : ~(<<y, x>> \in R)
  BY <1>1, WFMin, Zenon
<1>4. \A y \in S : ~(y < x)
  BY <1>2, <1>3, Zenon
<1> QED BY <1>4, SMTT(40)

(* The entry a pass comes to next is one of those that wait for it.          *)
LEMMA NextPending ==
  ASSUME NEW event, NEW first \in Nat \ {0}, pending(event, first) # {},
         NEW T, pollfds \in Seq(T)
  PROVE  LET k == Min(pending(event, first)) IN
         /\ k \in DOMAIN pollfds /\ k >= first
         /\ pollfds[k].fd # NoFd /\ event \in pollfds[k].revents
<1>1. pending(event, first) \subseteq Nat
  BY DEF pending
<1>2. Min(pending(event, first)) \in pending(event, first)
  BY <1>1, Least, Zenon DEF Min
<1>3. \A k \in pending(event, first) :
        /\ k \in DOMAIN pollfds /\ k >= first
        /\ pollfds[k].fd # NoFd /\ event \in pollfds[k].revents
  BY DEF pending
<1> QED BY <1>2, <1>3

(* A step in which no handler runs.                                          *)
LEMMA IdleFacts ==
  ASSUME idle
  PROVE  /\ UNCHANGED <<clients_by_fd_, all_fds, live_ids>>
         /\ UNCHANGED <<banned_ids_, running_, shut>>
BY DEF idle, registry, ids, all_fds, live_ids

(* remove_client() takes one client out and changes no other one's id.       *)
LEMMA RemovedFacts ==
  ASSUME Safe, NEW fd \in all_fds, remove_client(fd)
  PROVE  /\ all_fds' = all_fds \ {fd} /\ shut' = shut \ {fd}
         /\ live_ids' \subseteq live_ids
         /\ \A f \in all_fds' : clients_by_fd_'[f] = clients_by_fd_[f]
         /\ UNCHANGED <<banned_ids_, running_>>
<1>1. registry_remove(fd) /\ shut' = shut \ {fd} /\ UNCHANGED <<banned_ids_, running_>>
  BY Zenon DEF remove_client
<1> QED BY <1>1, RemoveFacts, Zenon DEF Safe

(* accept_client() adds one client, whose id is not banned.                  *)
LEMMA AcceptedFacts ==
  ASSUME Safe, NEW fd \in Fds, accept_client(fd)
  PROVE  /\ fd \notin all_fds /\ all_fds' = all_fds \cup {fd}
         /\ live_ids \cap banned_ids_ = {} => live_ids' \cap banned_ids_' = {}
         /\ UNCHANGED <<banned_ids_, running_, shut>>
<1>1. fd \in Fds \ all_fds /\ UNCHANGED <<banned_ids_, running_, shut>>
  BY DEF accept_client
<1>2. PICK id \in Ids : allocate_client_id(id) /\ registry_add(fd, id)
  BY DEF accept_client
<1>3. id \notin live_ids \cup banned_ids_
  BY <1>2, AllocateFacts, SMTT(40) DEF Safe
<1>4. all_fds' = all_fds \cup {fd} /\ live_ids' = live_ids \cup {id}
  BY <1>1, <1>2, <1>3, AddFacts, ZenonT(40) DEF Safe
<1> QED BY <1>1, <1>3, <1>4, SMTT(40)

(* handle_client_data() removes the client or leaves connections and ids as  *)
(* they are.                                                                 *)
LEMMA HandledFacts ==
  ASSUME Safe, NEW fd \in Fds, NEW m \in Requests[fd] \cup {NoMsg}, handle_client_data(fd, m)
  PROVE  \/ fd \in all_fds /\ remove_client(fd)
         \/ UNCHANGED <<all_fds, live_ids, banned_ids_, running_, shut>>
<1>1. fd \in all_fds
  BY Zenon DEF handle_client_data
<1>2. CASE idle
  BY <1>2, IdleFacts, Zenon
<1>3. CASE UNCHANGED <<registry, ids, running_, shut>>
  BY <1>3 DEF registry, ids, all_fds, live_ids
<1>4. CASE m # NoMsg /\ dispatch(fd, m) /\ UNCHANGED <<ids, running_, shut>>
  <2>1. Wellformed(m)
    BY <1>4, RequestsWellformed, Zenon
  <2>2. live_ids' = live_ids /\ all_fds' = all_fds
    BY <1>1, <1>4, <2>1, DispatchInvisible, SMTT(40)
  <2> QED BY <1>4, <2>2, Zenon DEF ids
<1> QED BY <1>1, <1>2, <1>3, <1>4, SMTT(40) DEF handle_client_data

(* The sockets keep their types when the registry changes.                   *)
LEMMA SocketsTyped ==
  ASSUME NetTypes, sockets_follow
  PROVE  peer' \in [Fds -> PeerStates]
BY Zenon DEF NetTypes, sockets_follow, PeerStates

(* So do the bytes that wait in them.                                        *)
LEMMA UnreadTyped ==
  ASSUME NetTypes, drop_unread
  PROVE  frames' \in [Fds -> Nat] /\ partial' \in [Fds -> BOOLEAN]
BY Zenon DEF NetTypes, drop_unread

(* What is readable stays readable while nobody reads it: a connection that  *)
(* was shut down or whose peer has gone does not recover.                    *)
LEMMA ReadableStays ==
  ASSUME NEW fd \in Fds, readable(fd), fd \in shut => fd \in shut',
         peer[fd] # "up" => peer'[fd] # "up",
         frames'[fd] = frames[fd], partial'[fd] = partial[fd]
  PROVE  readable(fd)'
BY Zenon DEF readable, hung_up

(* A client that stays is as readable as before when the sockets follow the  *)
(* registry.                                                                 *)
LEMMA FollowingStays ==
  ASSUME NetTypes, sockets_follow, NEW fd \in Fds, fd \in all_fds, fd \in all_fds',
         readable(fd), fd \in shut => fd \in shut',
         frames'[fd] = frames[fd], partial'[fd] = partial[fd]
  PROVE  readable(fd)'
<1>1. peer[fd] # "up" => peer'[fd] # "up"
  BY DEF sockets_follow
<1> QED BY <1>1, ReadableStays, Zenon

-------------------------------------------------------------------------------
(* Each step of run(), and of everybody else, preserves the invariant.       *)

(* The listening socket is opened before anybody can be connected.           *)
LEMMA OpenKeeps ==
  ASSUME LoopInv, open
  PROVE  LoopInv'
<1>1. /\ all_fds = {} /\ all_fds' = {}
      /\ pollfds' = <<[fd |-> ListenFd, revents |-> {}]>> /\ pc' = "while"
      /\ listening' = TRUE /\ UNCHANGED net
  BY IdleFacts DEF LoopInv, Covered, open
<1>2. pollfds' \in Seq(PollFd)
  BY <1>1 DEF PollFd
<1>3. Len(pollfds') = 1 /\ pollfds'[1].fd = ListenFd /\ DOMAIN pollfds' = {1}
  BY <1>1
<1>4. NetTypes'
  BY <1>1, Zenon DEF LoopInv, NetTypes, net
<1>5. Entries'
  BY <1>1, <1>2, <1>3, LoopConstants, SMTT(40) DEF Entries, Looping
<1>6. Covered' /\ Ready' /\ BannedLeave'
  BY <1>1, <1>3, Zenon DEF Covered, Ready, BannedLeave, BannedGoneBeforeReads
<1> QED BY <1>4, <1>5, <1>6, ZenonT(40) DEF LoopInv

(* The loop condition and the administrator's lines: no entry is touched, no *)
(* client comes or goes; a ban shuts connections down.                       *)
LEMMA AdminKeeps ==
  ASSUME Safe, Queues, LoopInv, while_running \/ process_admin_queue
  PROVE  LoopInv'
<1>1. /\ UNCHANGED <<pollfds, listening, all_fds, running_, frames, partial>>
      /\ pc \in {"while", "admin"} /\ pc' \in {"poll", "admin", "exit"}
  <2>1. CASE while_running
    BY <2>1, IdleFacts, ZenonT(40) DEF while_running, net
  <2>2. CASE process_admin_queue /\ Head(lines) = Invalid
    BY <2>2, IdleFacts, SMTT(40) DEF process_admin_queue
  <2>3. CASE process_admin_queue /\ Head(lines) # Invalid
    BY <2>3 DEF process_admin_queue, ban_ids, registry, all_fds
  <2> QED BY <2>1, <2>2, <2>3, SMTT(40)
<1>2. NetTypes'
  <2>1. peer' \in [Fds -> PeerStates]
    BY SocketsTyped, Zenon DEF LoopInv, NetTypes, while_running, process_admin_queue, net
  <2> QED BY <1>1, <2>1, Zenon DEF LoopInv, NetTypes
<1>3. Entries'
  BY <1>1, Zenon DEF LoopInv, Entries, Looping
<1>4. Covered' /\ Ready' /\ BannedLeave'
  BY <1>1, Zenon DEF LoopInv, Covered, Ready, BannedLeave, BannedGoneBeforeReads, Looping
<1> QED BY <1>2, <1>3, <1>4, SMTT(40) DEF LoopInv

(* poll(): the snapshot says what is readable, and reports a hang-up for     *)
(* every client that was banned.                                             *)
LEMMA PollKeeps ==
  ASSUME Safe, LoopInv, poll
  PROVE  LoopInv'
<1>1. /\ UNCHANGED <<clients_by_fd_, all_fds, live_ids, banned_ids_, running_, shut, net>>
      /\ pc = "poll" /\ UNCHANGED listening
  BY IdleFacts DEF poll
<1>2. NetTypes'
  BY <1>1, Zenon DEF LoopInv, NetTypes, net
<1>3. CASE pc' = "while" /\ UNCHANGED pollfds
  BY <1>1, <1>2, <1>3, ZenonT(40) DEF LoopInv, Entries, Covered, Ready, BannedLeave,
     BannedGoneBeforeReads,
     Looping
<1>4. CASE /\ pc' = "hangups"
           /\ pollfds' = [k \in DOMAIN pollfds |->
                           [fd |-> pollfds[k].fd, revents |-> revents(pollfds[k].fd)]]
  <2>1. \A fd : revents(fd) \in SUBSET {"in", "hup"}
    BY Zenon DEF revents
  <2>2. /\ pollfds \in Seq(PollFd)
        /\ \A k \in DOMAIN pollfds : pollfds[k].fd \in all_fds \cup {ListenFd}
    BY <1>1, ZenonT(40) DEF LoopInv, Entries, Looping
  <2> HIDE DEF revents
  <2>3. /\ DOMAIN pollfds' = DOMAIN pollfds /\ Len(pollfds') = Len(pollfds)
        /\ \A k \in DOMAIN pollfds : pollfds'[k] =
             [fd |-> pollfds[k].fd, revents |-> revents(pollfds[k].fd)]
    BY <1>4, <2>2
  <2>4. pollfds' \in Seq(PollFd)
    <3>1. \A k \in 1 .. Len(pollfds) : pollfds'[k] \in PollFd
      <4> TAKE k \in 1 .. Len(pollfds)
      <4>0. pollfds[k] \in PollFd
        BY <2>2
      <4>1. pollfds[k].fd \in Fds \cup {ListenFd, NoFd}
        BY <4>0, Zenon DEF PollFd
      <4>2. revents(pollfds[k].fd) \in SUBSET {"in", "hup"}
        BY <2>1, Zenon
      <4>3. pollfds'[k] = [fd |-> pollfds[k].fd, revents |-> revents(pollfds[k].fd)]
        BY <2>2, <2>3, SMTT(40)
      <4> QED BY <4>1, <4>2, <4>3, SMTT(40) DEF PollFd
    <3>2. pollfds' = [k \in 1 .. Len(pollfds) |-> pollfds'[k]] /\ Len(pollfds) \in Nat
      BY <1>4, <2>2, <2>3, SMTT(40)
    <3> QED BY <3>1, <3>2, SMTT(40)
  <2>5. Entries'
    BY <1>1, <1>4, <2>2, <2>3, <2>4, LoopConstants, SMTT(40) DEF LoopInv, Entries, Looping
  <2>6. Covered'
    BY <1>1, <1>4, <2>2, <2>3, SMTT(40) DEF LoopInv, Covered, Looping
  <2>7. Ready'
    <3> SUFFICES ASSUME NEW k \in DOMAIN pollfds,
                        pollfds[k].fd \in all_fds, "in" \in revents(pollfds[k].fd)
                 PROVE  readable(pollfds[k].fd)'
      BY <1>1, <2>3, SMTT(40) DEF Ready
    <3>1. pollfds[k].fd # ListenFd
      BY LoopConstants, Zenon DEF Safe, IInv, TypeOK
    <3>2. readable(pollfds[k].fd)
      BY <3>1, Zenon DEF revents, readable
    <3> QED BY <1>1, <2>3, <3>2, SMTT(40) DEF readable, hung_up, net
  <2>8. BannedLeave'
    <3> SUFFICES ASSUME running_, NEW fd \in all_fds, is_banned(clients_by_fd_[fd].id)
                 PROVE  \E k \in 2 .. Len(pollfds) :
                          pollfds[k].fd = fd /\ "hup" \in revents(fd)
      BY <1>1, <1>4, <2>3, SMTT(40) DEF BannedLeave, BannedGoneBeforeReads, is_banned
    <3>1. fd # ListenFd
      BY LoopConstants, Zenon DEF Safe, IInv, TypeOK
    <3>2. "hup" \in revents(fd)
      BY <3>1, ZenonT(40) DEF Safe, IInv, BannedShut, revents, hung_up
    <3>3. \E k \in DOMAIN pollfds : pollfds[k].fd = fd /\ k # 1
      BY <1>1, <3>1, SMTT(40) DEF LoopInv, Covered, Looping
    <3> QED BY <2>2, <3>2, <3>3, SMTT(40)
  <2> QED BY <1>2, <2>5, <2>6, <2>7, <2>8, SMTT(40) DEF LoopInv
<1> QED BY <1>3, <1>4, Zenon DEF poll

(* Forgetting an entry, or clearing its events, leaves the others alone.     *)
LEMMA EntryFacts ==
  ASSUME pollfds \in Seq(PollFd), NEW k \in DOMAIN pollfds,
         pollfds' = forget_entry(k) \/ pollfds' = handled_entry(k)
  PROVE  /\ pollfds' \in Seq(PollFd) /\ DOMAIN pollfds' = DOMAIN pollfds
         /\ Len(pollfds') = Len(pollfds)
         /\ \A j \in DOMAIN pollfds : j # k => pollfds'[j] = pollfds[j]
         /\ pollfds'[k].revents = {}
         /\ pollfds' = forget_entry(k) => pollfds'[k].fd = NoFd
         /\ pollfds' = handled_entry(k) => pollfds'[k].fd = pollfds[k].fd
<1>1. pollfds[k] \in PollFd
  OBVIOUS
<1>2. pollfds[k].fd \in Fds \cup {ListenFd, NoFd}
  BY <1>1, Zenon DEF PollFd
<1>3. /\ [fd |-> NoFd, revents |-> {}] \in PollFd
      /\ [fd |-> pollfds[k].fd, revents |-> {}] \in PollFd
  BY <1>2, ZenonT(40) DEF PollFd
<1>4. PICK entry \in PollFd :
        /\ pollfds' = [pollfds EXCEPT ![k] = entry]
        /\ entry.revents = {}
        /\ pollfds' = forget_entry(k) => entry.fd = NoFd
        /\ pollfds' = handled_entry(k) => entry.fd = pollfds[k].fd
  <2>1. CASE pollfds' = forget_entry(k) /\ pollfds' # handled_entry(k)
    BY <1>3, <2>1, Zenon DEF forget_entry
  <2>2. CASE pollfds' = handled_entry(k) /\ pollfds' # forget_entry(k)
    BY <1>3, <2>2, Zenon DEF handled_entry
  <2>3. CASE pollfds' = handled_entry(k) /\ pollfds' = forget_entry(k)
    <3>1. pollfds'[k] = [fd |-> NoFd, revents |-> {}]
      BY <2>3, Zenon DEF forget_entry
    <3>2. pollfds'[k] = [fd |-> pollfds[k].fd, revents |-> {}]
      BY <2>3, Zenon DEF handled_entry
    <3>3. pollfds[k].fd = NoFd
      BY <3>1, <3>2
    <3> QED BY <1>3, <2>3, <3>3, Zenon DEF forget_entry
  <2> QED BY <2>1, <2>2, <2>3, SMTT(40)
<1> QED BY <1>4

(* The hang-up pass: the client goes and its entry with it, or, when the     *)
(* server stops, only the entry; nobody banned is left at the end.           *)
LEMMA HangupKeeps ==
  ASSUME Safe, LoopInv, hangup_pass
  PROVE  LoopInv'
<1>0. pc = "hangups" /\ UNCHANGED listening /\ pollfds \in Seq(PollFd)
  BY Zenon DEF hangup_pass, LoopInv, Entries
<1>1. CASE pending("hup", 2) = {}
  <2>1. /\ pc' \in {"input", "exit"} /\ (pc' = "input" => running_)
        /\ UNCHANGED <<pollfds, net>>
        /\ UNCHANGED <<clients_by_fd_, all_fds, live_ids, banned_ids_, running_, shut>>
    BY <1>1, IdleFacts, ZenonT(40) DEF hangup_pass
  <2>2. NetTypes' /\ Entries' /\ Covered'
    BY <1>0, <2>1, Zenon DEF LoopInv, NetTypes, Entries, Covered, Looping, net
  <2>3. Ready'
    BY <1>0, <2>1, ZenonT(40) DEF LoopInv, Ready, readable, hung_up, net
  <2>4. running_ => live_ids \cap banned_ids_ = {}
    <3> SUFFICES ASSUME running_, NEW fd \in all_fds, is_banned(clients_by_fd_[fd].id)
                 PROVE  FALSE
      BY Zenon DEF live_ids, is_banned
    <3>1. PICK k \in 2 .. Len(pollfds) : pollfds[k].fd = fd /\ "hup" \in pollfds[k].revents
      BY <1>0, Zenon DEF LoopInv, BannedLeave
    <3>2. fd # NoFd
      BY LoopConstants, ZenonT(40) DEF Safe, IInv, TypeOK
    <3> QED BY <1>1, <3>1, <3>2 DEF pending
  <2>5. BannedLeave'
    BY <2>1, <2>4, SMTT(40) DEF BannedLeave, BannedGoneBeforeReads
  <2> QED BY <2>2, <2>3, <2>5 DEF LoopInv
<1>2. CASE pending("hup", 2) # {}
  <2> DEFINE k == Min(pending("hup", 2))
             fd == pollfds[k].fd
  <2>1. k \in DOMAIN pollfds /\ k >= 2 /\ fd # NoFd
    BY <1>0, <1>2, NextPending, SMTT(40)
  <2>2. /\ IF running_ /\ fd \in all_fds THEN hangup(fd) ELSE idle
        /\ pollfds' = forget_entry(k)
        /\ sockets_follow /\ drop_unread
        /\ pc' = pc
    BY <1>2, Zenon DEF hangup_pass
  <2> HIDE DEF k
  <2>3. /\ all_fds' \subseteq all_fds /\ (running_ => fd \notin all_fds')
        /\ all_fds' = all_fds \/ all_fds' = all_fds \ {fd}
        /\ \A f \in all_fds' : clients_by_fd_'[f] = clients_by_fd_[f]
        /\ \A f \in all_fds' : f \in shut => f \in shut'
        /\ UNCHANGED <<banned_ids_, running_>>
    <3>1. CASE running_ /\ fd \in all_fds
      <4>1. remove_client(fd)
        BY <2>2, <3>1, SMTT(40) DEF hangup
      <4> QED BY <3>1, <4>1, RemovedFacts, ZenonT(40)
    <3>2. CASE ~(running_ /\ fd \in all_fds)
      BY <2>2, <3>2, IdleFacts, SMTT(40)
    <3> QED BY <3>1, <3>2, Zenon
  <2>4. /\ pollfds' \in Seq(PollFd) /\ DOMAIN pollfds' = DOMAIN pollfds
        /\ Len(pollfds') = Len(pollfds)
        /\ \A j \in DOMAIN pollfds : j # k => pollfds'[j] = pollfds[j]
        /\ pollfds'[k].revents = {} /\ pollfds'[k].fd = NoFd
    BY <1>0, <2>1, <2>2, EntryFacts, SMTT(40)
  <2>5. /\ \A j \in DOMAIN pollfds : pollfds[j].fd \in all_fds \cup {ListenFd, NoFd}
        /\ \A j \in DOMAIN pollfds : j # k => pollfds[j].fd # fd
    BY <1>0, <2>1, ZenonT(40) DEF LoopInv, Entries, Looping
  <2>6. NetTypes'
    BY <2>2, SocketsTyped, UnreadTyped, SMTT(40) DEF LoopInv, NetTypes
  <2>7. Entries'
    <3>1. \A j \in DOMAIN pollfds' : pollfds'[j].fd \in all_fds' \cup {ListenFd, NoFd}
      BY <2>3, <2>4, <2>5, SMTT(40)
    <3>2. \A i, j \in DOMAIN pollfds' :
            pollfds'[i].fd = pollfds'[j].fd /\ pollfds'[i].fd # NoFd => i = j
      BY <2>4, Zenon DEF LoopInv, Entries
    <3>3. pc' \notin {"while", "admin", "poll"}
      BY <1>0, <2>2, ZenonT(40)
    <3> QED BY <2>4, <3>1, <3>2, <3>3, ZenonT(40) DEF Entries
  <2>8. Covered'
    <3> SUFFICES ASSUME running_
                 PROVE  /\ listening /\ pollfds' # <<>> /\ pollfds'[1].fd = ListenFd
                        /\ \A f \in all_fds' : \E j \in DOMAIN pollfds' : pollfds'[j].fd = f
      BY <1>0, <2>2, <2>3, ZenonT(40) DEF Covered
    <3>1. listening /\ pollfds[1].fd = ListenFd
      BY <1>0, ZenonT(40) DEF LoopInv, Covered, Looping
    <3>2. \A f \in all_fds' : \E j \in DOMAIN pollfds : pollfds[j].fd = f /\ j # k
      BY <1>0, <2>3, SMTT(40) DEF LoopInv, Covered, Looping
    <3>3. 1 \in DOMAIN pollfds /\ k # 1
      BY <1>0, <2>1, SMTT(40)
    <3> QED BY <2>4, <3>1, <3>2, <3>3, SMTT(40)
  <2>9. Ready'
    <3> SUFFICES ASSUME NEW j \in DOMAIN pollfds, NEW f, f = pollfds'[j].fd,
                        f \in all_fds', "in" \in pollfds'[j].revents
                 PROVE  readable(f)'
      BY <2>4, Zenon DEF Ready, readable, hung_up
    <3>1. j # k /\ f = pollfds[j].fd /\ "in" \in pollfds[j].revents
      BY <2>4, Zenon
    <3>2. f \in all_fds /\ f \in Fds
      BY <2>3, ZenonT(40) DEF Safe, IInv, TypeOK
    <3>3. readable(f)
      BY <1>0, <3>1, <3>2, SMTT(40) DEF LoopInv, Ready
    <3>4. frames'[f] = frames[f] /\ partial'[f] = partial[f]
      BY <2>2, <3>2, Zenon DEF drop_unread, LoopInv, NetTypes
    <3> QED BY <2>2, <2>3, <3>2, <3>3, <3>4, FollowingStays, SMTT(40) DEF LoopInv
  <2>10. BannedLeave'
    <3> SUFFICES ASSUME running_, NEW f \in all_fds', is_banned(clients_by_fd_[f].id)
                 PROVE  \E j \in 2 .. Len(pollfds') :
                          pollfds'[j].fd = f /\ "hup" \in pollfds'[j].revents
      BY <1>0, <2>2, <2>3, SMTT(40) DEF BannedLeave, BannedGoneBeforeReads, is_banned
    <3>1. PICK j \in 2 .. Len(pollfds) : pollfds[j].fd = f /\ "hup" \in pollfds[j].revents
      BY <1>0, <2>3, ZenonT(40) DEF LoopInv, BannedLeave
    <3>2. j # k /\ j \in DOMAIN pollfds
      BY <1>0, <2>3, <3>1, SMTT(40)
    <3> QED BY <2>4, <3>1, <3>2, SMTT(40)
  <2> QED BY <2>6, <2>7, <2>8, <2>9, <2>10 DEF LoopInv
<1> QED BY <1>1, <1>2, ZenonT(40)

(* The end of the second pass: what is left are the entries with a           *)
(* descriptor, in their order, so that the listening socket stays first.     *)
LEMMA EraseKeeps ==
  ASSUME Safe, LoopInv, pc = "input", erase_forgotten, idle, pc' = "while",
         UNCHANGED <<net, listening>>
  PROVE  LoopInv'
<1> DEFINE kept == {k \in DOMAIN pollfds : pollfds[k].fd # NoFd}
<1>0. all_fds \subseteq Fds
  BY Zenon DEF Safe, IInv, TypeOK
<1>1. /\ UNCHANGED <<all_fds, running_>>
      /\ pollfds \in Seq(PollFd)
      /\ \A k \in DOMAIN pollfds : pollfds[k].fd \in all_fds \cup {ListenFd, NoFd}
  BY IdleFacts, Zenon DEF LoopInv, Entries, Looping
<1>2. IsFiniteSet(kept) /\ Cardinality(kept) \in Nat
  <2>1. DOMAIN pollfds = 1 .. Len(pollfds) /\ Len(pollfds) \in Nat
    BY <1>1
  <2>2. IsFiniteSet(1 .. Len(pollfds))
    BY <2>1, FS_Interval
  <2>3. kept \in SUBSET (1 .. Len(pollfds))
    BY <2>1, Zenon
  <2>4. IsFiniteSet(kept)
    BY <2>2, <2>3, FS_Subset
  <2> QED BY <2>4, FS_CardinalityType, Zenon
<1>3. PICK from \in Bijection(1 .. Cardinality(kept), kept) :
        /\ \A i, j \in DOMAIN from : i < j => from[i] < from[j]
        /\ pollfds' = [i \in DOMAIN from |-> pollfds[from[i]]]
  BY Zenon DEF erase_forgotten
<1> DEFINE n == Cardinality(kept)
<1>4. /\ n \in Nat /\ from \in [1 .. n -> kept]
      /\ \A i, j \in 1 .. n : from[i] = from[j] => i = j
      /\ \A k \in kept : \E i \in 1 .. n : from[i] = k
  BY <1>2, <1>3, ZenonT(40) DEF Bijection, Injection, Surjection, IsInjective
<1> HIDE DEF n
<1>5. /\ pollfds' = [i \in 1 .. n |-> pollfds[from[i]]]
      /\ \A i, j \in 1 .. n : i < j => from[i] < from[j]
  BY <1>3, <1>4, SMTT(40)
<1>6. /\ pollfds' \in Seq(PollFd) /\ DOMAIN pollfds' = 1 .. n
      /\ \A i \in 1 .. n : /\ from[i] \in DOMAIN pollfds /\ pollfds'[i] = pollfds[from[i]]
                           /\ pollfds'[i].fd # NoFd
  <2>1. \A i \in 1 .. n : from[i] \in DOMAIN pollfds /\ pollfds[from[i]].fd # NoFd
    BY <1>4, Zenon
  <2>2. \A i \in 1 .. n : pollfds[from[i]] \in PollFd
    BY <1>1, <2>1
  <2> QED BY <1>4, <1>5, <2>1, <2>2, SMTT(40)
<1>7. NetTypes'
  BY Zenon DEF LoopInv, NetTypes, net
<1>8. Entries'
  <2>1. \A i \in DOMAIN pollfds' : pollfds'[i].fd \in all_fds' \cup {ListenFd, NoFd}
    BY <1>1, <1>6, ZenonT(40)
  <2>2. \A i, j \in DOMAIN pollfds' :
          pollfds'[i].fd = pollfds'[j].fd /\ pollfds'[i].fd # NoFd => i = j
    BY <1>4, <1>6, SMTT(40) DEF LoopInv, Entries
  <2> QED BY <1>6, <2>1, <2>2, Zenon DEF Entries
<1>9. Covered'
  <2> SUFFICES ASSUME running_
               PROVE  /\ listening /\ pollfds' # <<>> /\ pollfds'[1].fd = ListenFd
                      /\ \A fd \in all_fds' : \E i \in DOMAIN pollfds' : pollfds'[i].fd = fd
    BY <1>1, Zenon DEF Covered
  <2>1. /\ listening /\ pollfds # <<>> /\ pollfds[1].fd = ListenFd
        /\ \A fd \in all_fds : \E k \in DOMAIN pollfds : pollfds[k].fd = fd
    BY Zenon DEF LoopInv, Covered, Looping
  <2>2. 1 \in kept /\ kept \subseteq Nat \ {0}
    BY <1>1, <2>1, LoopConstants, SMTT(40)
  <2>3. PICK i \in 1 .. n : from[i] = 1
    BY <1>4, <2>2, ZenonT(40)
  <2>4. i = 1
    <3>1. from[1] \in Nat \ {0} /\ 1 \in 1 .. n
      BY <1>4, <2>2, <2>3, SMTT(40)
    <3> QED BY <1>4, <1>5, <2>3, <3>1, SMTT(40)
  <2>5. pollfds'[1].fd = ListenFd /\ 1 \in DOMAIN pollfds'
    BY <1>6, <2>1, <2>3, <2>4, ZenonT(40)
  <2>6. ASSUME NEW fd \in all_fds
        PROVE  \E j \in DOMAIN pollfds' : pollfds'[j].fd = fd
    <3>1. fd # NoFd
      BY <1>0, <2>6, LoopConstants, SMTT(40)
    <3>2. PICK k \in kept : pollfds[k].fd = fd
      BY <2>1, <3>1, ZenonT(40)
    <3>3. PICK j \in 1 .. n : from[j] = k
      BY <1>4, Zenon
    <3> QED BY <1>6, <3>2, <3>3, SMTT(40)
  <2> QED BY <1>1, <2>1, <2>5, <2>6, SMTT(40)
<1>10. Ready' /\ BannedLeave'
  BY Zenon DEF Ready, BannedLeave, BannedGoneBeforeReads
<1> QED BY <1>7, <1>8, <1>9, <1>10, Zenon DEF LoopInv

(* accept(): the new client gets an entry of its own, which no pass handles  *)
(* before poll() is called again.                                            *)
LEMMA AcceptKeeps ==
  ASSUME Safe, LoopInv, pc = "input", NEW k \in DOMAIN pollfds, pollfds[k].fd = ListenFd,
         accept(k), UNCHANGED <<pc, listening>>
  PROVE  LoopInv'
<1>1. /\ pollfds \in Seq(PollFd)
      /\ \A j \in DOMAIN pollfds : pollfds[j].fd \in all_fds \cup {ListenFd, NoFd}
      /\ \A i, j \in DOMAIN pollfds :
           pollfds[i].fd = pollfds[j].fd /\ pollfds[i].fd # NoFd => i = j
      /\ all_fds \subseteq Fds
  BY Zenon DEF LoopInv, Entries, Looping, Safe, IInv, TypeOK
<1> DEFINE handled == handled_entry(k)
<1>2. /\ handled \in Seq(PollFd) /\ DOMAIN handled = DOMAIN pollfds
      /\ Len(handled) = Len(pollfds)
      /\ \A j \in DOMAIN pollfds : handled[j].fd = pollfds[j].fd
      /\ \A j \in DOMAIN pollfds : j # k => handled[j] = pollfds[j]
      /\ handled[k].revents = {}
  <2>1. [fd |-> ListenFd, revents |-> {}] \in PollFd
    BY Zenon DEF PollFd
  <2> QED BY <1>1, <2>1, SMTT(40) DEF handled_entry
<1> HIDE DEF handled
<1>3. running_ => /\ listening /\ pollfds # <<>> /\ pollfds[1].fd = ListenFd
                  /\ \A fd \in all_fds : \E j \in DOMAIN pollfds : pollfds[j].fd = fd
  BY Zenon DEF LoopInv, Covered, Looping
<1>4. CASE pollfds' = handled /\ idle /\ UNCHANGED net
  <2>1. UNCHANGED <<clients_by_fd_, all_fds, live_ids, banned_ids_, running_, shut>>
    BY <1>4, IdleFacts, Zenon
  <2>2. NetTypes'
    BY <1>4, Zenon DEF LoopInv, NetTypes, net
  <2>3. Entries'
    BY <1>1, <1>2, <1>4, <2>1, SMTT(40) DEF Entries
  <2>4. Covered'
    BY <1>1, <1>2, <1>3, <1>4, <2>1, SMTT(40) DEF Covered
  <2>5. Ready'
    <3> SUFFICES ASSUME NEW j \in DOMAIN pollfds, NEW f, f = pollfds'[j].fd,
                        f \in all_fds', "in" \in pollfds'[j].revents
                 PROVE  readable(f)'
      BY <1>2, <1>4 DEF Ready, readable, hung_up
    <3>1. f = pollfds[j].fd /\ "in" \in pollfds[j].revents /\ f \in all_fds
      BY <1>2, <1>4, <2>1, ZenonT(40)
    <3>2. readable(f)
      BY <3>1, Zenon DEF LoopInv, Ready
    <3> QED BY <1>4, <2>1, <3>2, ZenonT(40) DEF readable, hung_up, net
  <2>6. BannedLeave'
    BY <2>1, Zenon DEF LoopInv, BannedLeave, BannedGoneBeforeReads
  <2> QED BY <2>2, <2>3, <2>4, <2>5, <2>6, ZenonT(40) DEF LoopInv
<1>5. ASSUME NEW fd \in Fds, accept_client(fd), pollfds' = Append(handled, watch(fd)),
             sockets_follow, drop_unread
      PROVE  LoopInv'
  <2>1. /\ fd \notin all_fds /\ all_fds' = all_fds \cup {fd}
        /\ live_ids \cap banned_ids_ = {} => live_ids' \cap banned_ids_' = {}
        /\ UNCHANGED <<banned_ids_, running_, shut>>
    BY <1>5, AcceptedFacts, ZenonT(40)
  <2>2. /\ pollfds' \in Seq(PollFd) /\ Len(pollfds) \in Nat
        /\ DOMAIN pollfds = 1 .. Len(pollfds)
        /\ DOMAIN pollfds' = 1 .. Len(pollfds) + 1
        /\ \A j \in DOMAIN pollfds : pollfds'[j] = handled[j]
        /\ pollfds'[Len(pollfds) + 1] = [fd |-> fd, revents |-> {}]
    <3>1. [fd |-> fd, revents |-> {}] \in PollFd
      BY Zenon DEF PollFd
    <3> QED BY <1>1, <1>2, <1>5, <3>1, SMTT(40) DEF watch
  <2>3. fd \notin {ListenFd, NoFd}
    BY LoopConstants, ZenonT(40)
  <2>4. \A j \in DOMAIN pollfds' : j \in DOMAIN pollfds \/ j = Len(pollfds) + 1
    BY <2>2
  <2>5. NetTypes'
    BY <1>5, SocketsTyped, UnreadTyped, ZenonT(40) DEF LoopInv, NetTypes
  <2>6. Entries'
    <3>1. \A j \in DOMAIN pollfds' : pollfds'[j].fd \in all_fds' \cup {ListenFd, NoFd}
      BY <1>1, <1>2, <2>1, <2>2, <2>4, SMTT(40)
    <3>2. \A j \in DOMAIN pollfds : pollfds'[j].fd = pollfds[j].fd /\ pollfds[j].fd # fd
      BY <1>1, <1>2, <2>1, <2>2, <2>3, ZenonT(40)
    <3>3. \A i, j \in DOMAIN pollfds' :
            pollfds'[i].fd = pollfds'[j].fd /\ pollfds'[i].fd # NoFd => i = j
      <4> SUFFICES ASSUME NEW i \in DOMAIN pollfds', NEW j \in DOMAIN pollfds',
                          pollfds'[i].fd = pollfds'[j].fd, pollfds'[i].fd # NoFd
                   PROVE  i = j
        BY Zenon
      <4>1. pollfds'[Len(pollfds) + 1].fd = fd
        BY <2>2, SMTT(40)
      <4>2. \A x, y \in DOMAIN pollfds : pollfds[x].fd = pollfds[y].fd /\ pollfds[x].fd # NoFd => x = y
        BY <1>1, ZenonT(40)
      <4> QED BY <2>4, <3>2, <4>1, <4>2, ZenonT(40)
    <3>4. pc' \notin {"while", "admin", "poll"}
      BY ZenonT(40)
    <3> QED BY <2>2, <3>1, <3>3, <3>4, ZenonT(40) DEF Entries
  <2>7. Covered'
    <3> SUFFICES ASSUME running_
                 PROVE  /\ listening /\ pollfds' # <<>> /\ pollfds'[1].fd = ListenFd
                        /\ \A f \in all_fds' : \E j \in DOMAIN pollfds' : pollfds'[j].fd = f
      BY <2>1, Zenon DEF Covered
    <3>1. 1 \in DOMAIN pollfds /\ 1 \in DOMAIN pollfds' /\ pollfds'[1].fd = ListenFd
      BY <1>2, <1>3, <2>2, SMTT(40)
    <3>2. \A f \in all_fds : \E j \in DOMAIN pollfds' : pollfds'[j].fd = f
      BY <1>2, <1>3, <2>2, SMTT(40)
    <3>3. \E j \in DOMAIN pollfds' : pollfds'[j].fd = fd
      BY <2>2, SMTT(40)
    <3> QED BY <1>3, <2>1, <3>1, <3>2, <3>3
  <2>8. Ready'
    <3> SUFFICES ASSUME NEW j \in DOMAIN pollfds', NEW f, f = pollfds'[j].fd,
                        f \in all_fds', "in" \in pollfds'[j].revents
                 PROVE  readable(f)'
      BY ZenonT(40) DEF Ready, readable, hung_up
    <3>1. j \in DOMAIN pollfds /\ j # k
      BY <1>2, <2>2, <2>4, SMTT(40)
    <3>2. f = pollfds[j].fd /\ "in" \in pollfds[j].revents
      BY <1>2, <2>2, <3>1, ZenonT(40)
    <3>3. f \in all_fds /\ f \in Fds
      BY <1>1, <2>1, <2>3, <3>1, <3>2, LoopConstants, ZenonT(40)
    <3>4. readable(f)
      BY <3>1, <3>2, <3>3, SMTT(40) DEF LoopInv, Ready
    <3>5. frames'[f] = frames[f] /\ partial'[f] = partial[f]
      BY <1>5, <3>3, Zenon DEF drop_unread, LoopInv, NetTypes
    <3> QED BY <1>5, <2>1, <3>3, <3>4, <3>5, FollowingStays, SMTT(40) DEF LoopInv
  <2>9. BannedLeave'
    BY <2>1, Zenon DEF LoopInv, BannedLeave, BannedGoneBeforeReads
  <2> QED BY <2>5, <2>6, <2>7, <2>8, <2>9, SMTT(40) DEF LoopInv
<1> QED BY <1>4, <1>5, Zenon DEF accept, handled

(* What reading a frame from fd leaves of the bytes that wait elsewhere.     *)
LEMMA ReceiveFacts ==
  ASSUME NetTypes, NEW fd \in Fds, NEW m, receive(fd, m)
  PROVE  /\ frames' \in [Fds -> Nat] /\ partial' \in [Fds -> BOOLEAN]
         /\ \A f \in all_fds' : f \in Fds /\ f # fd =>
              frames'[f] = frames[f] /\ partial'[f] = partial[f]
<1>1. CASE drop_unread
  BY <1>1, UnreadTyped, Zenon DEF NetTypes, drop_unread
<1>2. CASE frames[fd] > 0 /\ next_frame(fd, m)
  BY <1>2 DEF NetTypes, next_frame
<1> QED BY <1>1, <1>2, Zenon DEF receive

(* A step that clears or forgets the entry k, in which at most the client of *)
(* k goes, and then with its entry: nobody else is lost or becomes idle.     *)
LEMMA HandledKeeps ==
  ASSUME LoopInv, NetTypes', pc = "input", pc' = "input", UNCHANGED listening,
         all_fds \subseteq Fds, NEW k \in DOMAIN pollfds, pollfds[k].fd # NoFd,
         \/ pollfds' = handled_entry(k) /\ all_fds' = all_fds
         \/ pollfds' = forget_entry(k) /\ all_fds' = all_fds \ {pollfds[k].fd},
         running_ => pollfds' = handled_entry(k) \/ pollfds[k].fd # ListenFd,
         live_ids' \subseteq live_ids, UNCHANGED <<banned_ids_, running_>>,
         \A f \in all_fds' : f # pollfds[k].fd /\ readable(f) => readable(f)'
  PROVE  LoopInv'
<1>1. /\ pollfds \in Seq(PollFd)
      /\ \A j \in DOMAIN pollfds : pollfds[j].fd \in all_fds \cup {ListenFd, NoFd}
      /\ \A i, j \in DOMAIN pollfds :
           pollfds[i].fd = pollfds[j].fd /\ pollfds[i].fd # NoFd => i = j
  BY Zenon DEF LoopInv, Entries, Looping
<1>2. /\ pollfds' \in Seq(PollFd) /\ DOMAIN pollfds' = DOMAIN pollfds
      /\ \A j \in DOMAIN pollfds : j # k => pollfds'[j] = pollfds[j]
      /\ pollfds'[k].revents = {}
      /\ pollfds' = forget_entry(k) => pollfds'[k].fd = NoFd
      /\ pollfds' = handled_entry(k) => pollfds'[k].fd = pollfds[k].fd
  BY <1>1, EntryFacts, ZenonT(40)
<1>3. Entries'
  <2>1. pc' \notin {"while", "admin", "poll"}
    BY ZenonT(40)
  <2>2. \A j \in DOMAIN pollfds' : pollfds'[j].fd \in all_fds' \cup {ListenFd, NoFd}
    BY <1>1, <1>2, SMTT(40)
  <2>3. \A i, j \in DOMAIN pollfds' :
          pollfds'[i].fd = pollfds'[j].fd /\ pollfds'[i].fd # NoFd => i = j
    BY <1>1, <1>2, ZenonT(40)
  <2> QED BY <1>2, <2>1, <2>2, <2>3, ZenonT(40) DEF Entries
<1>4. Covered'
  <2> SUFFICES ASSUME running_
               PROVE  /\ listening /\ pollfds' # <<>> /\ pollfds'[1].fd = ListenFd
                      /\ \A f \in all_fds' : \E j \in DOMAIN pollfds' : pollfds'[j].fd = f
    BY Zenon DEF Covered
  <2>1. /\ listening /\ pollfds # <<>> /\ pollfds[1].fd = ListenFd
        /\ \A f \in all_fds : \E j \in DOMAIN pollfds : pollfds[j].fd = f
    BY Zenon DEF LoopInv, Covered, Looping
  <2>2. 1 \in DOMAIN pollfds
    BY <1>1, <2>1
  <2>3. pollfds'[1].fd = ListenFd
    BY <1>2, <2>1, <2>2, ZenonT(40)
  <2>4. \A f \in all_fds' : \E j \in DOMAIN pollfds' : pollfds'[j].fd = f
    BY <1>2, <2>1
  <2> QED BY <1>2, <2>1, <2>2, <2>3, <2>4, SMTT(40)
<1>5. Ready'
  <2> SUFFICES ASSUME NEW j \in DOMAIN pollfds, NEW f, f = pollfds'[j].fd,
                      f \in all_fds', "in" \in pollfds'[j].revents
               PROVE  readable(f)'
    BY <1>2, Zenon DEF Ready, readable, hung_up
  <2>1. j # k /\ f = pollfds[j].fd /\ "in" \in pollfds[j].revents /\ f \in all_fds
    BY <1>2, Zenon
  <2>2. f # pollfds[k].fd
    BY <1>1, <2>1, Zenon
  <2>3. readable(f)
    BY <2>1, Zenon DEF LoopInv, Ready
  <2> QED BY <2>2, <2>3, ZenonT(40)
<1>6. BannedLeave'
  BY Zenon DEF LoopInv, BannedLeave, BannedGoneBeforeReads
<1> QED BY <1>3, <1>4, <1>5, <1>6, ZenonT(40) DEF LoopInv

(* read(): handle_client_data() on a client whose entry has not been         *)
(* handled.                                                                  *)
LEMMA ReadKeeps ==
  ASSUME Safe, LoopInv, pc = "input", NEW k \in DOMAIN pollfds,
         pollfds[k].fd \notin {ListenFd, NoFd}, read(k), UNCHANGED <<pc, listening>>
  PROVE  LoopInv'
<1> DEFINE fd == pollfds[k].fd
<1>1. PICK m \in Input[fd] \cup {NoMsg} : handle_client_data(fd, m) /\ receive(fd, m)
  BY Zenon DEF read
<1>2. /\ sockets_follow
      /\ pollfds' = IF fd \in all_fds' THEN handled_entry(k) ELSE forget_entry(k)
  BY Zenon DEF read, still_registered
<1>3. fd \in all_fds /\ all_fds \subseteq Fds
  BY <1>1, Zenon DEF handle_client_data, Safe, IInv, TypeOK
<1>4. m \in Requests[fd] \cup {NoMsg}
  BY <1>3, ZenonT(40) DEF Input
<1>5. /\ \/ all_fds' = all_fds
         \/ all_fds' = all_fds \ {fd}
      /\ live_ids' \subseteq live_ids
      /\ \A f \in all_fds' : f \in shut => f \in shut'
      /\ UNCHANGED <<banned_ids_, running_>>
  <2>1. CASE fd \in all_fds /\ remove_client(fd)
    BY <2>1, RemovedFacts, Zenon
  <2>2. CASE UNCHANGED <<all_fds, live_ids, banned_ids_, running_, shut>>
    BY <2>2, ZenonT(40)
  <2> QED BY <1>1, <1>3, <1>4, <2>1, <2>2, HandledFacts, SMTT(40)
<1>6. /\ frames' \in [Fds -> Nat] /\ partial' \in [Fds -> BOOLEAN]
      /\ \A f \in all_fds' : f \in Fds /\ f # fd =>
           frames'[f] = frames[f] /\ partial'[f] = partial[f]
  BY <1>1, <1>3, ReceiveFacts DEF LoopInv
<1>7. NetTypes'
  BY <1>2, <1>6, SocketsTyped, ZenonT(40) DEF LoopInv, NetTypes
<1>8. \A f \in all_fds' : f # fd /\ readable(f) => readable(f)'
  <2> SUFFICES ASSUME NEW f \in all_fds', f # fd, readable(f)
               PROVE  readable(f)'
    BY Zenon
  <2>1. f \in all_fds /\ f \in Fds
    BY <1>3, <1>5, Zenon
  <2> QED BY <1>2, <1>5, <1>6, <2>1, FollowingStays, SMTT(40) DEF LoopInv
<1>9. \/ pollfds' = handled_entry(k) /\ all_fds' = all_fds
      \/ pollfds' = forget_entry(k) /\ all_fds' = all_fds \ {fd}
  BY <1>2, <1>3, <1>5
<1> QED BY <1>3, <1>5, <1>7, <1>8, <1>9, HandledKeeps, SMTT(40)

(* The second pass.  The entry of a listening socket that was closed is      *)
(* forgotten; that happens only after a stop.                                *)
LEMMA InputKeeps ==
  ASSUME Safe, LoopInv, input_pass
  PROVE  LoopInv'
<1>0. pc = "input" /\ UNCHANGED listening /\ pollfds \in Seq(PollFd)
  BY Zenon DEF input_pass, LoopInv, Entries
<1>1. CASE pending("in", 1) = {}
  BY <1>0, <1>1, EraseKeeps DEF input_pass
<1>2. CASE pending("in", 1) # {}
  <2> DEFINE k == Min(pending("in", 1))
  <2>1. k \in DOMAIN pollfds /\ pollfds[k].fd # NoFd
    BY <1>0, <1>2, NextPending
  <2>2. /\ \/ pollfds[k].fd = ListenFd /\ listening /\ accept(k)
           \/ /\ pollfds[k].fd = ListenFd /\ ~listening
              /\ pollfds' = forget_entry(k)
              /\ idle
              /\ UNCHANGED net
           \/ pollfds[k].fd # ListenFd /\ read(k)
        /\ pc' = pc
    BY <1>2, Zenon DEF input_pass
  <2> HIDE DEF k
  <2>3. CASE pollfds[k].fd = ListenFd /\ accept(k)
    BY <1>0, <2>1, <2>2, <2>3, AcceptKeeps, ZenonT(40)
  <2>4. CASE /\ pollfds[k].fd = ListenFd /\ ~listening
             /\ pollfds' = forget_entry(k) /\ idle /\ UNCHANGED net
    <3>1. UNCHANGED <<all_fds, live_ids, banned_ids_, running_, shut>>
      BY <2>4, IdleFacts, ZenonT(40)
    <3>2. ~running_ /\ ListenFd \notin all_fds /\ all_fds \subseteq Fds
      BY <1>0, <2>4, LoopConstants DEF LoopInv, Covered, Looping, Safe, IInv, TypeOK
    <3>3. NetTypes'
      BY <2>4, Zenon DEF LoopInv, NetTypes, net
    <3>4. \A f \in all_fds' : readable(f) => readable(f)'
      BY <2>4, <3>1, Zenon DEF readable, hung_up, net
    <3>5. all_fds' = all_fds \ {pollfds[k].fd}
      BY <2>4, <3>1, <3>2, SMTT(40)
    <3> QED BY <1>0, <2>1, <2>2, <2>4, <3>1, <3>2, <3>3, <3>4, <3>5, HandledKeeps, SMTT(40)
  <2>5. CASE pollfds[k].fd # ListenFd /\ read(k)
    BY <1>0, <2>1, <2>2, <2>5, ReadKeeps, SMTT(40)
  <2> QED BY <2>2, <2>3, <2>4, <2>5, SMTT(40)
<1> QED BY <1>1, <1>2, Zenon

(* disconnect_all_clients() leaves nobody.                                   *)
LEMMA ExitKeeps ==
  ASSUME LoopInv, exit
  PROVE  LoopInv'
<1>1. /\ disconnect_all_clients /\ sockets_follow /\ drop_unread
      /\ pc' = "done" /\ pollfds' = pollfds
  BY Zenon DEF exit
<1>2. NetTypes'
  BY <1>1, SocketsTyped, UnreadTyped DEF LoopInv, NetTypes
<1>3. Entries'
  BY <1>1, Zenon DEF LoopInv, Entries, Looping
<1>4. Covered' /\ Ready' /\ BannedLeave'
  BY <1>1, Zenon DEF Covered, Ready, BannedLeave, BannedGoneBeforeReads, Looping
<1> QED BY <1>2, <1>3, <1>4, Zenon DEF LoopInv

(* A step of somebody else touches neither the entries nor the registry, and *)
(* makes no connection idle.                                                 *)
LEMMA OthersKeep ==
  ASSUME LoopInv, NetTypes', UNCHANGED loop,
         UNCHANGED <<clients_by_fd_, all_fds, live_ids, banned_ids_>>,
         running_' => running_ /\ UNCHANGED listening,
         \A f \in all_fds : readable(f) => readable(f)'
  PROVE  LoopInv'
<1>1. UNCHANGED <<pc, pollfds>>
  BY Zenon DEF loop
<1>2. Entries'
  BY <1>1, Zenon DEF LoopInv, Entries
<1>3. Covered'
  BY <1>1, Zenon DEF LoopInv, Covered
<1>4. Ready'
  <2> SUFFICES ASSUME pc \in {"hangups", "input"}, NEW k \in DOMAIN pollfds, NEW f,
                      f = pollfds[k].fd, f \in all_fds, "in" \in pollfds[k].revents
               PROVE  readable(f)'
    BY <1>1, Zenon DEF Ready, readable, hung_up
  <2> QED BY Zenon DEF LoopInv, Ready
<1>5. BannedLeave'
  BY <1>1, Zenon DEF LoopInv, BannedLeave, BannedGoneBeforeReads, is_banned
<1> QED BY <1>2, <1>3, <1>4, <1>5 DEF LoopInv

(* Frames and departures only ever make a connection readable.               *)
LEMMA ClientKeeps ==
  ASSUME NetTypes, NEW fd \in Fds, client(fd)
  PROVE  /\ NetTypes'
         /\ \A f \in Fds : readable(f) /\ UNCHANGED shut => readable(f)'
<1>1. CASE begin_frame(fd)
  <2>1. /\ partial' = [partial EXCEPT ![fd] = TRUE] /\ UNCHANGED <<peer, frames>>
    BY <1>1, Zenon DEF begin_frame
  <2>2. NetTypes'
    BY <2>1, Zenon DEF NetTypes
  <2>3. \A f \in Fds : partial[f] => partial'[f]
    BY <2>1, Zenon DEF NetTypes
  <2> QED BY <2>1, <2>2, <2>3 DEF readable, hung_up
<1>2. CASE finish_frame(fd)
  <2>1. /\ partial' = [partial EXCEPT ![fd] = FALSE] /\ UNCHANGED peer
        /\ frames' = [frames EXCEPT ![fd] = @ + 1]
    BY <1>2, Zenon DEF finish_frame
  <2>2. NetTypes'
    BY <2>1 DEF NetTypes
  <2>3. /\ frames'[fd] > 0
        /\ \A f \in Fds : f # fd => frames'[f] = frames[f] /\ partial'[f] = partial[f]
    BY <2>1 DEF NetTypes
  <2> QED BY <2>1, <2>2, <2>3 DEF readable, hung_up
<1>3. CASE leave(fd) \/ reset(fd)
  <2>1. PICK how \in {"fin", "rst"} :
          peer[fd] \in {"up", "dying"} /\ peer' = [peer EXCEPT ![fd] = how]
    BY <1>3, Zenon DEF leave, reset
  <2>2. UNCHANGED <<frames, partial>>
    BY <1>3, Zenon DEF leave, reset
  <2>3. NetTypes'
    BY <2>1, <2>2, Zenon DEF NetTypes, PeerStates
  <2>4. \A f \in Fds : peer'[f] = peer[f] \/ peer'[f] \in {"fin", "rst"}
    BY <2>1, Zenon DEF NetTypes
  <2>5. \A f \in Fds : /\ peer[f] # "up" => peer'[f] # "up"
                       /\ hung_up(f) /\ UNCHANGED shut => hung_up(f)'
    BY <2>1, <2>4, Zenon DEF hung_up, NetTypes
  <2> QED BY <2>2, <2>3, <2>5, Zenon DEF readable
<1> QED BY <1>1, <1>2, <1>3, SMTT(40) DEF client

(* The signal handler, the console thread and the network.                   *)
LEMMA EnvironmentKeeps ==
  ASSUME Safe, LoopInv, stop_signal \/ submit_admin_line \/ network \/ UNCHANGED loopvars
  PROVE  LoopInv'
<1>0. all_fds \subseteq Fds /\ NetTypes
  BY Zenon DEF Safe, IInv, TypeOK, LoopInv
<1>1. CASE stop_signal
  <2>1. /\ running_' = FALSE /\ shut' = shut \cup all_fds /\ UNCHANGED <<loop, net>>
        /\ UNCHANGED <<clients_by_fd_, all_fds, live_ids, banned_ids_>>
    BY <1>1, Zenon DEF stop_signal, request_stop, registry, ids, all_fds, live_ids
  <2>2. NetTypes' /\ \A f \in all_fds : readable(f) => readable(f)'
    BY <1>0, <2>1, Zenon DEF NetTypes, net, readable, hung_up
  <2> QED BY <2>1, <2>2, OthersKeep
<1>2. CASE submit_admin_line \/ UNCHANGED loopvars
  <2>1. /\ UNCHANGED <<loop, net, listening, running_, shut>>
        /\ UNCHANGED <<clients_by_fd_, all_fds, live_ids, banned_ids_>>
    <3>1. CASE submit_admin_line
      BY <3>1, IdleFacts, Zenon DEF submit_admin_line
    <3>2. CASE UNCHANGED loopvars
      BY <3>2, Zenon DEF loopvars, vars, registry, ids, all_fds, live_ids
    <3> QED BY <1>2, <3>1, <3>2
  <2>2. NetTypes' /\ \A f \in all_fds : readable(f) => readable(f)'
    BY <1>0, <2>1, Zenon DEF NetTypes, net, readable, hung_up
  <2> QED BY <2>1, <2>2, OthersKeep
<1>3. CASE network
  <2>1. /\ UNCHANGED <<loop, listening, running_, shut>>
        /\ UNCHANGED <<clients_by_fd_, all_fds, live_ids, banned_ids_>>
    BY <1>3, IdleFacts, Zenon DEF network
  <2>2. NetTypes' /\ \A f \in Fds : readable(f) => readable(f)'
    <3>1. CASE connect
      BY <1>0, <2>1, <3>1 DEF connect, NetTypes, readable, hung_up
    <3>2. CASE \E fd \in Fds : client(fd)
      BY <1>0, <2>1, <3>2, ClientKeeps
    <3> QED BY <1>3, <3>1, <3>2, SMTT(40) DEF network
  <2> QED BY <1>0, <2>1, <2>2, OthersKeep, SMTT(40)
<1> QED BY <1>1, <1>2, <1>3

-------------------------------------------------------------------------------
(* What run() guarantees, for every number of descriptors and of frames.     *)

(* The invariant holds in every state of run(), on top of what ChatServer    *)
(* guarantees of the handlers.                                               *)
LEMMA LoopSafe == LoopSpec => []LoopInv
<1>1. LoopInit => LoopInv
  <2> SUFFICES ASSUME LoopInit
               PROVE  LoopInv
    BY Zenon
  <2>1. /\ pc = "start" /\ pollfds = <<>> /\ all_fds = {}
        /\ peer = [fd \in Fds |-> "none"]
        /\ frames = [fd \in Fds |-> 0] /\ partial = [fd \in Fds |-> FALSE]
    BY DEF LoopInit, Init, all_fds
  <2>2. NetTypes
    BY <2>1, ZenonT(40) DEF NetTypes, PeerStates
  <2>3. Entries /\ Covered /\ Ready /\ BannedLeave
    BY <2>1 DEF Entries, Covered, Ready, BannedLeave, BannedGoneBeforeReads, Looping
  <2> QED BY <2>2, <2>3 DEF LoopInv
<1>2. Safe /\ Queues /\ LoopInv /\ [LoopNext]_loopvars => LoopInv'
  BY OpenKeeps, AdminKeeps, PollKeeps, HangupKeeps, InputKeeps, ExitKeeps, EnvironmentKeeps,
     ZenonT(40)
  DEF LoopNext, run
<1>3. LoopSpec => []Safe
  BY LoopImplementsServer, Safety, PTL
<1> QED BY <1>1, <1>2, <1>3, QueuesSafe, PTL DEF LoopSpec

(* PollCoversClients, for every number of descriptors: every call of poll()  *)
(* watches the listening socket and each client, once.                       *)
THEOREM PollCoversTheorem == LoopSpec => []PollCoversClients
<1>1. Safe /\ LoopInv => PollCoversClients
  <2> SUFFICES ASSUME Safe, LoopInv, pc = "poll", running_
               PROVE  /\ Range([k \in DOMAIN pollfds |-> pollfds[k].fd]) = {ListenFd} \cup all_fds
                      /\ Len(pollfds) = 1 + Cardinality(all_fds)
    BY Zenon DEF PollCoversClients
  <2> DEFINE watched == [k \in DOMAIN pollfds |-> pollfds[k].fd]
             n == Len(pollfds)
  <2>1. /\ pollfds \in Seq(PollFd) /\ n \in Nat /\ DOMAIN pollfds = 1 .. n
        /\ \A k \in DOMAIN pollfds : pollfds[k].fd \in all_fds \cup {ListenFd}
        /\ \A j, k \in DOMAIN pollfds : pollfds[j].fd = pollfds[k].fd => j = k
    BY DEF LoopInv, Entries, Looping
  <2>2. /\ 1 \in DOMAIN pollfds /\ pollfds[1].fd = ListenFd
        /\ \A fd \in all_fds : \E k \in DOMAIN pollfds : pollfds[k].fd = fd
    BY <2>1 DEF LoopInv, Covered, Looping
  <2>3. \A fd \in {ListenFd} \cup all_fds : \E k \in DOMAIN pollfds : pollfds[k].fd = fd
    BY <2>2, Zenon
  <2>4. Range(watched) = {ListenFd} \cup all_fds
    BY <2>1, <2>3 DEF Range
  <2>5. watched \in Bijection(1 .. n, {ListenFd} \cup all_fds)
    BY <2>1, <2>3, ZenonT(40) DEF Bijection, Injection, Surjection, IsInjective
  <2>6. Cardinality({ListenFd} \cup all_fds) = n /\ IsFiniteSet({ListenFd} \cup all_fds)
    BY <2>1, <2>5, FS_CountingElements, FS_NatBijection DEF ExistsBijection
  <2>7. ListenFd \notin all_fds
    BY LoopConstants, Zenon DEF Safe, IInv, TypeOK
  <2>8. IsFiniteSet(all_fds)
    BY <2>6, FS_Subset, ZenonT(40)
  <2>9. Cardinality(all_fds \cup {ListenFd}) = Cardinality(all_fds) + 1 /\ Cardinality(all_fds) \in Nat
    BY <2>7, <2>8, FS_AddElement, FS_CardinalityType, SMTT(40)
  <2>10. all_fds \cup {ListenFd} = {ListenFd} \cup all_fds
    BY Zenon
  <2>11. Cardinality({ListenFd} \cup all_fds) = Cardinality(all_fds) + 1
    BY <2>9, <2>10, Zenon
  <2>12. n = 1 + Cardinality(all_fds)
    BY <2>6, <2>9, <2>11, SMTT(40)
  <2> QED BY <2>4, <2>12, Zenon
<1>2. LoopSpec => []Safe
  BY LoopImplementsServer, Safety, PTL
<1> QED BY <1>1, <1>2, LoopSafe, PTL

(* NoIdleRead, for every number of descriptors and of frames: the loop never *)
(* blocks on a client that is not in the middle of a frame.                  *)
THEOREM NoIdleReadTheorem == LoopSpec => []NoIdleRead
<1>1. LoopInv => NoIdleRead
  <2> DEFINE k == Min(pending("in", 1))
  <2> SUFFICES ASSUME LoopInv, pc = "input", pending("in", 1) # {}, pollfds[k].fd # ListenFd
               PROVE  pollfds[k].fd \in all_fds /\ readable(pollfds[k].fd)
    BY Zenon DEF NoIdleRead, readable
  <2>1. /\ pollfds \in Seq(PollFd)
        /\ \A j \in DOMAIN pollfds : pollfds[j].fd \in all_fds \cup {ListenFd, NoFd}
    BY ZenonT(40) DEF LoopInv, Entries, Looping
  <2>2. k \in DOMAIN pollfds /\ pollfds[k].fd # NoFd /\ "in" \in pollfds[k].revents
    BY <2>1, NextPending, SMTT(40)
  <2> HIDE DEF k
  <2> QED BY <2>1, <2>2, Zenon DEF LoopInv, Ready
<1> QED BY <1>1, LoopSafe, PTL

(* BannedGoneBeforeReads, for every set of ids: no frame of a banned client  *)
(* is read.                                                                  *)
THEOREM BannedGoneTheorem == LoopSpec => []BannedGoneBeforeReads
<1>1. LoopInv => BannedGoneBeforeReads
  BY DEF LoopInv, BannedLeave
<1> QED BY <1>1, LoopSafe, PTL
===============================================================================
