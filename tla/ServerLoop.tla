------------------------------ MODULE ServerLoop ------------------------------
(* ServerViewModel::run(): the poll loop around the handlers of ChatServer,  *)
(* with the sockets it polls, the administrator's queue and request_stop,    *)
(* which arrives from a signal handler at any point of the loop.             *)
(*                                                                           *)
(* poll() is a snapshot: the two passes over pollfds act on events that the  *)
(* sockets may have outgrown, and on descriptors that close() and accept()   *)
(* may have recycled in between.  Reads block; a client may stop in the      *)
(* middle of a frame.                                                        *)
EXTENDS ChatServer, FiniteSetsExt

CONSTANTS
  ListenFd, NoFd,   \* the listening descriptor, and -1
  Invalid,          \* an admin line that is not a ban command
  AdminLines,       \* what the administrator types: ban lists, or Invalid
  FrameTypes,       \* the kinds of frame the clients send in this instance
  kListenBacklog,   \* connections the kernel keeps waiting for accept()
  MaxFrames,        \* bound: complete frames unread on one connection
  MaxAdminLines     \* bound: lines waiting in admin_queue_

ASSUME LoopConstants ==
  /\ AdminLines \subseteq BanLists \cup {Invalid}
  /\ {ListenFd, NoFd} \cap Fds = {} /\ ListenFd # NoFd

VARIABLES
  pc,               \* where run() is
  pollfds,          \* sequence of [fd, revents]
  lines,            \* the lines process_admin_queue took from the queue
  admin_queue_,     \* lines from the console thread
  listening,        \* the listening socket is open
  backlog,          \* connections not yet accepted
  peer,             \* fd -> what the kernel knows of the other end
  frames,           \* fd -> complete frames received and unread
  partial           \* fd -> the beginning of a frame has been received

loop == <<pc, pollfds, lines>>
net == <<backlog, peer, frames, partial>>
loopvars == <<vars, loop, admin_queue_, listening, net>>

(* The other end is up, has sent FIN, has been sent data after its FIN (its  *)
(* kernel will answer with a reset), or has reset the connection.            *)
PeerStates == {"none", "up", "fin", "dying", "rst"}

-------------------------------------------------------------------------------
(* The sockets, as the code uses them.                                       *)

hung_up(fd) == fd \in shut \/ peer[fd] \in {"rst", "none"}

revents(fd) ==
  IF fd = ListenFd
  THEN IF ~listening THEN {"hup"} ELSE IF backlog > 0 THEN {"in"} ELSE {}
  ELSE (IF hung_up(fd) THEN {"hup"} ELSE {}) \cup
       (IF hung_up(fd) \/ frames[fd] > 0 \/ partial[fd] \/ peer[fd] # "up"
        THEN {"in"} ELSE {})

(* close() and accept() are inside the registry's remove and add; data sent  *)
(* to a peer that is gone provokes a reset.                                  *)
sockets_follow ==
  peer' = [fd \in Fds |->
    IF fd \notin all_fds' THEN "none"
    ELSE IF fd \notin all_fds THEN "up"
    ELSE IF sent'[fd] # NoMsg /\ peer[fd] = "fin" THEN "dying"
    ELSE peer[fd]]

drop_unread ==
  /\ frames' = [fd \in Fds |-> IF fd \in all_fds' THEN frames[fd] ELSE 0]
  /\ partial' = [fd \in Fds |-> fd \in all_fds' /\ partial[fd]]

-------------------------------------------------------------------------------
(* The loop.                                                                 *)

open ==
  /\ pc = "start"
  /\ listening' = TRUE
  /\ pollfds' = <<[fd |-> ListenFd, revents |-> {}]>>
  /\ pc' = "while"
  /\ idle
  /\ UNCHANGED <<lines, admin_queue_, net>>

(* The loop condition, and process_admin_queue's swap of the queue.          *)
while_running ==
  /\ pc = "while"
  /\ \/ /\ running_
        /\ lines' = admin_queue_ /\ admin_queue_' = <<>>
        /\ pc' = IF admin_queue_ = <<>> THEN "poll" ELSE "admin"
     \/ /\ ~running_
        /\ pc' = "exit"
        /\ UNCHANGED <<lines, admin_queue_>>
  /\ idle
  /\ UNCHANGED <<pollfds, listening, net>>

process_admin_queue ==
  /\ pc = "admin"
  /\ IF Head(lines) = Invalid THEN idle ELSE ban_ids(Head(lines))
  /\ lines' = Tail(lines)
  /\ pc' = IF lines' = <<>> THEN "poll" ELSE "admin"
  /\ sockets_follow
  /\ UNCHANGED <<pollfds, admin_queue_, listening, backlog, frames, partial>>

(* A timeout and an interrupted call go back to the loop condition.          *)
poll ==
  /\ pc = "poll"
  /\ LET ready == \E k \in DOMAIN pollfds : revents(pollfds[k].fd) # {} IN
     \/ /\ ready
        /\ pollfds' = [k \in DOMAIN pollfds |->
                        [fd |-> pollfds[k].fd, revents |-> revents(pollfds[k].fd)]]
        /\ pc' = "hangups"
     \/ /\ ~ready \/ ~running_
        /\ pc' = "while"
        /\ UNCHANGED pollfds
  /\ idle
  /\ UNCHANGED <<lines, admin_queue_, listening, net>>

(* The entry a pass comes to next: the first one with this event.            *)
pending_client(event, first) ==
  {k \in 2 .. Len(pollfds) : pollfds[k].fd # NoFd /\ event \in pollfds[k].revents}

pending(event, first) ==
  {k \in first .. Len(pollfds) : pollfds[k].fd # NoFd /\ event \in pollfds[k].revents}

handled_entry(k) == [pollfds EXCEPT ![k] = [fd |-> pollfds[k].fd, revents |-> {}]]

forget_entry(k) == [pollfds EXCEPT ![k] = [fd |-> NoFd, revents |-> {}]]

hangup_pass ==
  /\ pc = "hangups"
  /\ IF pending("hup", 2) = {}
     THEN /\ pc' = IF running_ THEN "input" ELSE "exit"
          /\ idle
          /\ UNCHANGED <<pollfds, net>>
     ELSE LET k == Min(pending("hup", 2)) IN
          /\ IF running_ /\ pollfds[k].fd \in all_fds
             THEN hangup(pollfds[k].fd) ELSE idle
          /\ pollfds' = forget_entry(k)
          /\ sockets_follow /\ drop_unread
          /\ UNCHANGED <<pc, backlog>>
  /\ UNCHANGED <<lines, admin_queue_, listening>>

watch_as_readable(fd) == [fd |-> fd, revents |-> {"in"}]

watch(fd) == [fd |-> fd, revents |-> {}]

(* accept() fails when no descriptor is left; the connection keeps waiting.  *)
accept(k) ==
  \/ /\ all_fds = Fds
     /\ pollfds' = handled_entry(k)
     /\ idle
     /\ UNCHANGED net
  \/ \E fd \in Fds :
       /\ accept_client(fd)
       /\ pollfds' = Append(handled_entry(k), watch(fd))
       /\ backlog' = backlog - 1
       /\ sockets_follow /\ drop_unread

Input == [fd \in Fds |-> {m \in Requests[fd] : m.type \in FrameTypes}]

next_frame(fd, m) ==
  /\ m \in Input[fd]
  /\ frames' = [frames EXCEPT ![fd] = @ - 1]
  /\ UNCHANGED partial

(* read_exact gives up on a hung-up socket even if bytes are waiting, and    *)
(* blocks on a frame that is not complete while the peer is up.  read_frame  *)
(* takes a frame of length 0 for a lost connection.                          *)
receive(fd, m) ==
  \/ hung_up(fd) /\ m = NoMsg /\ drop_unread
  \/ ~hung_up(fd) /\ frames[fd] > 0 /\ next_frame(fd, m)
  \/ /\ ~hung_up(fd) /\ (frames[fd] > 0 \/ peer[fd] # "up")
     /\ m = NoMsg /\ drop_unread

registered_no_more(fd) == fd \notin all_fds'

still_registered(fd) == fd \in all_fds'

read(k) ==
  LET fd == pollfds[k].fd IN
  /\ \E m \in Input[fd] \cup {NoMsg} : handle_client_data(fd, m) /\ receive(fd, m)
  /\ pollfds' = IF still_registered(fd) THEN handled_entry(k) ELSE forget_entry(k)
  /\ sockets_follow
  /\ UNCHANGED backlog

(* remove_if and erase: the entries with a descriptor, in their order.       *)
erase_forgotten ==
  LET kept == {k \in DOMAIN pollfds : pollfds[k].fd # NoFd} IN
  \E from \in Bijection(1 .. Cardinality(kept), kept) :
    /\ \A i, j \in DOMAIN from : i < j => from[i] < from[j]
    /\ pollfds' = [i \in DOMAIN from |-> pollfds[from[i]]]

input_pass ==
  /\ pc = "input"
  /\ IF pending("in", 1) = {}
     THEN /\ erase_forgotten
          /\ pc' = "while"
          /\ idle
          /\ UNCHANGED net
     ELSE LET k == Min(pending("in", 1)) IN
          /\ \/ pollfds[k].fd = ListenFd /\ listening /\ accept(k)
             \/ /\ pollfds[k].fd = ListenFd /\ ~listening
                /\ pollfds' = forget_entry(k)
                /\ idle
                /\ UNCHANGED net
             \/ pollfds[k].fd # ListenFd /\ read(k)
          /\ UNCHANGED pc
  /\ UNCHANGED <<lines, admin_queue_, listening>>

exit ==
  /\ pc = "exit"
  /\ disconnect_all_clients
  /\ pc' = "done"
  /\ sockets_follow /\ drop_unread
  /\ UNCHANGED <<pollfds, lines, admin_queue_, listening, backlog>>

run == open \/ while_running \/ process_admin_queue \/ poll
         \/ hangup_pass \/ input_pass \/ exit

-------------------------------------------------------------------------------
(* Everybody else: the signal handler, the console thread, the clients.      *)

stop_signal ==
  /\ running_ /\ pc # "done"
  /\ request_stop
  /\ listening' = FALSE
  /\ UNCHANGED <<loop, admin_queue_, net>>

submit_admin_line ==
  /\ Len(admin_queue_) < MaxAdminLines
  /\ \E line \in AdminLines : admin_queue_' = Append(admin_queue_, line)
  /\ idle
  /\ UNCHANGED <<loop, listening, net>>

connect ==
  /\ listening /\ backlog < kListenBacklog
  /\ backlog' = backlog + 1
  /\ UNCHANGED <<peer, frames, partial>>

begin_frame(fd) ==
  /\ peer[fd] = "up" /\ ~partial[fd] /\ frames[fd] < MaxFrames
  /\ partial' = [partial EXCEPT ![fd] = TRUE]
  /\ UNCHANGED <<backlog, peer, frames>>

finish_frame(fd) ==
  /\ peer[fd] = "up" /\ partial[fd]
  /\ partial' = [partial EXCEPT ![fd] = FALSE]
  /\ frames' = [frames EXCEPT ![fd] = @ + 1]
  /\ UNCHANGED <<backlog, peer>>

leave(fd) ==
  /\ peer[fd] = "up"
  /\ \E how \in {"fin", "rst"} : peer' = [peer EXCEPT ![fd] = how]
  /\ UNCHANGED <<backlog, frames, partial>>

reset(fd) ==
  /\ peer[fd] = "dying"
  /\ peer' = [peer EXCEPT ![fd] = "rst"]
  /\ UNCHANGED <<backlog, frames, partial>>

client(fd) == begin_frame(fd) \/ finish_frame(fd) \/ leave(fd) \/ reset(fd)

network ==
  /\ connect \/ \E fd \in Fds : client(fd)
  /\ idle
  /\ UNCHANGED <<loop, admin_queue_, listening>>

LoopInit ==
  /\ Init
  /\ pc = "start" /\ pollfds = <<>> /\ lines = <<>>
  /\ admin_queue_ = <<>>
  /\ listening = FALSE /\ backlog = 0
  /\ peer = [fd \in Fds |-> "none"]
  /\ frames = [fd \in Fds |-> 0] /\ partial = [fd \in Fds |-> FALSE]

LoopNext == run \/ stop_signal \/ submit_admin_line \/ network

(* The thread that runs run() is scheduled; nothing is asked of the clients. *)
LoopSpec == LoopInit /\ [][LoopNext]_loopvars /\ WF_loopvars(run)

(* Clients complete the frames they begin or leave, as write_exact does.     *)
frame_progress(fd) ==
  /\ finish_frame(fd) /\ idle /\ UNCHANGED <<loop, admin_queue_, listening>>

FairClients == \A fd \in Fds : WF_loopvars(frame_progress(fd))

-------------------------------------------------------------------------------
(* Properties.                                                               *)

(* Every call of poll() watches the listening socket and each connected      *)
(* client exactly once, and nothing else: no client is forgotten and no      *)
(* closed descriptor is polled, although both passes remove clients and      *)
(* accept() recycles their numbers within the same iteration.                *)
PollCoversClients ==
  pc = "poll" /\ running_ =>
    /\ Range([k \in DOMAIN pollfds |-> pollfds[k].fd]) = {ListenFd} \cup all_fds
    /\ Len(pollfds) = 1 + Cardinality(all_fds)

(* The loop blocks in a read only on a connected client that is in the       *)
(* middle of a frame: an event from the snapshot is never applied to a       *)
(* connection that has nothing to read.                                      *)
NoIdleRead ==
  pc = "input" /\ pending("in", 1) # {} =>
    LET fd == pollfds[Min(pending("in", 1))].fd IN
    fd # ListenFd =>
      fd \in all_fds /\ (hung_up(fd) \/ frames[fd] > 0 \/ partial[fd] \/ peer[fd] # "up")

(* A banned client is gone before the loop reads any frame again: the ban,   *)
(* the shutdown it does and the hang-up pass fall in one iteration, so the   *)
(* check in handle_client_data never has to catch one.                       *)
BannedGoneBeforeReads == pc = "input" => live_ids \cap banned_ids_ = {}

(* Once stop is requested run() returns, even while a client that never      *)
(* finishes its frame holds it in a blocking read.                           *)
StopTerminates == ~running_ ~> pc = "done"

(* If clients complete the frames they begin, a connection whose peer is     *)
(* gone is closed and its id released.                                       *)
GonePeersRemoved ==
  FairClients => \A fd \in Fds : peer[fd] \in {"fin", "dying", "rst"} ~> peer[fd] = "none"

(* If clients complete the frames they begin, a connection waiting in the    *)
(* backlog is accepted, unless the process is out of descriptors or stopping.*)
BacklogServed ==
  FairClients => (backlog > 0 ~> (backlog = 0 \/ all_fds = Fds \/ ~running_))
===============================================================================
