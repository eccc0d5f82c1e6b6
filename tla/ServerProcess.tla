----------------------------- MODULE ServerProcess -----------------------------
(* The life of a server process: main() with ServerViewModel::run() on the   *)
(* main thread, admin_input_loop() on the console thread, and the signal     *)
(* handler, which the system runs on either of them, between any two steps.  *)
(* One client stands for the clients; ServerLoop has the passes of run() in  *)
(* detail, with a stop that is a single step.                                *)
EXTENDS Naturals

CONSTANTS
  MaxStops,      \* bound: signals delivered
  MaxTyped       \* bound: lines typed at the console

VARIABLES
  at,            \* where the main thread is
  console,       \* where the console thread is
  handler,       \* the step the handler takes next, 0 if it does not run
  interrupted,   \* the thread the handler runs on
  g_server,      \* set: handler and console thread call through it
  server,        \* "none", "alive", "destroyed"
  server_running_,
  listen_fd_,    \* "none", "created", "bound", "listening"; "none" again by close()
  client,        \* "none", "accepted", "registered", "polled"
  shut,          \* the client's connection was shut down
  eofbit,        \* of std::cin
  admin_queue_, typed, processed,   \* lines: how many, one after the other
  too_long,      \* the first line typed that bans more ids than a frame can
                 \* count, and so the first that cannot be sent; 0: none
  joinable,      \* the console thread is neither joined nor detached
  opened,        \* history: run() has got to its loop
  null_call,     \* history: the console thread called through a null g_server
  late,          \* history: a line was typed after g_server was cleared
  stops

io == <<eofbit, admin_queue_, typed, processed, too_long>>
clients == <<client, shut>>
life == <<g_server, server, joinable, opened>>
history == <<null_call, late, stops>>
process_vars ==
  <<at, console, handler, interrupted, life, server_running_, listen_fd_, clients, io, history>>

(* "failed": an exception was caught; "terminated": one was not, or a thread  *)
(* was left, and std::terminate() was called.                                *)
Ended == {"ended", "failed", "terminated"}

(* The main thread takes a step, if the handler does not run on it.          *)
main_step(from, to) ==
  /\ at = from /\ at' = to
  /\ handler # 0 => interrupted # "main"
  /\ UNCHANGED <<console, handler, interrupted, history>>

-------------------------------------------------------------------------------
(* main() up to run().  Until the console thread exists an exception is      *)
(* caught; afterwards it meets a thread that is still joinable, and the      *)
(* destructor of that calls std::terminate.                                  *)

load_config ==
  /\ main_step("config", "construct") \/ main_step("config", "failed")
  /\ UNCHANGED <<life, server_running_, listen_fd_, clients, io>>

construct ==
  /\ main_step("construct", "start_console")
  /\ server' = "alive" /\ g_server' = TRUE
  /\ UNCHANGED <<joinable, opened, server_running_, listen_fd_, clients, io>>

start_console ==
  /\ at = "start_console" /\ at' = "socket"
  /\ handler # 0 => interrupted # "main"
  /\ console' = "test" /\ joinable' = TRUE
  /\ UNCHANGED <<handler, interrupted, history, g_server, server, opened, server_running_,
                 listen_fd_, clients, io>>

(* TcpListenSocket::open(): each call may fail, and does without a socket.   *)
open_step(from, to, before, after) ==
  /\ \/ /\ main_step(from, to) /\ listen_fd_ = before /\ listen_fd_' = after
     \/ main_step(from, "terminated") /\ UNCHANGED listen_fd_
  /\ UNCHANGED <<life, server_running_, clients, io>>

open == \/ open_step("socket", "bind", "none", "created")
        \/ open_step("bind", "listen", "created", "bound")
        \/ open_step("listen", "show_listening", "bound", "listening")

show_listening ==
  /\ main_step("show_listening", "loop")
  /\ opened' = TRUE
  /\ UNCHANGED <<g_server, server, joinable, server_running_, listen_fd_, clients, io>>

-------------------------------------------------------------------------------
(* run().  What it throws leaves main() with the console thread joinable,    *)
(* like what open() throws.                                                  *)

while_running ==
  /\ main_step("loop", IF server_running_ THEN "admin" ELSE "disconnect")
  /\ UNCHANGED <<life, server_running_, listen_fd_, clients, io>>

(* All lines are taken, then handled one by one.  encode_banned_ids() throws *)
(* if a line bans more than 65535 new ids; the lines after it are lost.      *)
process_admin_queue ==
  /\ \/ /\ too_long \notin processed + 1 .. processed + admin_queue_
        /\ main_step("admin", "poll")
        /\ processed' = processed + admin_queue_
     \/ /\ too_long \in processed + 1 .. processed + admin_queue_
        /\ main_step("admin", "terminated")
        /\ processed' = too_long
  /\ admin_queue_' = 0
  /\ UNCHANGED <<life, server_running_, listen_fd_, clients, eofbit, typed, too_long>>

waits_for_event == FALSE

times_out == TRUE

(* The timeout of 200 ms or EINTR.                                           *)
poll ==
  /\ times_out /\ main_step("poll", "loop")
  /\ client' = IF client = "registered" THEN "polled" ELSE client
  /\ UNCHANGED <<shut, life, server_running_, listen_fd_, io>>

throws_anyway == "terminated"

(* An error while the server stops only ends the loop.  A stop that comes    *)
(* after this test is too late: test and throw are one step.                 *)
poll_error == IF server_running_ THEN "terminated" ELSE "disconnect"

(* Events, or an error.                                                      *)
poll_returns ==
  /\ main_step("poll", "events") \/ main_step("poll", poll_error)
  /\ client' = IF client = "registered" THEN "polled" ELSE client
  /\ UNCHANGED <<shut, life, server_running_, listen_fd_, io>>

(* Nothing, a hang-up, a connection or a frame.                              *)
events ==
  /\ \/ main_step("events", "loop") /\ UNCHANGED clients
     \/ /\ main_step("events", "loop") /\ server_running_
        /\ client = "polled" /\ client' = "none" /\ UNCHANGED shut
     \/ /\ main_step("events", "register")
        /\ client = "none" /\ client' = "accepted" /\ shut' = FALSE
        /\ listen_fd_ = "listening"
     \/ main_step("events", "receive") /\ server_running_ /\ client = "polled" /\ UNCHANGED clients
  /\ UNCHANGED <<life, server_running_, listen_fd_, io>>

register ==
  /\ main_step("register", "loop")
  /\ client' = "registered"
  /\ UNCHANGED <<shut, life, server_running_, listen_fd_, io>>

(* receive() waits for the client, or returns because it was shut down; a    *)
(* client that is gone is removed unless the server stops.                   *)
receive ==
  /\ shut
  /\ main_step("receive", "loop")
  /\ client' = IF server_running_ THEN "none" ELSE client
  /\ UNCHANGED <<shut, life, server_running_, listen_fd_, io>>

frame_arrives ==
  /\ main_step("receive", "loop")
  /\ UNCHANGED <<clients, life, server_running_, listen_fd_, io>>

disconnect_all_clients ==
  /\ main_step("disconnect", "clear")
  /\ client' = "none" /\ shut' = TRUE
  /\ UNCHANGED <<life, server_running_, listen_fd_, io>>

-------------------------------------------------------------------------------
(* main() after run(): what is left in the scope is destroyed, the thread    *)
(* before the server.                                                        *)

cleared == FALSE

clear_g_server ==
  /\ main_step("clear", "set_eof")
  /\ g_server' = cleared
  /\ UNCHANGED <<server, joinable, opened, server_running_, listen_fd_, clients, io>>

set_eof ==
  /\ main_step("set_eof", "detach")
  /\ eofbit' = TRUE
  /\ UNCHANGED <<admin_queue_, typed, processed, too_long, life, server_running_, listen_fd_,
                 clients>>

detach ==
  /\ main_step("detach", "destroy")
  /\ joinable' = FALSE
  /\ UNCHANGED <<g_server, server, opened, server_running_, listen_fd_, clients, io>>

destroy ==
  /\ \/ ~joinable /\ main_step("destroy", "ended") /\ server' = "destroyed"
     \/ joinable /\ main_step("destroy", "terminated") /\ UNCHANGED server
  /\ UNCHANGED <<g_server, joinable, opened, server_running_, listen_fd_, clients, io>>

-------------------------------------------------------------------------------
(* admin_input_loop(), while the process lives.                              *)

console_step(from, to) ==
  /\ console = from /\ console' = to
  /\ at \notin Ended
  /\ handler # 0 => interrupted # "console"
  /\ UNCHANGED <<at, handler, interrupted, life, server_running_, listen_fd_, clients, stops>>

test_g_server ==
  /\ console_step("test", IF g_server /\ ~eofbit THEN "getline" ELSE "returned")
  /\ UNCHANGED <<io, null_call, late>>

(* The user; setting eofbit does not wake a getline() that waits.            *)
type_line ==
  /\ console_step("getline", "test_again")
  /\ typed < MaxTyped /\ typed' = typed + 1
  /\ too_long' \in (IF too_long = 0 THEN {0, typed'} ELSE {too_long})
  /\ late' = (late \/ ~g_server)
  /\ UNCHANGED <<eofbit, admin_queue_, processed, null_call>>

end_input ==
  /\ console_step("getline", "returned")
  /\ UNCHANGED <<io, null_call, late>>

submits_anyway == TRUE

submits == g_server

test_again ==
  /\ console_step("test_again", IF submits THEN "submit" ELSE "returned")
  /\ UNCHANGED <<io, null_call, late>>

submit_admin_line ==
  /\ console_step("submit", IF g_server THEN "test" ELSE "returned")
  /\ IF g_server THEN admin_queue_' = admin_queue_ + 1 /\ UNCHANGED null_call
     ELSE null_call' = TRUE /\ UNCHANGED admin_queue_
  /\ UNCHANGED <<eofbit, typed, processed, too_long, late>>

-------------------------------------------------------------------------------
(* on_server_signal() and request_stop().  A wait of the thread it runs on   *)
(* returns with EINTR, which ends a getline() and a receive().               *)

on_server_signal(thread) ==
  /\ stops < MaxStops /\ stops' = stops + 1
  /\ handler = 0 /\ g_server /\ at \notin Ended
  /\ handler' = 1 /\ interrupted' = thread
  /\ \/ thread = "main" /\ at' = (IF at = "receive" THEN "loop" ELSE at) /\ UNCHANGED console
     \/ thread = "console" /\ console \notin {"none", "returned"}
        /\ console' = (IF console = "getline" THEN "returned" ELSE console) /\ UNCHANGED at
  /\ UNCHANGED <<life, server_running_, listen_fd_, clients, io, null_call, late>>

stop_waking_first == <<"close", "wake", "flag">>

stop_order == <<"flag", "close", "wake">>

request_stop ==
  /\ handler # 0 /\ at \notin Ended
  /\ handler' = (handler + 1) % 4
  /\ server_running_' = (server_running_ /\ stop_order[handler] # "flag")
  /\ listen_fd_' = IF stop_order[handler] = "close" THEN "none" ELSE listen_fd_
  /\ shut' = (shut \/ (stop_order[handler] = "wake" /\ client \in {"registered", "polled"}))
  /\ UNCHANGED <<at, console, interrupted, client, life, io, history>>

-------------------------------------------------------------------------------
ServerInit ==
  /\ at = "config" /\ console = "none" /\ handler = 0 /\ interrupted = "main"
  /\ g_server = FALSE /\ server = "none" /\ joinable = FALSE /\ opened = FALSE
  /\ server_running_ = TRUE /\ listen_fd_ = "none"
  /\ client = "none" /\ shut = FALSE
  /\ eofbit = FALSE /\ admin_queue_ = 0 /\ typed = 0 /\ processed = 0 /\ too_long = 0
  /\ null_call = FALSE /\ late = FALSE /\ stops = 0

main_thread ==
  \/ load_config \/ construct \/ start_console \/ open \/ show_listening
  \/ while_running \/ process_admin_queue \/ poll \/ events \/ register \/ receive
  \/ disconnect_all_clients \/ clear_g_server \/ set_eof \/ detach \/ destroy

console_thread == test_g_server \/ test_again \/ submit_admin_line

ServerNext ==
  \/ main_thread \/ console_thread \/ request_stop
  \/ poll_returns \/ frame_arrives \/ type_line \/ end_input
  \/ \E thread \in {"main", "console"} : on_server_signal(thread)
  \/ at \in Ended /\ UNCHANGED process_vars

(* The threads and the handler run unless they wait.  Clients, the user and  *)
(* whoever sends the signals owe nothing.                                    *)
ServerSpec ==
  /\ ServerInit /\ [][ServerNext]_process_vars
  /\ WF_process_vars(main_thread) /\ WF_process_vars(console_thread)
  /\ WF_process_vars(request_stop)

-------------------------------------------------------------------------------
(* Types; the pointer that handler and console thread call through is set    *)
(* only while the server exists.                                             *)
ServerTypeOK ==
  /\ console \in {"none", "test", "getline", "test_again", "submit", "returned"}
  /\ handler \in 0 .. 3
  /\ listen_fd_ \in {"none", "created", "bound", "listening"}
  /\ client \in {"none", "accepted", "registered", "polled"}
  /\ g_server => server = "alive"
  /\ processed + admin_queue_ <= typed /\ typed <= MaxTyped /\ too_long \in 0 .. typed

(* A stop is not a crash: once run() has got to its loop and running_ is     *)
(* cleared, std::terminate() is not called, wherever the signal falls and    *)
(* whatever poll() and the clients do -- unless the administrator typed a    *)
(* ban list too long to encode and run() has come to it.  An exception of a  *)
(* server that nobody stops does end there.                                  *)
StopOrderly ==
  opened /\ ~server_running_ /\ at = "terminated" => too_long # 0 /\ processed = too_long

(* A line typed after the server has gone is not given to it: the console    *)
(* thread, which nothing can wake or join, tests the pointer again.  (A line *)
(* that is tested just before the pointer is cleared is.)                    *)
LateLinesDropped == null_call => ~late

(* A stop ends the process, whichever thread the handler runs on and         *)
(* whichever of its steps the main thread gets between: a client that        *)
(* request_stop() did not see cannot make run() wait, and a getline() that   *)
(* waits does not keep the process.                                          *)
StopEnds == stops > 0 ~> at \in Ended

(* What the administrator types is processed soon, although no client may be *)
(* heard of: unless the server stops, or waits for a client in receive().    *)
LinesProcessed ==
  admin_queue_ > 0 ~> admin_queue_ = 0 \/ ~server_running_ \/ at \in Ended \union {"receive"}
===============================================================================
