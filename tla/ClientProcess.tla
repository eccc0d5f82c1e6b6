----------------------------- MODULE ClientProcess -----------------------------
(* The life of a client process: main(), ClientViewModel::run() and its      *)
(* destructor on the main thread, receive_loop() on the receiver thread, the *)
(* signal handler.  Both threads print through QueuedClientOutputView, which *)
(* is taken for what CommandExecutor shows it to be: what is accepted before *)
(* stop() is printed, in that order, before stop() returns.  Of the output,  *)
(* the start-up progress and the line that explains the exit are kept.       *)
(*                                                                           *)
(* What is said in the chat is left out (ChatClient, ChatSystem); a message  *)
(* either changes the key store and is answered, or is only shown.           *)
EXTENDS Integers, Sequences

CONSTANTS
  ConfigFiles,   \* [ends: bytes up to the end of each line, with its newline;
                 \*  newline: does the last line have one]
  MaxSignals,    \* bound: signals delivered
  MaxLines,      \* bound: lines typed
  MaxIncoming    \* bound: messages received

Threads == {"main", "receiver"}

ASSUME ProcessConstants ==
  /\ MaxSignals \in Nat /\ MaxLines \in Nat /\ MaxIncoming \in Nat
  /\ \A file \in ConfigFiles :
       /\ file.ends \in Seq(Nat \ {0}) /\ file.newline \in BOOLEAN
       /\ \A j, k \in DOMAIN file.ends : j < k => file.ends[j] < file.ends[k]

VARIABLES
  main, receiver,    \* where the two threads are
  config,            \* [file, line: how many are read, last_percent: reported]
  todo,              \* thread -> what it posts before it goes on
  console,           \* what the output queue has accepted, and so prints
  output_open,       \* it has not been stopped
  g_client_vm,       \* set: the signal handler calls through it
  view_model,        \* "none", "alive", "destroyed"
  vm_running_,       \* ClientViewModel::running_
  exit_announced_,
  socket,            \* "none", "open", "shut" (by ::shutdown), "closed"
  socket_fd_,        \* the handler can see the socket
  server_up,         \* the server's end of the connection
  fd0,               \* what descriptor 0 is
  closed_by_mistake, \* history: what else close(STDIN_FILENO) has closed
  keys, keystore,    \* changes made to the key store; those in its file
  threw,             \* run() ended by an exception
  left,              \* history: the user asked to leave
  save_failed,       \* history: the key store could not be opened or written
  signals, lines, incoming

output == <<console, output_open>>
inputs == <<config, signals, lines, incoming, left>>
ending == <<exit_announced_, threw, g_client_vm, view_model>>
net == <<socket, socket_fd_, server_up>>
files == <<fd0, closed_by_mistake, keys, keystore, save_failed>>
rest == <<output, inputs, ending, vm_running_, net, files>>
allvars == <<main, receiver, todo, output, inputs, ending, vm_running_, net, files>>

kUnsaved == 0
NoFile == [line |-> 0]

-------------------------------------------------------------------------------
(* Output: a thread posts what it has to say before it takes its next step.  *)

status(percent) == <<"status", percent>>
exiting == <<"exiting">>
server_disconnected == <<"server_disconnected">>

says(t, what) == todo' = [todo EXCEPT ![t] = what]

say(t) ==
  /\ todo[t] # <<>>
  /\ console' = IF output_open THEN Append(console, Head(todo[t])) ELSE console
  /\ says(t, Tail(todo[t]))
  /\ UNCHANGED <<main, receiver, output_open, inputs, ending, vm_running_, net, files>>

announce_exit(t, what) ==
  exit_announced_' = TRUE /\ says(t, IF exit_announced_ THEN <<>> ELSE <<what>>)

-------------------------------------------------------------------------------
(* Descriptors: a new one is the lowest that is free, so 0 once stdin has    *)
(* been closed.                                                              *)

opens(what) == fd0' = IF fd0 = "closed" THEN what ELSE fd0

left_connected == socket

shut_down == IF socket_fd_ /\ socket = "open" THEN "shut" ELSE socket

left_open == fd0

close_stdin == "closed"

request_shutdown(unblock_stdin) ==
  /\ vm_running_' = FALSE
  /\ socket' = IF unblock_stdin /\ fd0 = "socket" THEN "closed" ELSE shut_down
  /\ IF unblock_stdin
     THEN /\ fd0' = close_stdin
          /\ closed_by_mistake' = closed_by_mistake \cup ({fd0} \ {"terminal", "closed"})
     ELSE UNCHANGED <<fd0, closed_by_mistake>>
  /\ UNCHANGED <<socket_fd_, server_up>>

-------------------------------------------------------------------------------
(* Start-up on the main thread.  The configuration is read in a thread of    *)
(* its own, for which main() waits.                                          *)

(* The percentage after a number of bytes of the file.  A last line without  *)
(* a newline is counted with one, so that it may exceed 100.                 *)
uncapped(percent) == percent

capped(percent) == IF percent < 100 THEN percent ELSE 100

size(file) ==
  LET count == Len(file.ends)
  IN IF count = 0 THEN 0 ELSE IF file.newline THEN file.ends[count] ELSE file.ends[count] - 1

map_config_file_percent(percent) == 10 + (percent * 25) \div 100

step(from, to) == main = from /\ todo.main = <<>> /\ main' = to /\ UNCHANGED receiver

throws(from) == step(from, "unwind") /\ threw' = TRUE

load_client_config ==
  /\ \/ /\ step("config", "read_config") /\ UNCHANGED threw
        /\ \E file \in ConfigFiles :
             config' = [file |-> file, line |-> 0, last_percent |-> -1]
        /\ says("main", <<status(5), status(10), status(map_config_file_percent(0))>>)
     \/ /\ throws("config")                                      \* no such file
        /\ says("main", <<status(5), status(10)>>) /\ UNCHANGED config
  /\ UNCHANGED <<output, signals, lines, incoming, left, exit_announced_, g_client_vm, view_model,
                 vm_running_, net, files>>

read_config_line ==
  LET total == size(config.file)
      line == config.line + 1
      percent == (config.file.ends[line] * 100) \div total
      reported == total > 0 /\ percent # config.last_percent
  IN
  /\ step("read_config", "read_config")
  /\ config.line < Len(config.file.ends)
  /\ config' = [config EXCEPT !.line = line, !.last_percent = IF reported THEN percent ELSE @]
  /\ says("main", IF reported THEN <<status(map_config_file_percent(capped(percent)))>> ELSE <<>>)
  /\ UNCHANGED <<output, signals, lines, incoming, left, ending, vm_running_, net, files>>

config_ready ==
  LET loaded == status(map_config_file_percent(100)) IN
  /\ \/ step("read_config", "construct") /\ says("main", <<loaded, status(40)>>)
        /\ UNCHANGED threw
     \/ throws("read_config") /\ says("main", <<loaded>>)         \* not a number
  /\ config.line = Len(config.file.ends) /\ config' = NoFile
  /\ UNCHANGED <<output, signals, lines, incoming, left, exit_announced_, g_client_vm, view_model,
                 vm_running_, net, files>>

construct ==
  /\ step("construct", "logger")
  /\ view_model' = "alive" /\ g_client_vm' = TRUE
  /\ UNCHANGED <<todo, output, inputs, exit_announced_, threw,
                 vm_running_, net, files>>

(* The log stays open.                                                       *)
init_logger ==
  /\ step("logger", "identity")
  /\ opens("log") \/ UNCHANGED fd0       \* "Cannot open log file"
  /\ UNCHANGED <<todo, output, inputs, ending, vm_running_, net,
                 closed_by_mistake, keys, keystore, save_failed>>

load_or_create_identity ==
  /\ step("identity", "socket")
  /\ keys' = 1
  /\ keystore' = 1 \/ UNCHANGED keystore    \* loaded, or a new pair of keys
  /\ says("main", <<status(45)>>)
  /\ UNCHANGED <<output, inputs, ending, vm_running_, net,
                 fd0, closed_by_mistake, save_failed>>

create_socket ==
  /\ step("socket", "connecting")
  /\ opens("socket")
  /\ UNCHANGED <<todo, output, inputs, ending, vm_running_, net,
                 closed_by_mistake, keys, keystore, save_failed>>

(* The connector closes the socket of a failed connect().                    *)
connect ==
  /\ \/ step("connecting", "connected")
        /\ server_up /\ "socket" \notin closed_by_mistake
        /\ socket' = "open"
        /\ UNCHANGED <<threw, fd0>>
     \/ throws("connecting")
        /\ UNCHANGED socket
        /\ fd0' = (IF fd0 = "socket" THEN "closed" ELSE fd0)
  /\ UNCHANGED <<todo, output, inputs, exit_announced_, g_client_vm, view_model,
                 vm_running_, socket_fd_, server_up,
                 closed_by_mistake, keys, keystore, save_failed>>

store_socket_fd ==
  /\ step("connected", "await_id")
  /\ socket_fd_' = TRUE
  /\ says("main", <<status(60), status(75)>>)
  /\ UNCHANGED <<output, inputs, ending, vm_running_, socket, server_up, files>>

lost_if_shut == socket # "open"

(* Connection lost, or a hang-up that read_exact gives precedence to.        *)
lost == socket # "open" \/ ~server_up

receive_assigned_id ==
  /\ \/ /\ ~lost
        /\ \E create_room, has_nickname \in BOOLEAN :
             /\ step("await_id", IF has_nickname THEN "register" ELSE "ready")
             /\ keys' = IF create_room THEN keys + 1 ELSE keys
             /\ says("main", IF has_nickname THEN <<status(85), status(92)>> ELSE <<status(85)>>)
        /\ UNCHANGED threw
     \/ lost /\ throws("await_id") /\ UNCHANGED <<todo, keys>>
  /\ UNCHANGED <<output, inputs, exit_announced_, g_client_vm, view_model,
                 vm_running_, net, fd0, closed_by_mistake, keystore, save_failed>>

(* send() blocks while the server does not read, and fails once the          *)
(* connection is gone.                                                       *)
sent == socket = "open"

send_fails == lost

(* The first frame finds the socket's buffer empty and does not block.       *)
register_nickname ==
  /\ \/ step("register", "ready") /\ (sent \/ send_fails) /\ UNCHANGED threw
     \/ throws("register")                               \* the nickname is too long
  /\ UNCHANGED <<todo, output, inputs, exit_announced_, g_client_vm, view_model,
                 vm_running_, net, files>>

startup_complete ==
  /\ step("ready", "start")
  /\ says("main", <<status(100)>>)
  /\ UNCHANGED rest

start_receiver ==
  /\ main = "start" /\ todo.main = <<>> /\ main' = "loop"
  /\ receiver' = "loop"
  /\ UNCHANGED <<todo, rest>>

-------------------------------------------------------------------------------
(* input_loop().                                                             *)

input_loop ==
  /\ step("loop", IF vm_running_ THEN "read_line" ELSE "announce")
  /\ UNCHANGED <<todo, rest>>

(* A read that is blocked is not interrupted by the close() of another       *)
(* thread; one that begins after it fails.                                   *)
read_line ==
  /\ step("read_line", IF fd0 = "terminal" THEN "blocked" ELSE "announce")
  /\ UNCHANGED <<todo, rest>>

exit_disconnects == request_shutdown(FALSE)

exit_command == vm_running_' = FALSE /\ UNCHANGED <<net, fd0, closed_by_mistake>>

type_line ==
  /\ lines < MaxLines /\ lines' = lines + 1
  /\ \/ /\ \/ step("blocked", "loop") /\ UNCHANGED threw     \* empty or invalid
           \/ step("blocked", "send") /\ UNCHANGED threw
           \/ throws("blocked")                           \* a number or text too long
        /\ UNCHANGED <<vm_running_, net, fd0, closed_by_mistake, left>>
     \/ step("blocked", "loop") /\ exit_command /\ left' = TRUE /\ UNCHANGED threw
  /\ UNCHANGED <<todo, output, config, signals, incoming, exit_announced_, g_client_vm,
                 view_model, keys, keystore, save_failed>>

end_input ==
  /\ step("blocked", "announce")
  /\ left' = TRUE
  /\ UNCHANGED <<todo, output, config, signals, lines, incoming, ending, vm_running_, net, files>>

send_chat(can) ==
  /\ step("send", "loop")
  /\ can
  /\ UNCHANGED <<todo, rest>>

-------------------------------------------------------------------------------
(* The end on the main thread: run() after input_loop(), then main().        *)

announce ==
  /\ step("announce", "request")
  /\ announce_exit("main", exiting)
  /\ UNCHANGED <<output, inputs, g_client_vm, view_model, threw, vm_running_, net, files>>

(* In run(), and again in the destructor of the view model.                  *)
request ==
  /\ step("request", "clear") \/ step("destroy", "join")
  /\ request_shutdown(FALSE)
  /\ UNCHANGED <<todo, output, inputs, ending, keys, keystore, save_failed>>

still_set == g_client_vm

cleared == FALSE

clear_g_client_vm ==
  /\ step("clear", "stop_output") \/ step("catch", "ended")
  /\ g_client_vm' = cleared
  /\ UNCHANGED <<todo, output, inputs, exit_announced_, view_model, threw,
                 vm_running_, net, files>>

(* output.stop(), and again in the destructor of the executor.               *)
stop_output ==
  /\ \/ step("stop_output", "destroy")
     \/ step("destroy_output", IF threw THEN "catch" ELSE "ended")
  /\ output_open' = FALSE
  /\ UNCHANGED <<todo, console, inputs, ending, vm_running_, net, files>>

unwind ==
  /\ step("unwind", IF view_model = "alive" THEN "destroy" ELSE "destroy_output")
  /\ UNCHANGED <<todo, rest>>

joined_anyway == TRUE

receiver_joined == receiver \in {"none", "returned"}

join_receiver ==
  /\ receiver_joined
  /\ step("join", IF keys = 0 THEN "close" ELSE "save")
  /\ UNCHANGED <<todo, rest>>

(* save() truncates the file and writes it; a write that fails only when the *)
(* stream is flushed and closed goes unnoticed.                              *)
open_keystore ==
  /\ \/ step("save", "write") /\ opens("keystore") /\ keystore' = kUnsaved
        /\ UNCHANGED save_failed
     \/ step("save", "close") /\ save_failed' = TRUE /\ UNCHANGED <<fd0, keystore>>
  /\ UNCHANGED <<todo, output, inputs, ending, vm_running_, net, closed_by_mistake, keys>>

save_keystore ==
  /\ step("write", "close")
  /\ \/ "keystore" \notin closed_by_mistake /\ keystore' = keys /\ UNCHANGED save_failed
     \/ save_failed' = TRUE /\ UNCHANGED keystore
  /\ fd0' = IF fd0 = "keystore" THEN "closed" ELSE fd0
  /\ UNCHANGED <<todo, output, inputs, ending, vm_running_, net, closed_by_mistake, keys>>

socket_closed == IF socket = "none" THEN "none" ELSE "closed"

close_socket ==
  /\ step("close", "destroy_output")
  /\ socket' = socket_closed
  /\ socket_fd_' = FALSE
  /\ fd0' = IF fd0 = "socket" THEN "closed" ELSE fd0
  /\ view_model' = "destroyed"
  /\ UNCHANGED <<todo, output, inputs, exit_announced_, g_client_vm, threw,
                 vm_running_, server_up,
                 closed_by_mistake, keys, keystore, save_failed>>

-------------------------------------------------------------------------------
(* receive_loop() on the receiver thread.                                    *)

rstep(from, to) == receiver = from /\ todo.receiver = <<>> /\ receiver' = to /\ UNCHANGED main

receive_loop ==
  /\ rstep("loop", IF vm_running_ THEN "receive" ELSE "returned")
  /\ UNCHANGED <<todo, rest>>

receive ==
  /\ ~lost /\ incoming < MaxIncoming /\ incoming' = incoming + 1
  /\ rstep("receive", "handle")
  /\ UNCHANGED <<todo, output, config, signals, lines, left, ending, vm_running_, net, files>>

(* A key is stored and answered; anything else, and what cannot be decoded,  *)
(* is shown.                                                                 *)
handle_incoming ==
  /\ \/ rstep("handle", "send") /\ keys' = keys + 1
     \/ rstep("handle", "loop") /\ UNCHANGED keys
  /\ UNCHANGED <<todo, output, inputs, ending, vm_running_, net,
                 fd0, closed_by_mistake, keystore, save_failed>>

answer(can) ==
  /\ rstep("send", "loop")
  /\ can
  /\ UNCHANGED <<todo, rest>>

server_lost ==
  /\ lost
  /\ rstep("receive", "unblock")
  /\ announce_exit("receiver", server_disconnected)
  /\ UNCHANGED <<output, inputs, g_client_vm, view_model, threw, vm_running_, net, files>>

unblock_main ==
  /\ rstep("unblock", "returned")
  /\ request_shutdown(TRUE)
  /\ UNCHANGED <<todo, output, inputs, ending, keys, keystore, save_failed>>

-------------------------------------------------------------------------------
(* The signal handler runs on the main thread: a blocked read returns EINTR, *)
(* and so does connect() if it has begun.  A destroyed object still says     *)
(* that no socket is open.                                                   *)
on_client_signal ==
  /\ signals < MaxSignals /\ signals' = signals + 1
  /\ main # "ended" /\ g_client_vm
  /\ request_shutdown(TRUE)
  /\ \/ main = "blocked" /\ main' = "announce" /\ UNCHANGED threw
     \/ main = "connecting" /\ main' = "unwind" /\ threw' = TRUE
     \/ main # "blocked" /\ UNCHANGED <<main, threw>>
  /\ UNCHANGED <<receiver, todo, output, config, lines, incoming, left, exit_announced_,
                 g_client_vm, view_model, keys, keystore, save_failed>>

server_goes ==
  /\ server_up /\ server_up' = FALSE
  /\ UNCHANGED <<main, receiver, todo, output, inputs, ending, vm_running_, socket,
                 socket_fd_, files>>

-------------------------------------------------------------------------------
ProcessInit ==
  /\ main = "config" /\ receiver = "none" /\ config = NoFile
  /\ todo = [t \in Threads |-> <<>>] /\ console = <<>> /\ output_open = TRUE
  /\ g_client_vm = FALSE /\ view_model = "none"
  /\ vm_running_ = TRUE /\ exit_announced_ = FALSE
  /\ socket = "none" /\ socket_fd_ = FALSE /\ server_up = TRUE
  /\ fd0 = "terminal" /\ closed_by_mistake = {}
  /\ keys = 0 /\ keystore = kUnsaved
  /\ save_failed = FALSE /\ threw = FALSE /\ left = FALSE
  /\ signals = 0 /\ lines = 0 /\ incoming = 0

main_thread ==
  \/ say("main")
  \/ load_client_config \/ read_config_line \/ config_ready
  \/ construct \/ init_logger \/ load_or_create_identity
  \/ create_socket \/ connect \/ store_socket_fd \/ receive_assigned_id
  \/ register_nickname \/ startup_complete \/ start_receiver
  \/ input_loop \/ read_line \/ send_chat(send_fails)
  \/ announce \/ request \/ clear_g_client_vm \/ stop_output
  \/ unwind \/ join_receiver \/ open_keystore \/ save_keystore
  \/ close_socket

receiver_thread ==
  \/ say("receiver") \/ receive_loop \/ handle_incoming
  \/ answer(send_fails) \/ server_lost \/ unblock_main

user == type_line \/ end_input

server == send_chat(sent) \/ answer(sent) \/ receive

ProcessNext ==
  \/ main_thread \/ receiver_thread \/ user \/ server
  \/ on_client_signal \/ server_goes
  \/ main = "ended" /\ UNCHANGED allvars

(* Threads run unless they are blocked.  A server that is up accepts and     *)
(* sends the id (ServerLoop: BacklogServed); it need not read.  The user and *)
(* the sender of signals owe nothing.                                        *)
ProcessSpec ==
  /\ ProcessInit /\ [][ProcessNext]_allvars
  /\ WF_allvars(main_thread) /\ WF_allvars(receiver_thread)

-------------------------------------------------------------------------------
(* Properties.                                                               *)

(* Types; the socket is open only between connect() and the end of the view  *)
(* model, and the descriptor is published only once there is a socket.       *)
ProcessTypeOK ==
  /\ receiver \in {"none", "loop", "receive", "handle", "send", "unblock", "returned"}
  /\ view_model \in {"none", "alive", "destroyed"}
  /\ fd0 \in {"terminal", "closed", "log", "socket", "keystore"}
  /\ socket \in {"none", "open", "shut", "closed"}
  /\ (socket_fd_ => socket # "none") /\ (socket \in {"open", "shut"} => view_model = "alive")

shown(what) == {k \in DOMAIN console : console[k] = what}

(* How a session ended is said at most once and is true: a user who did not  *)
(* leave (and was not interrupted) reads that the server closed the          *)
(* connection, and one whose server is still there reads that the client is  *)
(* leaving and nothing else.  announce_exit() is raced by both threads.      *)
ExitExplained ==
  main = "ended" /\ ~threw =>
    /\ \A j, k \in shown(exiting) \cup shown(server_disconnected) : j = k
    /\ ~left /\ signals = 0 => shown(server_disconnected) # {}
    /\ server_up /\ signals = 0 => shown(exiting) # {}

(* The key store on disk holds every key the receiver thread has learned, in *)
(* every way the process can end, unless the file could not be written.      *)
KeysSaved ==
  main = "ended" /\ keys > 0 /\ ~save_failed => keystore = keys

(* The signal handler does no harm: it can never call into a destroyed view  *)
(* model, and close(STDIN_FILENO) never closes a file that has been given    *)
(* descriptor 0 meanwhile -- unless run() threw, or there is a second signal.*)
HandlerHarmless ==
  ~threw => /\ g_client_vm => view_model = "alive"
            /\ signals <= 1 => closed_by_mistake = {}

(* Start-up progress shown on the console stays in 0..100 and never goes     *)
(* back, although the percentages come from two scales and two threads.      *)
ProgressForward ==
  LET statuses == {k \in DOMAIN console : console[k][1] = "status"}
  IN \A k \in statuses :
       /\ console[k][2] \in 0 .. 100
       /\ \A j \in statuses : j < k => console[j][2] <= console[k][2]

(* Once the receiver thread has given up, the main thread never again waits  *)
(* for a line: request_shutdown() has cleared running_ and closed stdin.     *)
NeverWaitsAgain ==
  [][receiver = "returned" /\ main # "blocked" => main' # "blocked"]_allvars

(* A user who leaves, or who interrupts the client, gets the process to end  *)
(* although both threads may be blocked in a receive or a send and the       *)
(* server reads nothing: request_shutdown() wakes them.                      *)
LeavingEnds == left \/ signals > 0 ~> main = "ended"

(* Whenever the server goes, in start-up, in a receive or in a send, the     *)
(* process ends or the user is told: receive_loop() announces the loss       *)
(* although the main thread may wait for a line, and while it is waiting the *)
(* output queue still prints.                                                *)
ServerLossShown == ~server_up ~> main = "ended" \/ shown(server_disconnected) # {}

(* What the documents promise: a client ends by itself when the server stops *)
(* (src/README.md:80), since closing stdin wakes getline()                   *)
(* (ClientViewModel.hpp:35).  It does not when getline() already waits.      *)
EndsByItself == ~server_up ~> main = "ended"
===============================================================================
