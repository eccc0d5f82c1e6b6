-------------------------- MODULE ClientProcessProofs --------------------------
(* Proofs about ClientProcess, for any configuration files and any number of *)
(* signals, lines and messages.                                              *)
EXTENDS ClientProcess, TLAPS

starting == {"config", "read_config", "construct", "logger", "identity", "socket", "connecting",
             "connected", "await_id", "register", "ready", "start"}
saving == {"save", "write", "close", "destroy_output", "catch", "ended"}
unhandled == {"stop_output", "destroy", "join", "save", "write", "close", "destroy_output",
              "ended"}

(* The receiver thread runs only between its start and its join, and the     *)
(* view model lives from construct to the end of its destructor; before it   *)
(* there are no keys.                                                        *)
Lifetimes ==
  /\ receiver \in {"none", "loop", "receive", "handle", "send", "unblock", "returned"}
  /\ view_model \in {"none", "alive", "destroyed"}
  /\ main \in starting => receiver = "none"
  /\ main \in saving => receiver \in {"none", "returned"}
  /\ view_model = "none" =>
       /\ main \in {"config", "read_config", "construct", "unwind", "destroy_output", "catch",
                     "ended"}
       /\ receiver = "none" /\ keys = 0
  /\ view_model = "destroyed" => main \in {"destroy_output", "catch", "ended"}

(* Without an exception the handler is uninstalled before the view model is  *)
(* destroyed.                                                                *)
Handler ==
  /\ main \in {"unwind", "catch"} => threw
  /\ ~threw /\ main \in unhandled => ~g_client_vm
  /\ g_client_vm => view_model # "none"

(* A socket that is visible to the handler exists.                           *)
Sockets ==
  /\ socket \in {"none", "open", "shut", "closed"}
  /\ socket_fd_ \/ main = "connected" => socket # "none"
  /\ socket \in {"open", "shut"} => view_model = "alive"

(* Without an exception descriptor 0 is closed first by a signal or by the   *)
(* receiver as it returns.  A log or a socket gets it only after a signal,   *)
(* and then the receiver returns at once; the key store only once the        *)
(* receiver has been joined and the handler uninstalled.                     *)
Descriptor0 ==
  /\ fd0 \in {"terminal", "closed", "log", "socket", "keystore"}
  /\ signals \in Nat
  /\ receiver = "returned" => ~vm_running_
  /\ ~vm_running_ /\ fd0 = "terminal" => main # "read_line"
  /\ ~threw =>
       /\ fd0 # "terminal" => ~vm_running_ /\ (signals >= 1 \/ receiver = "returned")
       /\ fd0 \in {"log", "socket"} =>
            signals >= 1 /\ receiver \in {"none", "loop", "returned"}
       /\ fd0 = "keystore" => main = "write"
       /\ signals <= 1 => closed_by_mistake = {}

(* From the end of save() on, the file has every key or the save has failed. *)
Saved ==
  /\ keys \in Nat
  /\ main \in saving \ {"save", "write"} /\ keys > 0 /\ ~save_failed => keystore = keys

(* The inductive invariant.                                                  *)
IInv == Lifetimes /\ Handler /\ Sockets /\ Descriptor0 /\ Saved

(* What the parts give.                                                      *)
LEMMA InvImplies == IInv => ProcessTypeOK /\ KeysSaved /\ HandlerHarmless
BY DEF IInv, Lifetimes, Handler, Sockets, Descriptor0, Saved, saving, unhandled, ProcessTypeOK,
   KeysSaved, HandlerHarmless

(* Start-up: the handler is installed with the view model.                   *)
LEMMA StartupSafe ==
  ASSUME IInv,
         (load_client_config \/ read_config_line \/ config_ready \/ construct \/
          init_logger \/ load_or_create_identity \/ create_socket \/ connect \/
          store_socket_fd \/ receive_assigned_id \/
          register_nickname \/ startup_complete \/ start_receiver)
  PROVE  IInv'
<1> USE DEF IInv, Lifetimes, Handler, Sockets, Descriptor0, Saved, starting, saving,
        unhandled, step, rstep, throws, rest, output, inputs, ending, net, files
<1>1. CASE load_client_config
  BY <1>1 DEF load_client_config
<1>2. CASE construct
  BY <1>2 DEF construct
<1>3. CASE init_logger
  BY <1>3 DEF init_logger, opens
<1>4. CASE load_or_create_identity
  BY <1>4 DEF load_or_create_identity
<1>5. CASE create_socket
  BY <1>5 DEF create_socket, opens
<1>6. CASE connect
  BY <1>6, Zenon DEF connect
<1>7. CASE store_socket_fd
  BY <1>7, Zenon DEF store_socket_fd
<1>8. CASE receive_assigned_id
  BY <1>8 DEF receive_assigned_id
<1>9. CASE register_nickname
  BY <1>9 DEF register_nickname
<1>10. CASE startup_complete
  BY <1>10 DEF startup_complete
<1>11. CASE start_receiver
  BY <1>11, SMTT(40) DEF start_receiver
<1>12. CASE read_config_line
  BY <1>12, ZenonT(40) DEF read_config_line
<1>13. CASE config_ready
  BY <1>13, SMTT(40) DEF config_ready
<1> QED BY <1>1, <1>2, <1>3, <1>4, <1>5, <1>6, <1>7, <1>8, <1>9, <1>10, <1>11, <1>12, <1>13,
           Zenon

(* The input loop, and what the user does.                                   *)
LEMMA InputSafe ==
  ASSUME IInv,
         (input_loop \/ read_line \/ type_line \/ end_input \/ send_chat(sent) \/
          send_chat(send_fails))
  PROVE  IInv'
<1> USE DEF IInv, Lifetimes, Handler, Sockets, Descriptor0, Saved, starting, saving,
        unhandled, step, rstep, throws, rest, output, inputs, ending, net, files
<1>1. CASE input_loop
  BY <1>1 DEF input_loop
<1>2. CASE read_line
  BY <1>2 DEF read_line
<1>3. CASE type_line
  BY <1>3 DEF type_line, exit_command, request_shutdown, shut_down
<1>4. CASE end_input
  BY <1>4 DEF end_input
<1>5. CASE send_chat(sent)
  BY <1>5 DEF send_chat
<1>6. CASE send_chat(send_fails)
  BY <1>6 DEF send_chat
<1> QED BY <1>1, <1>2, <1>3, <1>4, <1>5, <1>6, Zenon

(* The end of run() and main().                                              *)
LEMMA EndSafe ==
  ASSUME IInv,
         (announce \/ request \/ clear_g_client_vm \/ stop_output \/ unwind \/ join_receiver
          \/ open_keystore \/ save_keystore \/ close_socket)
  PROVE  IInv'
<1> USE DEF IInv, Lifetimes, Handler, Sockets, Descriptor0, Saved, starting, saving,
        unhandled, step, rstep, throws, rest, output, inputs, ending, net, files
<1>1. CASE announce
  BY <1>1 DEF announce, announce_exit
<1>2. CASE request
  BY <1>2 DEF request, request_shutdown, shut_down
<1>3. CASE clear_g_client_vm
  BY <1>3 DEF clear_g_client_vm, cleared
<1>4. CASE stop_output
  BY <1>4 DEF stop_output
<1>5. CASE unwind
  BY <1>5 DEF unwind
<1>6. CASE join_receiver
  BY <1>6 DEF join_receiver, receiver_joined
<1>7. CASE open_keystore
  BY <1>7 DEF open_keystore, opens, kUnsaved
<1>8. CASE save_keystore
  BY <1>8 DEF save_keystore
<1>9. CASE close_socket
  BY <1>9 DEF close_socket, socket_closed
<1> QED BY <1>1, <1>2, <1>3, <1>4, <1>5, <1>6, <1>7, <1>8, <1>9, Zenon

(* The receiver thread: it alone learns keys, and closes stdin once.         *)
LEMMA ReceiverSafe ==
  ASSUME IInv,
         (receive_loop \/ receive \/ handle_incoming \/ answer(sent) \/ answer(send_fails)
          \/ server_lost \/ unblock_main)
  PROVE  IInv'
<1> USE DEF IInv, Lifetimes, Handler, Sockets, Descriptor0, Saved, starting, saving,
        unhandled, step, rstep, throws, rest, output, inputs, ending, net, files
<1>1. CASE receive_loop
  BY <1>1 DEF receive_loop
<1>2. CASE receive
  BY <1>2 DEF receive
<1>3. CASE handle_incoming
  BY <1>3 DEF handle_incoming
<1>4. CASE answer(sent)
  BY <1>4 DEF answer
<1>5. CASE answer(send_fails)
  BY <1>5 DEF answer
<1>6. CASE server_lost
  BY <1>6 DEF server_lost, announce_exit
<1>7. CASE unblock_main
  BY <1>7 DEF unblock_main, request_shutdown, shut_down, close_stdin
<1> QED BY <1>1, <1>2, <1>3, <1>4, <1>5, <1>6, <1>7, Zenon

(* Signals, the server, and the output queue.                                *)
LEMMA OutsideSafe ==
  ASSUME IInv,
         (on_client_signal \/ server_goes \/ say("main") \/ say("receiver"))
  PROVE  IInv'
<1> USE DEF IInv, Lifetimes, Handler, Sockets, Descriptor0, Saved, starting, saving,
        unhandled, step, rstep, throws, rest, output, inputs, ending, net, files
<1>1. CASE on_client_signal
  BY <1>1 DEF on_client_signal, request_shutdown, shut_down, close_stdin
<1>2. CASE server_goes
  BY <1>2 DEF server_goes
<1>3. CASE say("main")
  BY <1>3 DEF say
<1>4. CASE say("receiver")
  BY <1>4 DEF say
<1> QED BY <1>1, <1>2, <1>3, <1>4, Zenon

(* The invariant holds throughout.                                           *)
THEOREM ProcessSafety == ProcessSpec => []IInv
<1>1. ProcessInit => IInv
  BY DEF ProcessInit, IInv, Lifetimes, Handler, Sockets, Descriptor0, Saved, starting, saving,
     unhandled
<1>2. IInv /\ [ProcessNext]_allvars => IInv'
  <2> SUFFICES ASSUME IInv, [ProcessNext]_allvars PROVE IInv'
    BY Zenon
  <2>1. CASE UNCHANGED allvars
    BY <2>1 DEF allvars, output, inputs, ending, net, files, IInv, Lifetimes, Handler, Sockets,
       Descriptor0, Saved
  <2>2. CASE main_thread
    BY <2>2, StartupSafe, InputSafe, EndSafe, OutsideSafe DEF main_thread
  <2>3. CASE receiver_thread
    BY <2>3, ReceiverSafe, OutsideSafe DEF receiver_thread
  <2>4. CASE user \/ server
    BY <2>4, InputSafe, ReceiverSafe DEF user, server
  <2>5. CASE on_client_signal \/ server_goes
    BY <2>5, OutsideSafe
  <2> QED BY <2>1, <2>2, <2>3, <2>4, <2>5 DEF ProcessNext
<1> QED BY <1>1, <1>2, PTL DEF ProcessSpec

(* Types; the socket is open only while the view model lives.                *)
THEOREM ProcessTypeTheorem == ProcessSpec => []ProcessTypeOK
BY ProcessSafety, InvImplies, PTL

(* However the process ends, the key store on disk holds every key that was  *)
(* learned, unless it could not be written.                                  *)
THEOREM KeysSavedTheorem == ProcessSpec => []KeysSaved
BY ProcessSafety, InvImplies, PTL

(* The signal handler finds the view model alive, and closes no file that    *)
(* has taken descriptor 0 over.                                              *)
THEOREM HandlerHarmlessTheorem == ProcessSpec => []HandlerHarmless
BY ProcessSafety, InvImplies, PTL

(* Once the receiver thread has returned, the main thread never again waits  *)
(* for a line.                                                               *)
THEOREM NeverWaitsAgainTheorem == ProcessSpec => NeverWaitsAgain
<1>1. IInv /\ [ProcessNext]_allvars =>
        [receiver = "returned" /\ main # "blocked" => main' # "blocked"]_allvars
  <2> SUFFICES ASSUME IInv, ProcessNext, receiver = "returned", main # "blocked"
               PROVE  main' # "blocked"
    OBVIOUS
  <2> USE DEF step, throws, rstep
  <2>1. CASE read_line
    BY <2>1, ZenonT(40) DEF IInv, Descriptor0, read_line
  <2>2. CASE \/ load_client_config \/ read_config_line \/ config_ready \/ construct
             \/ init_logger \/ load_or_create_identity \/ create_socket \/ connect
             \/ store_socket_fd \/ receive_assigned_id
             \/ register_nickname \/ startup_complete \/ start_receiver
    BY <2>2, Zenon DEF load_client_config, read_config_line, config_ready, construct,
       init_logger, load_or_create_identity, create_socket, connect, store_socket_fd,
       receive_assigned_id, register_nickname, startup_complete, start_receiver
  <2>3. CASE \/ input_loop \/ send_chat(send_fails) \/ announce \/ request
             \/ clear_g_client_vm \/ stop_output \/ unwind \/ join_receiver
             \/ open_keystore \/ save_keystore \/ close_socket \/ user \/ server
    BY <2>3, Zenon DEF input_loop, send_chat, announce, request, clear_g_client_vm,
       stop_output, unwind,
       join_receiver, open_keystore, save_keystore, close_socket, user, type_line, end_input,
       server, answer, receive
  <2>4. CASE receiver_thread \/ say("main") \/ server_goes \/ UNCHANGED allvars
    BY <2>4, Zenon DEF receiver_thread, say, receive_loop, handle_incoming, answer, server_lost,
       unblock_main, server_goes, allvars
  <2>5. CASE on_client_signal
    BY <2>5 DEF on_client_signal
  <2> QED BY <2>1, <2>2, <2>3, <2>4, <2>5 DEF ProcessNext, main_thread
<1> QED BY <1>1, ProcessSafety, PTL DEF ProcessSpec, NeverWaitsAgain

-------------------------------------------------------------------------------
(* What is said on the console.                                              *)

Exits == {exiting, server_disconnected}
Lines == Exits \cup {status(percent) : percent \in 0 .. 100}

(* run() is past announce_exit(); the output is stopped; connected.          *)
announced == {"request", "clear", "stop_output", "destroy", "join", "save", "write", "close",
              "destroy_output", "ended"}
stopped == {"destroy", "join", "save", "write", "close", "destroy_output", "catch", "ended"}
online == {"connected", "await_id", "register", "ready", "start", "loop", "read_line", "blocked",
           "send", "announce", "request"}

Places == starting \cup announced \cup stopped \cup online \cup {"unwind"}

said(what) == \E k \in DOMAIN console : console[k] = what

(* An exit line is the only one a thread has to post, and each thread has    *)
(* one place where it has one.                                               *)
Posts ==
  /\ main \in Places
  /\ console \in Seq(Lines) /\ todo \in [Threads -> Seq(Lines)]
  /\ \A k \in DOMAIN todo["main"] :
       todo["main"][k] \in Exits => main = "request" /\ todo["main"] = <<exiting>>
  /\ todo["receiver"] \in {<<>>, <<server_disconnected>>}
  /\ todo["receiver"] # <<>> => receiver = "unblock"
  /\ main \in {"connecting", "blocked"} => todo["main"] = <<>>
  /\ ~output_open => main \in stopped

(* There is one exit line in all, shown or still to be posted, and none      *)
(* before exit_announced_ is set.                                            *)
Once ==
  /\ \A j, k \in DOMAIN console : console[j] \in Exits /\ console[k] \in Exits => j = k
  /\ \A k \in DOMAIN console : console[k] \in Exits =>
       exit_announced_ /\ todo["receiver"] = <<>> /\ todo["main"] # <<exiting>>
  /\ todo["main"] = <<exiting>> => exit_announced_ /\ todo["receiver"] = <<>>
  /\ todo["receiver"] # <<>> => exit_announced_

(* Without an exception: a main thread that nobody asked to leave leaves     *)
(* because of what the receiver has done after its line was posted.          *)
ServerGone ==
  ~threw =>
    /\ main \in announced => exit_announced_
    /\ exit_announced_ => main \in announced \/ receiver \in {"unblock", "returned"}
    /\ /\ ~left /\ signals = 0
       /\ \/ main \in announced \cup {"announce"}
          \/ ~vm_running_ \/ fd0 # "terminal"
          \/ receiver = "unblock" /\ todo["receiver"] = <<>>
       => said(server_disconnected)

(* Without an exception or a signal, and as long as the server is there, the *)
(* main thread shuts the connection down only after its own line is posted.  *)
ClientLeaves ==
  ~threw /\ server_up /\ signals = 0 =>
    /\ exit_announced_ => main \in announced
    /\ main \in announced => said(exiting) \/ (main = "request" /\ todo["main"] = <<exiting>>)
    /\ main \in online => socket = "open" /\ receiver # "unblock"

Farewell == Posts /\ Once /\ ServerGone /\ ClientLeaves

is_status(line) == line[1] = "status"

(* The percentages in s rise; those in s are not above those in t; those in  *)
(* s are at most a number.                                                   *)
Rising(s) ==
  \A j, k \in DOMAIN s : j < k /\ is_status(s[j]) /\ is_status(s[k]) => s[j][2] <= s[k][2]

UpTo(s, t) ==
  \A j \in DOMAIN s, k \in DOMAIN t : is_status(s[j]) /\ is_status(t[k]) => s[j][2] <= t[k][2]

Below(s, percent) == \A j \in DOMAIN s : is_status(s[j]) => s[j][2] <= percent

AtMost(percent) == Below(console, percent) /\ Below(todo["main"], percent)

(* The percentage of the file when a line has been read, and what has been   *)
(* reported of it so far.                                                    *)
percent_of(file, line) == (file.ends[line] * 100) \div size(file)

reached ==
  map_config_file_percent(capped(IF config.last_percent < 0 THEN 0 ELSE config.last_percent))

Loading ==
  main = "read_config" =>
    /\ DOMAIN config = {"file", "line", "last_percent"}
    /\ config.file \in ConfigFiles
    /\ config.line \in 0 .. Len(config.file.ends)
    /\ config.last_percent = IF config.line = 0 \/ size(config.file) = 0 THEN -1
                             ELSE percent_of(config.file, config.line)

(* What has been shown and what is to be posted rises, and each stage of the *)
(* start-up has its share of the percentages.                                *)
Forward ==
  /\ Rising(console) /\ Rising(todo["main"]) /\ UpTo(console, todo["main"])
  /\ main = "config" => AtMost(0)
  /\ main = "read_config" => AtMost(reached)
  /\ main \in {"construct", "logger", "identity"} => AtMost(40)
  /\ main \in {"socket", "connecting", "connected"} => AtMost(45)
  /\ main = "await_id" => AtMost(75)
  /\ main \in {"register", "ready"} => AtMost(92)

(* Posting a line moves it from the thread to the console.                   *)
LEMMA SaySafe ==
  ASSUME IInv, Farewell, NEW t \in Threads, say(t)
  PROVE  Farewell'
<1>1. /\ todo[t] \in Seq(Lines) /\ todo[t] # <<>> /\ Head(todo[t]) \in Lines
      /\ todo' = [todo EXCEPT ![t] = Tail(todo[t])] /\ console \in Seq(Lines)
      /\ UNCHANGED <<main, receiver, output_open, exit_announced_, threw, left, signals,
                     server_up, socket, vm_running_, fd0>>
      /\ console' = IF output_open THEN Append(console, Head(todo[t])) ELSE console
  BY DEF say, says, Farewell, Posts, inputs, ending, net, files
<1>2. console' \in Seq(Lines) /\ Tail(todo[t]) \in Seq(Lines)
  BY <1>1
<1>3. /\ \A k \in DOMAIN console : k \in DOMAIN console' /\ console'[k] = console[k]
      /\ \A k \in DOMAIN console' : k \in DOMAIN console \/
           (output_open /\ console'[k] = Head(todo[t]) /\ k = Len(console) + 1)
      /\ output_open => \E k \in DOMAIN console' : console'[k] = Head(todo[t])
  BY <1>1, <1>2, SMTT(40)
<1>4. \A k \in DOMAIN Tail(todo[t]) : Tail(todo[t])[k] = todo[t][k + 1] /\ k + 1 \in DOMAIN todo[t]
  BY <1>1
<1>5. Head(todo[t]) = todo[t][1] /\ 1 \in DOMAIN todo[t]
  BY <1>1
<1>6. CASE Head(todo[t]) \in Exits
  <2>1. /\ t = "main" => main = "request" /\ Head(todo[t]) = exiting /\ todo["main"] = <<exiting>>
        /\ t = "receiver" => Head(todo[t]) = server_disconnected /\ receiver = "unblock"
                              /\ todo["receiver"] = <<server_disconnected>>
        /\ \A k \in DOMAIN console : console[k] \notin Exits
        /\ exit_announced_
    BY <1>1, <1>5, <1>6 DEF Farewell, Posts, Once, Threads, exiting, server_disconnected
  <2>2. todo'[t] = <<>> /\ \A s \in Threads \ {t} : todo'[s] = todo[s]
    BY <1>1, <2>1, SMTT(40) DEF Threads, Farewell, Posts
  <2>3. \A s \in Threads : \A k \in DOMAIN todo'[s] : todo'[s][k] \notin Exits
    BY <2>1, <2>2 DEF Farewell, Posts, Once, Threads
  <2>4. Posts'
    BY <1>1, <1>2, <2>2, <2>3 DEF Farewell, Posts, Threads
  <2>5. todo'["main"] # <<exiting>> /\ todo'["receiver"] = <<>>
    BY <2>3, <2>4 DEF Posts, Threads, Exits
  <2>6. Once'
    BY <1>1, <1>3, <2>1, <2>5 DEF Once
  <2>7. ServerGone'
    BY <1>1, <1>3, <2>1, <2>2, Zenon DEF IInv, Handler, Farewell, Posts, ServerGone, said,
       Threads,
       stopped, announced
  <2>8. ClientLeaves'
    BY <1>1, <1>3, <2>1, <2>2, ZenonT(40) DEF Farewell, Posts, ClientLeaves, said, Threads,
       stopped, online
  <2> QED BY <2>4, <2>6, <2>7, <2>8 DEF Farewell
<1>7. CASE Head(todo[t]) \notin Exits
  <2>1. t = "main" /\ todo["main"] # <<exiting>>
    BY <1>1, <1>5, <1>7 DEF Farewell, Posts, Threads, Exits
  <2>2. \A k \in DOMAIN todo["main"] : todo["main"][k] \notin Exits
    BY <1>5, <1>7, <2>1, Zenon DEF Farewell, Posts
  <2>3. /\ todo'["receiver"] = todo["receiver"]
        /\ \A k \in DOMAIN todo'["main"] : todo'["main"][k] \notin Exits
    BY <1>1, <1>4, <2>1, <2>2, Zenon DEF Farewell, Posts, Threads
  <2>4. Posts'
    BY <1>1, <1>2, <2>1, <2>3, Zenon DEF Farewell, Posts, Threads
  <2>5. todo'["main"] # <<exiting>>
    BY <2>3, <2>4 DEF Posts, Threads, Exits
  <2>6. \A k \in DOMAIN console' : console'[k] \in Exits => k \in DOMAIN console
    BY <1>3, <1>7, Zenon
  <2>7. Once'
    BY <1>1, <1>3, <2>3, <2>5, <2>6 DEF Farewell, Once
  <2>8. \A x : said(x) => said(x)'
    BY <1>3 DEF said
  <2> QED BY <1>1, <2>1, <2>3, <2>4, <2>7, <2>8, Zenon DEF Farewell, ServerGone, ClientLeaves
<1> QED BY <1>6, <1>7, Zenon

(* Percentages of a file: natural numbers that grow with the lines.          *)
LEMMA PercentFacts ==
  ASSUME NEW file \in ConfigFiles, size(file) # 0
  PROVE  /\ size(file) \in Nat \ {0}
         /\ \A k \in 1 .. Len(file.ends) : percent_of(file, k) \in Nat
         /\ \A j, k \in 1 .. Len(file.ends) :
              j <= k => percent_of(file, j) <= percent_of(file, k)
<1>1. /\ file.ends \in Seq(Nat \ {0}) /\ file.newline \in BOOLEAN
      /\ \A j, k \in 1 .. Len(file.ends) : j < k => file.ends[j] < file.ends[k]
  BY ProcessConstants, SMTT(40)
<1>2. size(file) \in Nat \ {0}
  <2>1. file.ends # <<>> => Len(file.ends) \in 1 .. Len(file.ends)
    BY <1>1
  <2> QED BY <1>1, <2>1 DEF size
<1>3. \A a, s \in Nat : s # 0 => a \div s \in Nat
  OBVIOUS
<1>4. \A a, b, s \in Nat : s # 0 /\ a <= b => a \div s <= b \div s
  OBVIOUS
<1>5. \A k \in 1 .. Len(file.ends) : file.ends[k] * 100 \in Nat
  BY <1>1, SMTT(40)
<1>6. \A j, k \in 1 .. Len(file.ends) : j <= k => file.ends[j] * 100 <= file.ends[k] * 100
  <2> SUFFICES ASSUME NEW j \in 1 .. Len(file.ends), NEW k \in 1 .. Len(file.ends), j <= k
               PROVE  file.ends[j] * 100 <= file.ends[k] * 100
    BY Zenon
  <2>1. file.ends[j] \in Nat /\ file.ends[k] \in Nat
    BY <1>1, SMTT(40)
  <2>2. j = k \/ j < k
    BY <1>1, SMTT(40)
  <2>3. file.ends[j] = file.ends[k] \/ file.ends[j] < file.ends[k]
    BY <1>1, <2>2, Zenon
  <2>4. \A m, n \in Nat : m = n \/ m < n => m * 100 <= n * 100
    OBVIOUS
  <2> QED BY <2>1, <2>3, <2>4, Zenon
<1> QED BY <1>2, <1>3, <1>4, <1>5, <1>6, ZenonT(40) DEF percent_of

(* load(): where it is in the file, and what it has reported.                *)
LEMMA LoadingSafe ==
  ASSUME Loading, [ProcessNext]_allvars
  PROVE  Loading'
<1> USE DEF step, throws
<1>1. CASE load_client_config
  <2> SUFFICES ASSUME NEW file \in ConfigFiles, main' = "read_config",
                      config' = [file |-> file, line |-> 0, last_percent |-> -1]
               PROVE  Loading'
    BY <1>1, Zenon DEF load_client_config, Loading
  <2>1. 0 \in 0 .. Len(file.ends)
    BY ProcessConstants
  <2> QED BY <2>1, Zenon DEF Loading
<1>2. CASE read_config_line
  <2>1. PICK c, d : c = config /\ d = config'
    BY ZenonT(40)
  <2> DEFINE percent == percent_of(c.file, c.line + 1)
             reported == size(c.file) > 0 /\ percent # c.last_percent
  <2>2. /\ c.file \in ConfigFiles /\ c.line \in 0 .. Len(c.file.ends) /\ c.line < Len(c.file.ends)
        /\ d = [c EXCEPT !.line = c.line + 1,
                         !.last_percent = IF reported THEN percent ELSE @]
        /\ c.last_percent = IF c.line = 0 \/ size(c.file) = 0 THEN -1
                            ELSE percent_of(c.file, c.line)
    <3>1. main = "read_config" /\ c.line < Len(c.file.ends)
      BY <1>2, <2>1, ZenonT(40) DEF read_config_line
    <3>2. d = [c EXCEPT !.line = c.line + 1, !.last_percent = IF reported THEN percent ELSE @]
      BY <1>2, <2>1, ZenonT(40) DEF read_config_line, percent_of
    <3>3. /\ c.file \in ConfigFiles /\ c.line \in 0 .. Len(c.file.ends)
          /\ c.last_percent = IF c.line = 0 \/ size(c.file) = 0 THEN -1
                              ELSE percent_of(c.file, c.line)
      BY <2>1, <3>1, ZenonT(40) DEF Loading
    <3> QED BY <3>1, <3>2, <3>3, ZenonT(40)
  <2>3. DOMAIN c = {"file", "line", "last_percent"}
    BY <1>2, <2>1, Zenon DEF read_config_line, Loading
  <2>4. /\ DOMAIN d = DOMAIN c /\ d.file = c.file /\ d.line = c.line + 1
        /\ d.last_percent = IF reported THEN percent ELSE c.last_percent
    BY <2>2, <2>3, Zenon
  <2>5. c.line + 1 \in 1 .. Len(c.file.ends) /\ Len(c.file.ends) \in Nat
    BY <2>2, ProcessConstants, SMTT(40)
  <2>6. size(c.file) # 0 => size(c.file) > 0
    BY <2>2, PercentFacts
  <2>7. size(c.file) # 0 => d.last_percent = percent
    BY <2>4, <2>6
  <2>8. size(c.file) = 0 => d.last_percent = -1
    BY <2>2, <2>4
  <2>9. d.line \in 0 .. Len(d.file.ends) /\ d.line # 0
    BY <2>4, <2>5
  <2> QED BY <2>1, <2>2, <2>3, <2>4, <2>7, <2>8, <2>9 DEF Loading
<1>3. CASE config_ready
  BY <1>3, Zenon DEF config_ready, Loading
<1>4. CASE \/ construct \/ init_logger \/ load_or_create_identity \/ create_socket \/ connect
           \/ store_socket_fd \/ receive_assigned_id \/ register_nickname
           \/ startup_complete \/ start_receiver
  BY <1>4, ZenonT(40) DEF construct, init_logger, load_or_create_identity, create_socket,
     connect,
     store_socket_fd, receive_assigned_id, register_nickname, startup_complete, start_receiver,
     Loading
<1>5. CASE \/ input_loop \/ read_line \/ send_chat(send_fails) \/ announce \/ request
           \/ clear_g_client_vm \/ stop_output \/ unwind \/ join_receiver
           \/ open_keystore \/ save_keystore \/ close_socket \/ user \/ send_chat(sent)
  BY <1>5, Zenon DEF input_loop, read_line, send_chat, announce, request, clear_g_client_vm,
     stop_output,
     unwind, join_receiver, open_keystore, save_keystore, close_socket, user, type_line,
     end_input,
     Loading
<1>6. CASE \/ say("main") \/ receiver_thread \/ answer(sent) \/ receive \/ server_goes
           \/ UNCHANGED allvars
  <2>1. UNCHANGED <<main, config>>
    BY <1>6, Zenon DEF say, receiver_thread, receive_loop, handle_incoming, answer, server_lost,
       unblock_main, receive, server_goes, allvars, rstep, rest, inputs
  <2> QED BY <2>1 DEF Loading
<1>7. CASE on_client_signal
  BY <1>7, Zenon DEF on_client_signal, Loading
<1> QED BY <1>1, <1>2, <1>3, <1>4, <1>5, <1>6, <1>7, Zenon DEF ProcessNext, main_thread, server

(* A step of the main thread that is silent, or has status lines to post.    *)
LEMMA MainSpeaks ==
  ASSUME Farewell, todo["main"] = <<>>,
         NEW s \in Seq(Lines), \A k \in DOMAIN s : s[k] \notin Exits,
         todo' = [todo EXCEPT !["main"] = s],
         UNCHANGED <<console, exit_announced_, receiver>>,
         main' \in Places \ {"connecting", "blocked"}, ~output_open' => main' \in stopped
  PROVE  /\ Posts' /\ Once' /\ todo'["receiver"] = todo["receiver"]
         /\ \A x : said(x) => said(x)'
<1>1. todo'["main"] = s /\ todo'["receiver"] = todo["receiver"] /\ todo' \in [Threads -> Seq(Lines)]
  BY DEF Farewell, Posts, Threads
<1>2. s # <<exiting>>
  BY DEF Exits
<1>3. Posts' /\ Once'
  BY <1>1, <1>2, Zenon DEF Farewell, Posts, Once
<1> QED BY <1>1, <1>3, Zenon DEF said

(* A step that posts nothing.                                                *)
LEMMA Silent ==
  ASSUME Farewell, UNCHANGED <<todo, console, exit_announced_>>,
         main' = main \/ todo["main"] = <<>>,
         receiver' = receiver \/ todo["receiver"] = <<>>,
         main' \in Places, ~output_open' => main' \in stopped
  PROVE  Posts' /\ Once' /\ \A x : said(x) => said(x)'
<1>1. Posts' /\ Once'
  BY DEF Farewell, Posts, Once
<1> QED BY <1>1, Zenon DEF said

(* The percentages that are shown are percentages.                           *)
LEMMA StatusFacts ==
  /\ \A percent \in 0 .. 100 : status(percent) \in Lines /\ status(percent) \notin Exits
  /\ \A percent \in Nat : map_config_file_percent(capped(percent)) \in 10 .. 35
  /\ map_config_file_percent(0) = 10 /\ map_config_file_percent(100) = 35
  /\ \A p, q \in Nat : p <= q =>
       map_config_file_percent(capped(p)) <= map_config_file_percent(capped(q))
BY DEF status, Lines, Exits, exiting, server_disconnected, map_config_file_percent, capped

(* A step of the main thread after which it has rising percentages between   *)
(* lo and hi to post.                                                        *)
Posting(lo, hi) ==
  /\ todo["main"] = <<>>
  /\ \E s \in Seq(lo .. hi) :
       /\ \A j, k \in DOMAIN s : j < k => s[j] <= s[k]
       /\ todo' = [todo EXCEPT !["main"] = [k \in DOMAIN s |-> status(s[k])]]

(* Lists of up to three percentages.                                         *)
LEMMA PostingFacts ==
  ASSUME NEW lo \in Int, NEW hi \in Int, todo["main"] = <<>>
  PROVE  /\ says("main", <<>>) => Posting(lo, hi)
         /\ \A a \in lo .. hi : says("main", <<status(a)>>) => Posting(lo, hi)
         /\ \A a, b \in lo .. hi :
              a <= b /\ says("main", <<status(a), status(b)>>) => Posting(lo, hi)
         /\ \A a, b, c \in lo .. hi :
              a <= b /\ b <= c /\ says("main", <<status(a), status(b), status(c)>>)
                => Posting(lo, hi)
<1>1. ASSUME says("main", <<>>) PROVE Posting(lo, hi)
  <2>1. /\ <<>> \in Seq(lo .. hi) /\ [k \in DOMAIN <<>> |-> status(<<>>[k])] = <<>>
        /\ \A j, k \in DOMAIN <<>> : j < k => <<>>[j] <= <<>>[k]
    OBVIOUS
  <2> QED BY <1>1, <2>1, Zenon DEF Posting, says
<1>2. ASSUME NEW a \in lo .. hi, says("main", <<status(a)>>) PROVE Posting(lo, hi)
  <2>1. /\ <<a>> \in Seq(lo .. hi) /\ \A j, k \in DOMAIN <<a>> : j < k => <<a>>[j] <= <<a>>[k]
        /\ [k \in DOMAIN <<a>> |-> status(<<a>>[k])] = <<status(a)>>
    OBVIOUS
  <2> QED BY <1>2, <2>1, Zenon DEF Posting, says
<1>3. ASSUME NEW a \in lo .. hi, NEW b \in lo .. hi, a <= b,
             says("main", <<status(a), status(b)>>)
      PROVE  Posting(lo, hi)
  <2> DEFINE s == <<a, b>>
  <2>1. s \in Seq(lo .. hi) /\ DOMAIN s = 1 .. 2
    OBVIOUS
  <2>2. \A j, k \in 1 .. 2 : j < k => s[j] <= s[k]
    <3>1. \A j, k \in 1 .. 2 : j < k => j = 1 /\ k = 2
      OBVIOUS
    <3>2. s[1] = a /\ s[2] = b
      BY Zenon
    <3> QED BY <1>3, <3>1, <3>2, Zenon
  <2>3. [k \in 1 .. 2 |-> status(s[k])] = <<status(a), status(b)>>
    OBVIOUS
  <2> QED BY <1>3, <2>1, <2>2, <2>3, Zenon DEF Posting, says
<1>4. ASSUME NEW a \in lo .. hi, NEW b \in lo .. hi, NEW c \in lo .. hi, a <= b, b <= c,
             says("main", <<status(a), status(b), status(c)>>)
      PROVE  Posting(lo, hi)
  <2> DEFINE s == <<a, b, c>>
  <2>1. s \in Seq(lo .. hi) /\ DOMAIN s = 1 .. 3
    OBVIOUS
  <2>2. \A j, k \in 1 .. 3 : j < k => s[j] <= s[k]
    <3>1. \A j, k \in 1 .. 3 : j < k => (j = 1 /\ k \in {2, 3}) \/ (j = 2 /\ k = 3)
      OBVIOUS
    <3>2. s[1] = a /\ s[2] = b /\ s[3] = c
      BY Zenon
    <3>3. a <= b /\ b <= c /\ a <= c
      BY <1>4
    <3> QED BY <3>1, <3>2, <3>3
  <2>3. [k \in 1 .. 3 |-> status(s[k])] = <<status(a), status(b), status(c)>>
    OBVIOUS
  <2> QED BY <1>4, <2>1, <2>2, <2>3, Zenon DEF Posting, says
<1> QED BY <1>1, <1>2, <1>3, <1>4, Zenon

(* Start-up: the percentages that each step has to post.                     *)
LEMMA StartupPosts ==
  ASSUME Loading, Posts
  PROVE  /\ load_client_config => Posting(0, 10) /\ (main' = "read_config" => reached' = 10)
         /\ read_config_line =>
              Posting(reached, reached') /\ reached <= reached' /\ reached' \in 10 .. 35
         /\ main = "read_config" => reached \in 10 .. 35
         /\ config_ready => Posting(35, 40)
         /\ load_or_create_identity => Posting(45, 45)
         /\ store_socket_fd => Posting(60, 75)
         /\ receive_assigned_id => Posting(85, 92)
         /\ startup_complete => Posting(100, 100)
<1> USE DEF step, throws
<1>1. ASSUME load_client_config
      PROVE  Posting(0, 10) /\ (main' = "read_config" => reached' = 10)
  <2>1. /\ todo["main"] = <<>>
        /\ \/ says("main", <<status(5), status(10), status(10)>>)
           \/ says("main", <<status(5), status(10)>>)
    BY <1>1, StatusFacts, Zenon DEF load_client_config
  <2>2. Posting(0, 10)
    <3>1. 0 \in Int /\ 10 \in Int /\ 5 \in 0 .. 10 /\ 10 \in 0 .. 10 /\ 5 <= 10 /\ 10 <= 10
      BY SMTT(40)
    <3> QED BY <2>1, <3>1, PostingFacts, ZenonT(40)
  <2>3. main' = "read_config" => config'.last_percent = -1
    BY <1>1 DEF load_client_config
  <2> QED BY <2>2, <2>3, StatusFacts DEF reached, capped
<1>2. main = "read_config" => reached \in 10 .. 35 /\ reached \in Int
  <2> SUFFICES ASSUME main = "read_config" PROVE reached \in 10 .. 35 /\ reached \in Int
    BY Zenon
  <2>1. config.last_percent \in Nat \cup {-1}
    BY PercentFacts DEF Loading
  <2>2. reached \in 10 .. 35
    BY <2>1, StatusFacts DEF reached
  <2>3. \A n \in 10 .. 35 : n \in Int
    OBVIOUS
  <2> QED BY <2>2, <2>3, Zenon
<1>3. ASSUME read_config_line
      PROVE  Posting(reached, reached') /\ reached <= reached' /\ reached' \in 10 .. 35
  <2>1. PICK c, d, percent : /\ c = config /\ d = config'
                             /\ percent = percent_of(c.file, c.line + 1)
    BY ZenonT(40)
  <2>2. /\ main = "read_config" /\ c.file \in ConfigFiles /\ c.line < Len(c.file.ends)
        /\ DOMAIN c = {"file", "line", "last_percent"}
        /\ c.line \in 0 .. Len(c.file.ends) /\ c.line + 1 \in 1 .. Len(c.file.ends)
    <3>1. main = "read_config" /\ c.line < Len(c.file.ends)
      BY <1>3, <2>1, ZenonT(40) DEF read_config_line
    <3>2. /\ c.file \in ConfigFiles /\ DOMAIN c = {"file", "line", "last_percent"}
          /\ c.line \in 0 .. Len(c.file.ends)
      BY <2>1, <3>1, ZenonT(40) DEF Loading
    <3>3. \A k, n \in Int : k \in 0 .. n /\ k < n => k + 1 \in 1 .. n
      OBVIOUS
    <3>4. Len(c.file.ends) \in Int /\ c.line \in Int
      BY <3>2, ProcessConstants
    <3> QED BY <3>1, <3>2, <3>3, <3>4, Zenon
  <2>3. CASE size(c.file) > 0 /\ percent # c.last_percent
    <3>1. d.last_percent = percent
      BY <1>3, <2>1, <2>2, <2>3, Zenon DEF read_config_line, percent_of
    <3>2. says("main", <<status(map_config_file_percent(capped(percent)))>>)
      BY <1>3, <2>1, <2>2, <2>3, Zenon DEF read_config_line, percent_of
    <3>3. percent \in Nat /\ (c.last_percent < 0 \/ (c.last_percent \in Nat /\ c.last_percent <= percent))
      <4>1. size(c.file) # 0
        BY <2>3
      <4>2. CASE c.line = 0
        BY <2>1, <2>2, <4>1, <4>2, PercentFacts DEF Loading
      <4>3. CASE c.line # 0
        BY <2>1, <2>2, <4>1, <4>3, PercentFacts, SMTT(40) DEF Loading
      <4> QED BY <4>2, <4>3
    <3>4. reached' = map_config_file_percent(capped(percent)) /\ reached <= reached'
      BY <2>1, <3>1, <3>3, StatusFacts DEF reached
    <3>5. reached' \in reached .. reached' /\ reached \in Int /\ reached' \in Int
      <4>1. reached \in Int
        BY <1>2, <2>2, Zenon
      <4>2. reached' \in Int
        BY <3>3, <3>4, StatusFacts, SMTT(40)
      <4> QED BY <3>4, <4>1, <4>2
    <3>6. Posting(reached, reached')
      BY <1>3, <3>2, <3>4, <3>5, PostingFacts, Zenon DEF read_config_line
    <3>7. reached' \in 10 .. 35
      BY <3>3, <3>4, StatusFacts, Zenon
    <3> QED BY <3>4, <3>6, <3>7
  <2>4. CASE ~(size(c.file) > 0 /\ percent # c.last_percent)
    <3>1. d.last_percent = c.last_percent /\ says("main", <<>>)
      BY <1>3, <2>1, <2>2, <2>4, Zenon DEF read_config_line, percent_of
    <3>2. reached' = reached
      BY <2>1, <3>1 DEF reached
    <3>3. reached \in Int /\ reached <= reached
      BY <1>2, <2>2
    <3>4. Posting(reached, reached)
      BY <1>3, <3>1, <3>3, PostingFacts, Zenon DEF read_config_line
    <3> QED BY <1>2, <2>2, <3>2, <3>3, <3>4, Zenon
  <2> QED BY <2>3, <2>4
<1>4. ASSUME config_ready PROVE Posting(35, 40)
  <2>1. /\ todo["main"] = <<>>
        /\ says("main", <<status(35), status(40)>>) \/ says("main", <<status(35)>>)
    BY <1>4, StatusFacts, Zenon DEF config_ready
  <2>2. 35 \in Int /\ 40 \in Int /\ 35 \in 35 .. 40 /\ 40 \in 35 .. 40 /\ 35 <= 40
    OBVIOUS
  <2> QED BY <2>1, <2>2, PostingFacts, ZenonT(40)
<1>5. ASSUME load_or_create_identity PROVE Posting(45, 45)
  <2>1. todo["main"] = <<>> /\ says("main", <<status(45)>>)
    BY <1>5, Zenon DEF load_or_create_identity
  <2>2. 45 \in Int /\ 45 \in 45 .. 45
    OBVIOUS
  <2> QED BY <2>1, <2>2, PostingFacts, ZenonT(40)
<1>6. ASSUME store_socket_fd PROVE Posting(60, 75)
  <2>1. todo["main"] = <<>> /\ says("main", <<status(60), status(75)>>)
    BY <1>6, Zenon DEF store_socket_fd
  <2>2. 60 \in Int /\ 75 \in Int /\ 60 \in 60 .. 75 /\ 75 \in 60 .. 75 /\ 60 <= 75
    OBVIOUS
  <2> QED BY <2>1, <2>2, PostingFacts, ZenonT(40)
<1>7. ASSUME receive_assigned_id PROVE Posting(85, 92)
  <2>1. todo' = todo /\ todo["main"] = <<>> => says("main", <<>>)
    BY Zenon DEF Posts, says
  <2>2. /\ todo["main"] = <<>>
        /\ \/ says("main", <<status(85), status(92)>>) \/ says("main", <<status(85)>>)
           \/ todo' = todo
    BY <1>7, ZenonT(40) DEF receive_assigned_id
  <2>3. 85 \in Int /\ 92 \in Int /\ 85 \in 85 .. 92 /\ 92 \in 85 .. 92 /\ 85 <= 92
    OBVIOUS
  <2> QED BY <2>1, <2>2, <2>3, PostingFacts, ZenonT(40)
<1>8. ASSUME startup_complete PROVE Posting(100, 100)
  <2>1. todo["main"] = <<>> /\ says("main", <<status(100)>>)
    BY <1>8, Zenon DEF startup_complete
  <2>2. 100 \in Int /\ 100 \in 100 .. 100
    OBVIOUS
  <2> QED BY <2>1, <2>2, PostingFacts, ZenonT(40)
<1> QED BY <1>1, <1>2, <1>3, <1>4, <1>5, <1>6, <1>7, <1>8, Zenon

(* Status lines are lines, and say nothing of the end.                       *)
LEMMA PostingSafe ==
  ASSUME Farewell, NEW lo \in 0 .. 100, NEW hi \in 0 .. 100, Posting(lo, hi),
         UNCHANGED <<console, exit_announced_, receiver>>,
         main' \in Places \ {"connecting", "blocked"}, ~output_open' => main' \in stopped
  PROVE  /\ Posts' /\ Once' /\ todo'["receiver"] = todo["receiver"]
         /\ \A x : said(x) => said(x)'
<1>1. PICK s \in Seq(lo .. hi) : todo' = [todo EXCEPT !["main"] = [k \in DOMAIN s |-> status(s[k])]]
  BY Zenon DEF Posting
<1>2. \A k \in DOMAIN s : s[k] \in 0 .. 100
  <2>1. \A k \in DOMAIN s : s[k] \in lo .. hi
    BY <1>1
  <2>2. lo .. hi \subseteq 0 .. 100
    OBVIOUS
  <2> QED BY <2>1, <2>2, Zenon
<1>3. \A k \in DOMAIN s : status(s[k]) \in Lines /\ status(s[k]) \notin Exits
  BY <1>2, StatusFacts, Zenon
<1>4. PICK lines_ : lines_ = [k \in DOMAIN s |-> status(s[k])]
  BY Zenon
<1>5. /\ lines_ \in Seq(Lines) /\ \A k \in DOMAIN lines_ : lines_[k] \notin Exits
  BY <1>3, <1>4
<1> QED BY <1>1, <1>4, <1>5, MainSpeaks, Zenon DEF Posting

(* Start-up says nothing of the end, and nobody else does.                   *)
LEMMA StartupFarewell ==
  ASSUME IInv, Farewell, Loading,
         (load_client_config \/ read_config_line \/ config_ready \/ construct \/
          init_logger \/ load_or_create_identity \/ create_socket \/ connect \/
          store_socket_fd \/ receive_assigned_id \/
          register_nickname \/ startup_complete \/ start_receiver)
  PROVE  Farewell'
<1> USE DEF step, throws, rest, output, inputs, ending, net, files
<1>1. /\ main \in starting /\ main' \in starting \cup {"unwind", "loop"}
      /\ UNCHANGED <<console, output_open, exit_announced_, signals, left, vm_running_, server_up>>
      /\ receiver' = receiver \/ main = "start"
  BY Zenon DEF load_client_config, read_config_line, config_ready, construct, init_logger,
     load_or_create_identity, create_socket, connect, store_socket_fd, receive_assigned_id,
     register_nickname, startup_complete, start_receiver, starting
<1>2. main' \in Places /\ output_open /\ receiver = "none" /\ todo["receiver"] = <<>>
  BY <1>1, ZenonT(40) DEF Places, starting, stopped, online, Farewell, Posts, IInv, Lifetimes
<1>3. ~threw => ~exit_announced_
  BY <1>1, <1>2, Zenon DEF Farewell, ServerGone, starting, announced
<1>4. ~threw' => ~threw
  BY ZenonT(40) DEF load_client_config, read_config_line, config_ready, construct, init_logger,
     load_or_create_identity, create_socket, connect, store_socket_fd, receive_assigned_id,
     register_nickname, startup_complete, start_receiver
<1>5. fd0' # "terminal" => fd0 # "terminal"
  BY Zenon DEF load_client_config, read_config_line, config_ready, construct, init_logger,
     load_or_create_identity, create_socket, connect, store_socket_fd, receive_assigned_id,
     register_nickname, startup_complete, start_receiver, opens
<1>6. receiver' \in {"none", "loop"}
  BY <1>1, <1>2, Zenon DEF start_receiver, load_client_config, read_config_line, config_ready,
     construct, init_logger, load_or_create_identity, create_socket, connect,
     store_socket_fd, receive_assigned_id, register_nickname, startup_complete
<1>7. ~threw' /\ server_up' /\ signals' = 0 /\ main' \in online => socket' = "open"
  BY <1>1, <1>4, ZenonT(40) DEF load_client_config, read_config_line, config_ready, construct,
     init_logger,
     load_or_create_identity, create_socket, connect, store_socket_fd, receive_assigned_id,
     register_nickname, startup_complete, start_receiver, Farewell, ClientLeaves, online,
     starting
<1>8. /\ Posts' /\ Once' /\ \A x : said(x) => said(x)'
  <2>1. CASE \/ construct \/ init_logger \/ create_socket \/ connect \/ register_nickname
             \/ start_receiver
    <3>1. UNCHANGED todo /\ todo["main"] = <<>>
      BY <2>1, Zenon DEF construct, init_logger, create_socket, connect, register_nickname,
         start_receiver
    <3> QED BY <1>1, <1>2, <3>1, Silent
  <2>2. CASE \/ load_client_config \/ read_config_line \/ config_ready \/ load_or_create_identity
             \/ store_socket_fd \/ receive_assigned_id \/ startup_complete
    <3>1. Posts
      BY DEF Farewell
    <3>2. \E lo, hi \in 0 .. 100 : Posting(lo, hi)
      <4>1. CASE read_config_line
        <5>1. main = "read_config"
          BY <4>1, Zenon DEF read_config_line
        <5>2. reached \in 10 .. 35 /\ reached' \in 10 .. 35 /\ Posting(reached, reached')
          BY <3>1, <4>1, <5>1, StartupPosts, Zenon
        <5>3. 10 .. 35 \subseteq 0 .. 100
          OBVIOUS
        <5> QED BY <5>2, <5>3, ZenonT(40)
      <4>2. CASE ~read_config_line
        <5>1. \/ Posting(0, 10) \/ Posting(35, 40) \/ Posting(45, 45) \/ Posting(60, 75)
              \/ Posting(85, 92) \/ Posting(100, 100)
          BY <2>2, <3>1, <4>2, StartupPosts
        <5>2. /\ 0 \in 0 .. 100 /\ 10 \in 0 .. 100 /\ 35 \in 0 .. 100 /\ 40 \in 0 .. 100
              /\ 45 \in 0 .. 100 /\ 60 \in 0 .. 100 /\ 75 \in 0 .. 100 /\ 85 \in 0 .. 100
              /\ 92 \in 0 .. 100 /\ 100 \in 0 .. 100
          OBVIOUS
        <5> QED BY <5>1, <5>2, ZenonT(40)
      <4> QED BY <4>1, <4>2, ZenonT(40)
    <3>3. UNCHANGED receiver
      BY <2>2, Zenon DEF load_client_config, read_config_line, config_ready,
         load_or_create_identity,
         store_socket_fd, receive_assigned_id, startup_complete
    <3>4. main' \notin {"connecting", "blocked"}
      BY <2>2, Zenon DEF load_client_config, read_config_line, config_ready,
         load_or_create_identity,
         store_socket_fd, receive_assigned_id, startup_complete
    <3> QED BY <1>1, <1>2, <3>2, <3>3, <3>4, PostingSafe, Zenon
  <2> QED BY <2>1, <2>2
<1>9. ServerGone'
  BY <1>1, <1>2, <1>3, <1>4, <1>5, <1>6, <1>8, ZenonT(40) DEF Farewell, ServerGone, starting,
     announced
<1>10. ClientLeaves'
  BY <1>1, <1>2, <1>3, <1>4, <1>6, <1>7, Zenon DEF ClientLeaves, starting, announced
<1> QED BY <1>8, <1>9, <1>10, Zenon DEF Farewell

(* The input loop: it is left when the user asks for it, when the receiver   *)
(* has cleared running_ or closed stdin, or by a signal.                     *)
LEMMA InputFarewell ==
  ASSUME IInv, Farewell,
         (input_loop \/ read_line \/ type_line \/ end_input \/ send_chat(sent) \/
          send_chat(send_fails))
  PROVE  Farewell'
<1> USE DEF step, throws, rest, output, inputs, ending, net, files
<1>1. /\ main \in {"loop", "read_line", "blocked", "send"} /\ todo["main"] = <<>>
      /\ main' \in {"loop", "read_line", "blocked", "send", "announce", "unwind"}
      /\ UNCHANGED <<todo, console, output_open, exit_announced_, receiver, signals, server_up,
                     fd0, socket>>
  BY Zenon DEF input_loop, read_line, type_line, end_input, send_chat, exit_command
<1>2. Posts' /\ Once' /\ \A x : said(x) => said(x)'
  <2>1. main' \in Places /\ output_open
    BY <1>1 DEF Places, online, stopped, Farewell, Posts
  <2> QED BY <1>1, <2>1, Silent, Zenon
<1>3. ServerGone'
  BY <1>1, <1>2, Zenon DEF Farewell, ServerGone, announced, input_loop, read_line, type_line,
     end_input,
     send_chat, exit_command
<1>4. ClientLeaves'
  BY <1>1, <1>2, Zenon DEF Farewell, ClientLeaves, announced, online, input_loop, read_line,
     type_line,
     end_input, send_chat
<1> QED BY <1>2, <1>3, <1>4 DEF Farewell

(* announce_exit() in run().                                                 *)
LEMMA AnnounceFarewell ==
  ASSUME IInv, Farewell, announce
  PROVE  Farewell'
<1> USE DEF step, output, inputs, ending, net, files
<1>1. /\ main = "announce" /\ main' = "request" /\ todo["main"] = <<>>
      /\ exit_announced_' = TRUE
      /\ todo' = [todo EXCEPT !["main"] = IF exit_announced_ THEN <<>> ELSE <<exiting>>]
      /\ UNCHANGED <<console, output_open, receiver, threw, left, signals, server_up, fd0, socket,
                     vm_running_>>
  BY Zenon DEF announce, announce_exit, says
<1>2. /\ todo'["main"] = (IF exit_announced_ THEN <<>> ELSE <<exiting>>)
      /\ todo'["receiver"] = todo["receiver"] /\ todo' \in [Threads -> Seq(Lines)]
  <2>1. <<>> \in Seq(Lines) /\ <<exiting>> \in Seq(Lines)
    BY DEF Lines, Exits
  <2> QED BY <1>1, <2>1, Zenon DEF Farewell, Posts, Threads
<1>3. ~exit_announced_ => todo["receiver"] = <<>> /\ \A k \in DOMAIN console : console[k] \notin Exits
  BY Zenon DEF Farewell, Once
<1>4. Posts'
  BY <1>1, <1>2, Zenon DEF Farewell, Posts, Places, announced, stopped
<1>5. Once'
  BY <1>1, <1>2, <1>3, Zenon DEF Farewell, Once
<1>6. ServerGone'
  BY <1>1, <1>2, ZenonT(40) DEF Farewell, ServerGone, said, announced
<1>7. ClientLeaves'
  BY <1>1, <1>2, Zenon DEF Farewell, ClientLeaves, said, announced, online
<1> QED BY <1>4, <1>5, <1>6, <1>7, Zenon DEF Farewell

(* The end of run() and main(): the connection is shut down after the line   *)
(* has been posted.                                                          *)
LEMMA EndFarewell ==
  ASSUME IInv, Farewell,
         (request \/ clear_g_client_vm \/ stop_output \/ unwind \/ join_receiver
          \/ open_keystore \/ save_keystore \/ close_socket)
  PROVE  Farewell'
<1> USE DEF step, rest, output, inputs, ending, net, files
<1>1. /\ todo["main"] = <<>>
      /\ UNCHANGED <<todo, console, exit_announced_, receiver, threw, left, signals, server_up>>
  BY Zenon DEF request, request_shutdown, clear_g_client_vm, stop_output, unwind, join_receiver,
     open_keystore, save_keystore, close_socket
<1>2. /\ main \in announced \cup {"unwind", "catch"}
      /\ main' \in (announced \ {"request"}) \cup {"catch"}
      /\ main \in stopped => main' \in stopped
  BY Zenon DEF request, clear_g_client_vm, stop_output, unwind, join_receiver,
     open_keystore, save_keystore, close_socket, announced, stopped
<1>3. ~output_open' => main' \in stopped
  BY <1>2, ZenonT(40) DEF request, clear_g_client_vm, stop_output, unwind, join_receiver,
     open_keystore, save_keystore, close_socket, stopped, Farewell, Posts
<1>4. Posts' /\ Once' /\ \A x : said(x) => said(x)'
  <2>1. main' \in Places
    BY <1>2 DEF Places, stopped
  <2> QED BY <1>1, <1>3, <2>1, Silent, Zenon
<1>5. ~threw => main \in announced /\ main' \in announced \ {"request"}
  BY <1>2, Zenon DEF IInv, Handler, announced, clear_g_client_vm, stop_output, request, unwind,
     join_receiver, open_keystore, save_keystore, close_socket
<1>6. ServerGone'
  BY <1>1, <1>4, <1>5, Zenon DEF Farewell, ServerGone
<1>7. ClientLeaves'
  <2>1. main' \notin online
    BY <1>2, Zenon DEF announced, online
  <2> QED BY <1>1, <1>4, <1>5, <2>1 DEF Farewell, ClientLeaves
<1> QED BY <1>4, <1>6, <1>7, Zenon DEF Farewell

(* announce_exit() in receive_loop(): with a server that is up, a connection *)
(* that is lost has been shut down by a main thread that was first.          *)
LEMMA LostFarewell ==
  ASSUME IInv, Farewell, server_lost
  PROVE  Farewell'
<1> USE DEF rstep, output, inputs, ending, net, files
<1>1. /\ receiver = "receive" /\ receiver' = "unblock" /\ todo["receiver"] = <<>> /\ lost
      /\ exit_announced_' = TRUE
      /\ todo' = [todo EXCEPT !["receiver"] =
                    IF exit_announced_ THEN <<>> ELSE <<server_disconnected>>]
      /\ UNCHANGED <<console, output_open, main, threw, left, signals, server_up, fd0, socket,
                     vm_running_>>
  BY Zenon DEF server_lost, announce_exit, says
<1>2. /\ todo'["receiver"] = (IF exit_announced_ THEN <<>> ELSE <<server_disconnected>>)
      /\ todo'["main"] = todo["main"] /\ todo' \in [Threads -> Seq(Lines)]
  <2>1. <<>> \in Seq(Lines) /\ <<server_disconnected>> \in Seq(Lines)
    BY DEF Lines, Exits
  <2> QED BY <1>1, <2>1 DEF Farewell, Posts, Threads
<1>3. ~exit_announced_ =>
        todo["main"] # <<exiting>> /\ \A k \in DOMAIN console : console[k] \notin Exits
  BY Zenon DEF Farewell, Once
<1>4. ~threw /\ main \notin online => main \in announced
  BY <1>1, Zenon DEF Farewell, Posts, Places, IInv, Lifetimes, Handler, starting, announced,
     stopped
<1>5. Posts'
  BY <1>1, <1>2, Zenon DEF Farewell, Posts
<1>6. Once'
  BY <1>1, <1>2, <1>3, Zenon DEF Farewell, Once
<1>7. ServerGone'
  BY <1>1, <1>2, SMTT(40) DEF Farewell, ServerGone, said
<1>8. ClientLeaves'
  BY <1>1, <1>2, <1>4 DEF Farewell, ClientLeaves, said, lost
<1> QED BY <1>5, <1>6, <1>7, <1>8, Zenon DEF Farewell

(* The other steps of the receiver thread: it clears running_ and closes     *)
(* stdin after its line has been posted.                                     *)
LEMMA ReceiverFarewell ==
  ASSUME IInv, Farewell,
         (receive_loop \/ receive \/ handle_incoming \/ answer(sent) \/ answer(send_fails)
          \/ unblock_main)
  PROVE  Farewell'
<1> USE DEF rstep, rest, output, inputs, ending, net, files
<1>1. /\ todo["receiver"] = <<>>
      /\ UNCHANGED <<todo, console, output_open, exit_announced_, main, threw, left, signals,
                     server_up>>
  BY Zenon DEF receive_loop, receive, handle_incoming, answer, unblock_main, request_shutdown
<1>2. /\ receiver' \in {"loop", "receive", "handle", "send", "returned"}
      /\ receiver = "unblock" => receiver' = "returned"
      /\ receiver # "unblock" => receiver # "returned" /\ UNCHANGED <<vm_running_, fd0, socket>>
  BY Zenon DEF receive_loop, receive, handle_incoming, answer, unblock_main
<1>3. Posts' /\ Once' /\ \A x : said(x) => said(x)'
  <2>1. main' \in Places /\ (~output_open' => main' \in stopped)
    BY <1>1 DEF Farewell, Posts
  <2> QED BY <1>1, <2>1, Silent, Zenon
<1>4. ServerGone'
  <2>1. ServerGone /\ (said(server_disconnected) => said(server_disconnected)')
    BY <1>3 DEF Farewell
  <2> QED BY <1>1, <1>2, <2>1, Zenon DEF ServerGone
<1>5. ClientLeaves'
  <2>1. ClientLeaves /\ (said(exiting) => said(exiting)')
    BY <1>3, Zenon DEF Farewell
  <2> QED BY <1>1, <1>2, <2>1, Zenon DEF ClientLeaves
<1> QED BY <1>3, <1>4, <1>5, Zenon DEF Farewell

(* Signals, and the server.                                                  *)
LEMMA OutsideFarewell ==
  ASSUME IInv, Farewell, on_client_signal \/ server_goes \/ UNCHANGED allvars
  PROVE  Farewell'
<1> USE DEF output, inputs, ending, net, files
<1>1. /\ UNCHANGED <<todo, console, output_open, exit_announced_, receiver, left>>
      /\ main' = main \/ (signals' > 0 /\ main = "blocked" /\ main' = "announce")
                      \/ (main = "connecting" /\ main' = "unwind" /\ threw')
  <2>1. CASE on_client_signal
    BY <2>1, SMTT(40) DEF on_client_signal, IInv, Descriptor0
  <2>2. CASE server_goes \/ UNCHANGED allvars
    BY <2>2, Zenon DEF server_goes, allvars
  <2> QED BY <2>1, <2>2, ZenonT(40)
<1>2. main \in {"blocked", "connecting"} => todo["main"] = <<>>
  BY DEF Farewell, Posts
<1>3. Posts' /\ Once' /\ \A x : said(x) => said(x)'
  <2>1. main' \in Places /\ (~output_open' => main' \in stopped)
    BY <1>1, Zenon DEF Farewell, Posts, Places, online, stopped
  <2> QED BY <1>1, <1>2, <2>1, Silent, Zenon
<1>4. CASE on_client_signal
  <2>1. signals' > 0 /\ signals' # 0 /\ (threw => threw')
    BY <1>4, SMTT(40) DEF on_client_signal, IInv, Descriptor0
  <2>2. ServerGone'
    BY <1>1, <1>3, <2>1, Zenon DEF Farewell, ServerGone, announced
  <2> QED BY <1>3, <2>1, <2>2, Zenon DEF Farewell, ClientLeaves
<1>5. CASE server_goes \/ UNCHANGED allvars
  <2>1. /\ ServerGone /\ (said(server_disconnected) => said(server_disconnected)')
        /\ ClientLeaves /\ (said(exiting) => said(exiting)')
    BY <1>3 DEF Farewell
  <2>2. ServerGone'
    BY <1>5, <2>1, Zenon DEF server_goes, allvars, ServerGone
  <2>3. ClientLeaves'
    BY <1>5, <2>1, Zenon DEF server_goes, allvars, ClientLeaves
  <2> QED BY <1>3, <2>2, <2>3, Zenon DEF Farewell
<1> QED BY <1>4, <1>5, Zenon

(* Together.                                                                 *)
LEMMA FarewellSafe == ProcessSpec => [](IInv /\ Loading /\ Farewell)
<1>1. ProcessInit => Loading /\ Farewell
  <2> SUFFICES ASSUME ProcessInit PROVE Loading /\ Farewell
    BY Zenon
  <2>1. todo["main"] = <<>> /\ todo["receiver"] = <<>> /\ todo \in [Threads -> Seq(Lines)]
    BY DEF ProcessInit, Threads
  <2>2. console \in Seq(Lines) /\ DOMAIN console = {}
    BY DEF ProcessInit
  <2> QED BY <2>1, <2>2 DEF ProcessInit, Loading, Farewell, Posts, Once, ServerGone,
             ClientLeaves,
          Places, starting, announced, online
<1>2. IInv /\ Loading /\ Farewell /\ [ProcessNext]_allvars => Loading' /\ Farewell'
  <2> SUFFICES ASSUME IInv, Loading, Farewell, [ProcessNext]_allvars PROVE Loading' /\ Farewell'
    OBVIOUS
  <2>1. Loading'
    BY LoadingSafe, Zenon
  <2>2. CASE main_thread
    BY <2>1, <2>2, SaySafe, StartupFarewell, InputFarewell, AnnounceFarewell, EndFarewell, Zenon
       DEF main_thread, Threads
  <2>3. CASE receiver_thread
    BY <2>1, <2>3, SaySafe, LostFarewell, ReceiverFarewell, Zenon DEF receiver_thread, Threads
  <2>4. CASE user \/ server
    BY <2>1, <2>4, InputFarewell, ReceiverFarewell, Zenon DEF user, server
  <2>5. CASE on_client_signal \/ server_goes \/ UNCHANGED allvars
    BY <2>1, <2>5, OutsideFarewell
  <2> QED BY <2>1, <2>2, <2>3, <2>4, <2>5, Zenon DEF ProcessNext
<1> QED BY <1>1, <1>2, ProcessSafety, PTL DEF ProcessSpec

(* How a session ended is said at most once and is true, although two        *)
(* threads race to say it.                                                   *)
THEOREM ExitExplainedTheorem == ProcessSpec => []ExitExplained
<1>1. IInv /\ Farewell => ExitExplained
  BY DEF Farewell, Once, ServerGone, ClientLeaves, said, shown, Exits, announced, ExitExplained
<1> QED BY <1>1, FarewellSafe, PTL

-------------------------------------------------------------------------------
(* Start-up progress.                                                        *)

(* Posting a line.                                                           *)
LEMMA SayForward ==
  ASSUME Posts, Forward, NEW t \in Threads, say(t)
  PROVE  Forward'
<1>1. /\ todo[t] \in Seq(Lines) /\ todo[t] # <<>> /\ Head(todo[t]) = todo[t][1]
      /\ todo' = [todo EXCEPT ![t] = Tail(todo[t])] /\ console \in Seq(Lines)
      /\ UNCHANGED <<main, config>>
      /\ console' \in {console, Append(console, Head(todo[t]))}
  BY DEF say, says, Posts, inputs
<1>2. PICK s, r, c, d : /\ s = todo["main"] /\ r = todo'["main"] /\ c = console /\ d = console'
  BY Zenon
<1>3. /\ \A k \in DOMAIN Tail(todo[t]) :
           k + 1 \in DOMAIN todo[t] /\ Tail(todo[t])[k] = todo[t][k + 1] /\ k \in Nat \ {0}
      /\ 1 \in DOMAIN todo[t] /\ DOMAIN todo[t] \subseteq Nat
  BY <1>1, SMTT(40)
<1>4. /\ \A k \in DOMAIN d : \/ k \in DOMAIN c /\ d[k] = c[k]
                             \/ k = Len(c) + 1 /\ d[k] = todo[t][1]
      /\ \A k \in DOMAIN c : k \in Nat /\ k < Len(c) + 1
      /\ Len(c) \in Nat
  <2>1. Head(todo[t]) \in Lines
    BY <1>1
  <2>2. c \in Seq(Lines) /\ DOMAIN c = 1 .. Len(c) /\ Len(c) \in Nat
    BY <1>1, <1>2
  <2>3. PICK h : h = Head(todo[t])
    BY Zenon
  <2>4. /\ DOMAIN Append(c, h) = 1 .. Len(c) + 1 /\ Append(c, h)[Len(c) + 1] = h
        /\ \A k \in 1 .. Len(c) : Append(c, h)[k] = c[k]
    BY <2>1, <2>2, <2>3
  <2>5. d = c \/ d = Append(c, h)
    BY <1>1, <1>2, <2>3, Zenon
  <2> QED BY <1>1, <2>2, <2>3, <2>4, <2>5, SMTT(40)
<1>5. Rising(c) /\ Rising(s) /\ UpTo(c, s)
  BY <1>2 DEF Forward
<1>6. CASE t = "main"
  <2>1. s = todo[t] /\ r = Tail(todo[t])
    BY <1>1, <1>2, <1>6 DEF Posts, Threads
  <2>2. Rising(d)
    BY <1>3, <1>4, <1>5, <2>1, SMTT(40) DEF Rising, UpTo
  <2>3. Rising(r)
    <3>1. \A k \in DOMAIN r : k \in Nat /\ k + 1 \in DOMAIN s /\ r[k] = s[k + 1]
      BY <1>3, <2>1, Zenon
    <3>2. \A j, k \in Nat : j < k => j + 1 < k + 1
      OBVIOUS
    <3> QED BY <1>5, <3>1, <3>2, Zenon DEF Rising
  <2>4. UpTo(d, r)
    <3>1. \A k \in DOMAIN r : k + 1 \in DOMAIN s /\ r[k] = s[k + 1] /\ 1 < k + 1
      BY <1>3, <2>1
    <3> QED BY <1>3, <1>4, <1>5, <2>1, <3>1, Zenon DEF Rising, UpTo
  <2>5. \A percent : Below(c, percent) /\ Below(s, percent) => Below(d, percent) /\ Below(r, percent)
    BY <1>3, <1>4, <2>1, Zenon DEF Below
  <2>6. \A percent : AtMost(percent) => AtMost(percent)'
    BY <1>2, <2>5, Zenon DEF AtMost
  <2>7. reached' = reached
    BY <1>1 DEF reached
  <2> QED BY <1>1, <1>2, <2>2, <2>3, <2>4, <2>6, <2>7, ZenonT(40) DEF Forward
<1>7. CASE t = "receiver"
  <2>1. s = r /\ ~is_status(todo[t][1])
    BY <1>1, <1>2, <1>7 DEF Posts, Threads, is_status, server_disconnected
  <2>2. Rising(d)
    BY <1>4, <1>5, <2>1, Zenon DEF Rising
  <2>3. UpTo(d, r)
    BY <1>4, <1>5, <2>1, Zenon DEF UpTo
  <2>4. \A percent : Below(c, percent) => Below(d, percent)
    BY <1>4, <2>1, Zenon DEF Below
  <2>5. \A percent : AtMost(percent) => AtMost(percent)'
    BY <1>2, <2>1, <2>4, Zenon DEF AtMost
  <2>6. reached' = reached
    BY <1>1 DEF reached
  <2> QED BY <1>1, <1>2, <1>5, <2>1, <2>2, <2>3, <2>5, <2>6, ZenonT(40) DEF Forward
<1> QED BY <1>6, <1>7, Zenon DEF Threads

(* Percentages on the console are numbers, so that bounds can be raised.     *)
LEMMA BelowFacts ==
  ASSUME Posts
  PROVE  /\ \A k \in DOMAIN console : is_status(console[k]) => console[k][2] \in Int
         /\ \A p, q \in Int : p <= q /\ Below(console, p) => Below(console, q)
<1>1. \A k \in DOMAIN console : console[k] \in Lines
  BY DEF Posts
<1>2. \A x \in Lines : is_status(x) => x[2] \in Int
  <2>1. \A x \in Exits : ~is_status(x)
    BY DEF Exits, is_status, exiting, server_disconnected
  <2>2. \A percent \in 0 .. 100 : status(percent)[2] = percent /\ percent \in Int
    BY DEF status
  <2> QED BY <2>1, <2>2, ZenonT(40) DEF Lines
<1>3. \A k \in DOMAIN console : is_status(console[k]) => console[k][2] \in Int
  BY <1>1, <1>2, ZenonT(40)
<1> QED BY <1>3 DEF Below

(* New percentages from lo to hi, when nothing above lo has been shown.      *)
LEMMA PostingForward ==
  ASSUME Posts, Forward, NEW lo \in Int, NEW hi \in Int, lo <= hi, Posting(lo, hi),
         Below(console, lo), UNCHANGED console
  PROVE  /\ Rising(console)' /\ Rising(todo["main"])' /\ UpTo(console, todo["main"])'
         /\ AtMost(hi)'
<1>1. PICK s \in Seq(lo .. hi) :
        /\ \A j, k \in DOMAIN s : j < k => s[j] <= s[k]
        /\ todo' = [todo EXCEPT !["main"] = [k \in DOMAIN s |-> status(s[k])]]
  BY Zenon DEF Posting
<1>2. PICK r, c : r = todo'["main"] /\ c = console
  BY Zenon
<1>3. /\ r = [k \in DOMAIN s |-> status(s[k])]
      /\ \A k \in DOMAIN s : s[k] \in Int /\ lo <= s[k] /\ s[k] <= hi
  <2>1. \A k \in DOMAIN s : s[k] \in lo .. hi
    BY <1>1
  <2> QED BY <1>1, <1>2, <2>1 DEF Posts, Threads
<1>4. DOMAIN r = DOMAIN s /\ \A k \in DOMAIN r : r[k][2] = s[k]
  BY <1>3, ZenonT(40) DEF status
<1>5. Rising(r) /\ Below(r, hi)
  BY <1>1, <1>3, <1>4, SMTT(40) DEF Rising, Below
<1>6. \A k \in DOMAIN c : is_status(c[k]) => c[k][2] \in Int
  BY <1>2, BelowFacts, Zenon
<1>7. UpTo(c, r) /\ Below(c, hi)
  BY <1>2, <1>3, <1>4, <1>6 DEF UpTo, Below
<1> QED BY <1>2, <1>5, <1>7, Zenon DEF Forward, AtMost

early == {"config", "read_config", "construct", "logger", "identity", "socket", "connecting",
          "connected", "await_id", "register", "ready"}

(* Steps with no status line to post.                                        *)
LEMMA QuietForward ==
  ASSUME Posts, Forward, UNCHANGED console, todo'["main"] \in {todo["main"], <<>>, <<exiting>>},
         \/ UNCHANGED <<main, config>>
         \/ main' \notin early
         \/ main \in {"construct", "logger"} /\ main' \in {"logger", "identity"}
         \/ main \in {"socket", "connecting"} /\ main' \in {"connecting", "connected"}
         \/ main = "register" /\ main' = "ready"
  PROVE  Forward'
<1>1. PICK s, r, c : s = todo["main"] /\ r = todo'["main"] /\ c = console
  BY Zenon
<1>2. r = s \/ \A k \in DOMAIN r : ~is_status(r[k])
  BY <1>1 DEF is_status, exiting
<1>3. Rising(s) /\ UpTo(c, s)
  BY <1>1, Zenon DEF Forward
<1>4. Rising(r) /\ UpTo(c, r)
  BY <1>2, <1>3, Zenon DEF Rising, UpTo
<1>5. \A percent : Below(s, percent) => Below(r, percent)
  BY <1>2, Zenon DEF Below
<1>6. \A percent : AtMost(percent) => AtMost(percent)'
  BY <1>1, <1>5, Zenon DEF AtMost
<1>7. /\ Rising(console)' /\ Rising(todo["main"])' /\ UpTo(console, todo["main"])'
  BY <1>1, <1>4, ZenonT(40) DEF Forward
<1>8. CASE UNCHANGED <<main, config>>
  <2>1. reached' = reached
    BY <1>8, ZenonT(40) DEF reached
  <2> QED BY <1>6, <1>7, <1>8, <2>1 DEF Forward
<1>9. CASE ~UNCHANGED <<main, config>>
  BY <1>6, <1>7, <1>9 DEF Forward, early
<1> QED BY <1>8, <1>9, Zenon

(* The steps of the start-up that report progress.                           *)
LEMMA StartupForward ==
  ASSUME Posts, Loading, Forward,
         (load_client_config \/ read_config_line \/ config_ready \/ load_or_create_identity \/
          store_socket_fd \/ receive_assigned_id \/ startup_complete)
  PROVE  Forward'
<1> USE DEF step, throws, output
<1>0. UNCHANGED console
  BY DEF load_client_config, read_config_line, config_ready, load_or_create_identity,
     store_socket_fd, receive_assigned_id, startup_complete, rest
<1>1. CASE load_client_config
  <2>1. Posting(0, 10) /\ Below(console, 0) /\ (main' = "read_config" => reached' = 10)
    BY <1>1, StartupPosts, Zenon DEF Forward, AtMost, load_client_config
  <2>2. Rising(console)' /\ Rising(todo["main"])' /\ UpTo(console, todo["main"])' /\ AtMost(10)'
    BY <1>0, <2>1, PostingForward, SMTT(40)
  <2> QED BY <1>1, <2>1, <2>2, Zenon DEF Forward, load_client_config
<1>2. CASE read_config_line
  <2>1. PICK lo, hi : lo = reached /\ hi = reached'
    BY Zenon
  <2>2. main = "read_config" /\ main' = "read_config"
    BY <1>2, ZenonT(40) DEF read_config_line
  <2>3. Posting(lo, hi) /\ Below(console, lo) /\ lo \in 10 .. 35 /\ hi \in 10 .. 35 /\ lo <= hi
    BY <1>2, <2>1, <2>2, StartupPosts, Zenon DEF Forward, AtMost
  <2>4. lo \in Int /\ hi \in Int
    BY <2>3
  <2>5. Rising(console)' /\ Rising(todo["main"])' /\ UpTo(console, todo["main"])' /\ AtMost(hi)'
    BY <1>0, <2>3, <2>4, PostingForward, Zenon
  <2> QED BY <2>1, <2>2, <2>5, Zenon DEF Forward
<1>3. CASE config_ready
  <2>1. PICK lo : lo = reached
    OBVIOUS
  <2>2. main = "read_config"
    BY <1>3, Zenon DEF config_ready
  <2>3. Posting(35, 40) /\ Below(console, lo) /\ lo \in 10 .. 35
    BY <1>3, <2>1, <2>2, StartupPosts, Zenon DEF Forward, AtMost
  <2>4. lo \in Int /\ lo <= 35
    BY <2>3
  <2>5. Below(console, 35)
    BY <2>3, <2>4, BelowFacts
  <2>6. Rising(console)' /\ Rising(todo["main"])' /\ UpTo(console, todo["main"])' /\ AtMost(40)'
    BY <1>0, <2>3, <2>5, PostingForward
  <2> QED BY <1>3, <2>6, Zenon DEF Forward, config_ready
<1>4. CASE load_or_create_identity
  <2>1. Posting(45, 45) /\ Below(console, 40)
    BY <1>4, StartupPosts, ZenonT(40) DEF Forward, AtMost, load_or_create_identity
  <2>2. Below(console, 45)
    BY <2>1, BelowFacts
  <2>3. Rising(console)' /\ Rising(todo["main"])' /\ UpTo(console, todo["main"])' /\ AtMost(45)'
    BY <1>0, <2>1, <2>2, PostingForward
  <2> QED BY <1>4, <2>3, Zenon DEF Forward, load_or_create_identity
<1>5. CASE store_socket_fd
  <2>1. Posting(60, 75) /\ Below(console, 45)
    BY <1>5, StartupPosts, Zenon DEF Forward, AtMost, store_socket_fd
  <2>2. Below(console, 60)
    BY <2>1, BelowFacts
  <2>3. Rising(console)' /\ Rising(todo["main"])' /\ UpTo(console, todo["main"])' /\ AtMost(75)'
    BY <1>0, <2>1, <2>2, PostingForward
  <2> QED BY <1>5, <2>3, Zenon DEF Forward, store_socket_fd
<1>6. CASE receive_assigned_id
  <2>1. Posting(85, 92) /\ Below(console, 75)
    BY <1>6, StartupPosts, Zenon DEF Forward, AtMost, receive_assigned_id
  <2>2. Below(console, 85)
    BY <2>1, BelowFacts
  <2>3. Rising(console)' /\ Rising(todo["main"])' /\ UpTo(console, todo["main"])' /\ AtMost(92)'
    BY <1>0, <2>1, <2>2, PostingForward
  <2>4. main' \in {"register", "ready", "unwind"}
    BY <1>6, Zenon DEF receive_assigned_id
  <2> QED BY <2>3, <2>4, Zenon DEF Forward
<1>7. CASE startup_complete
  <2>1. Posting(100, 100) /\ Below(console, 92)
    BY <1>7, StartupPosts, Zenon DEF Forward, AtMost, startup_complete
  <2>2. Below(console, 100)
    BY <2>1, BelowFacts
  <2>3. Rising(console)' /\ Rising(todo["main"])' /\ UpTo(console, todo["main"])'
    BY <1>0, <2>1, <2>2, PostingForward
  <2> QED BY <1>7, <2>3, Zenon DEF Forward, startup_complete
<1> QED BY <1>1, <1>2, <1>3, <1>4, <1>5, <1>6, <1>7, ZenonT(40)

(* All other steps.                                                          *)
LEMMA OtherForward ==
  ASSUME Posts, Forward,
         \/ construct \/ init_logger \/ create_socket \/ connect \/ register_nickname
         \/ start_receiver \/ input_loop \/ read_line \/ send_chat(send_fails) \/ announce
         \/ request \/ clear_g_client_vm \/ stop_output \/ unwind \/ join_receiver
         \/ open_keystore \/ save_keystore \/ close_socket \/ receive_loop \/ handle_incoming
         \/ answer(send_fails) \/ server_lost \/ unblock_main \/ user \/ server
         \/ on_client_signal \/ server_goes \/ UNCHANGED allvars
  PROVE  Forward'
<1> USE DEF step, rstep, throws, rest, output, inputs, Threads, Posts, early
<1>1. CASE \/ construct \/ init_logger \/ create_socket \/ connect \/ register_nickname
           \/ start_receiver
  BY <1>1, QuietForward, Zenon DEF construct, init_logger, create_socket, connect,
     register_nickname,
     start_receiver
<1>2. CASE input_loop \/ read_line \/ send_chat(send_fails) \/ send_chat(sent) \/ user
  BY <1>2, QuietForward, Zenon DEF input_loop, read_line, send_chat, user, type_line, end_input
<1>3. CASE announce
  BY <1>3, QuietForward, Zenon DEF announce, announce_exit, says
<1>4. CASE request \/ clear_g_client_vm \/ stop_output \/ unwind \/ join_receiver
  BY <1>4, QuietForward, Zenon DEF request, clear_g_client_vm, stop_output, unwind,
     join_receiver
<1>5. CASE open_keystore \/ save_keystore \/ close_socket
  BY <1>5, QuietForward, Zenon DEF open_keystore, save_keystore, close_socket
<1>6. CASE \/ receive_loop \/ handle_incoming \/ answer(send_fails) \/ answer(sent) \/ receive
           \/ unblock_main \/ server_goes \/ UNCHANGED allvars
  BY <1>6, QuietForward, Zenon DEF receive_loop, handle_incoming, answer, receive, unblock_main,
     server_goes, allvars
<1>7. CASE server_lost
  BY <1>7, QuietForward, ZenonT(40) DEF server_lost, announce_exit, says
<1>8. CASE on_client_signal
  BY <1>8, QuietForward DEF on_client_signal
<1> QED BY <1>1, <1>2, <1>3, <1>4, <1>5, <1>6, <1>7, <1>8, Zenon DEF server

(* Start-up progress never goes back.                                        *)
THEOREM ProgressForwardTheorem == ProcessSpec => []ProgressForward
<1>1. ProcessInit => Forward
  <2> SUFFICES ASSUME ProcessInit PROVE Forward
    BY Zenon
  <2>1. DOMAIN console = {} /\ DOMAIN todo["main"] = {} /\ main = "config"
    BY DEF ProcessInit, Threads
  <2> QED BY <2>1, Zenon DEF Forward, Rising, UpTo, AtMost, Below
<1>2. Posts /\ Loading /\ Forward /\ [ProcessNext]_allvars => Forward'
  <2> SUFFICES ASSUME Posts, Loading, Forward, [ProcessNext]_allvars PROVE Forward'
    OBVIOUS
  <2>1. CASE say("main") \/ say("receiver")
    BY <2>1, SayForward DEF Threads
  <2>2. CASE ~(say("main") \/ say("receiver"))
    BY <2>2, StartupForward, OtherForward, Zenon DEF ProcessNext, main_thread, receiver_thread
  <2> QED BY <2>1, <2>2, Zenon
<1>3. Posts /\ Forward => ProgressForward
  <2> SUFFICES ASSUME Posts, Forward, NEW k \in DOMAIN console, is_status(console[k])
               PROVE  /\ console[k][2] \in 0 .. 100
                      /\ \A j \in DOMAIN console :
                           is_status(console[j]) /\ j < k => console[j][2] <= console[k][2]
    BY Zenon DEF ProgressForward, is_status
  <2>1. console[k] \in Lines
    BY DEF Posts
  <2>2. console[k] \notin Exits
    BY DEF Exits, is_status, exiting, server_disconnected
  <2>3. console[k][2] \in 0 .. 100
    BY <2>1, <2>2 DEF Lines, status
  <2> QED BY <2>3, Zenon DEF Forward, Rising
<1>4. Farewell => Posts
  BY DEF Farewell
<1> QED BY <1>1, <1>2, <1>3, <1>4, FarewellSafe, PTL DEF ProcessSpec
===============================================================================
