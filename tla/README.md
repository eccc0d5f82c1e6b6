# Verification of the Modbus-TCP chat: TLA+ models, TLC runs, TLAPS proofs

The program is a chat: a single-threaded server that relays frames between
clients, and a client with several threads that encrypts end to end. This
directory models it in TLA+, checks the models with TLC on small instances and
proves what it can for all instances with TLAPS.

Run a check with `tlc -config X.cfg MCmodule`, a proof with `tlapm Module.tla`.
`PROJECT.json` maps each definition to the source lines it models and lists the
hazards of the code with the properties that cover them.

## 1. The system

| Part | State | What makes it hard | Module |
|---|---|---|---|
| Client registry (`server/model`) | three maps: fd to record, id to fd, nickname to id | kept in step by hand; ids, nicknames and descriptors are reused | ChatServer |
| Ids and ban list (`ServerViewModel`) | free_ids_, next_id_, banned_ids_ | an id can be banned while in use, free or not given out yet | ChatServer, IdPool |
| Handlers, dispatcher, presence | none of their own | presence notices are not filtered by bans | ChatServer |
| Event loop (`ServerViewModel::run`) | pollfds, admin queue, running_ | acts on a snapshot; blocking reads; a stop at any moment | ServerLoop |
| Server process (`server/main.cpp`) | g_server, console thread, signal handler | a handler on either thread between any two steps; a thread nobody can wake | ServerProcess |
| Frames and messages (`ModbusTcp`, `Protocol`) | the bytes of a connection | partial reads and writes, two writers, 16-bit lengths | Protocol, Framing |
| Consoles (`InputCommandParser`, `AdminCommandParser`) | none | numbers that wrap or throw | Console, Framing |
| Command executor, file logger (`common`) | queue, thread, condition variables | calls race with stop; lost wake-ups; pop and write are separate | CommandExecutor, FileLogger, Worker |
| Client view model (`ClientViewModel`) | id, keys, offered ids, nicknames | two threads, sends outside the lock, ids that change hands | ChatClient, ChatSystem |
| Client process (`client/main.cpp`) | threads, socket, stdin, g_client_vm | two reasons to end at once, a handler that closes descriptor 0, exceptions | ClientProcess |
| Key store (`common/crypto`) | identity, room key, peer keys; a file | truncated, then written; killed in between | KeyStore, ChatSystem |

The loop calls the handlers; the handlers read and change the registry and
send; a client's messages reach other clients only through the handlers. In the
client, both threads print through `QueuedCommandExecutor` and log through
`FileLogger`, and the destructor of the view model saves the key store.

## 2. The modules

**ChatServer**: registry, ids, ban list and handlers. One action is one call the
loop makes: `accept_client`, `hangup`, `handle_client_data`, `ban_ids`,
`request_stop`, `disconnect_all_clients`. The variables have the names of the
members. `sent` holds the message the last step put on each connection (a
handler sends at most one to each); `shut` the descriptors on which the server
called `::shutdown`. Messages are records; the text of errors is a name. A body
records who sent it and for whom, so that `RelayedAsMeant` can compare.

**IdPool**: what is promised about ids, in terms of used and banned ids only.
`SmallestIdAssigned` says ChatServer implements it.

**ServerLoop** (extends ChatServer): `run()` pass by pass. `pc` is the place in
the loop, `pollfds` the snapshot. A descriptor is in use exactly while it is in
the registry, and accept may take any that is not. The peer's end, complete and
incomplete frames and the backlog are the kernel's side. A read of an incomplete
frame waits until the frame is complete or the connection ends.

**ServerProcess**: `main()` around `run()`, `admin_input_loop` on its own thread,
and the signal handler, whose `request_stop` is taken step by step between any
steps of the other two. One client stands for all. It has what ServerLoop leaves
out: `open()` and its failures, a failing `poll()`, a ban list too long to be
encoded (`too_long` is the first such line), `g_server` and the lifetime of the
server, and `std::terminate` when a joinable thread is destroyed.

**Worker**: what a queue with a thread of its own promises: accepted jobs are done
once, in order, eventually, and before the queue is opened again.

**CommandExecutor** and **FileLogger**: one step is a critical section, a
notification, or the work outside the lock. A wait on a condition variable is
the state "waiting", left by a notification or a spurious wake-up. Jobs are
numbered as they are accepted. Both implement Worker.

**Protocol**: encoders and decoders on sequences of bytes. A byte counts to `Radix`
(256 in the code), so that a small instance reaches the limits of the 16- and
32-bit fields. `Throws` is the result of a function that throws. `inserted`, the
parts of a message one behind the other, is a recursive function, of which
something can be proved; the library's flattening operator is RECURSIVE.

**Console** (extends Protocol): the two parsers, over the tokens of a line, with
what `std::stoul` makes of a number, a minus sign or a tail; and the messages
built from the client's commands.

**Framing** (extends Console): one direction of a connection. Lines are parsed,
built and encoded; handlers send too; `write_exact` puts any part of a frame
into a buffer with `room` for some bytes, thread by thread; `read_exact` takes
any part; either side may hang up. `meant` is what was asked for, `received`
what was decoded. A console line that makes the parser or the encoder throw (a
number out of range, a ban list longer than its count) ends the process, as
nothing catches it before `main`.

**ChatClient**: operators on the record of one client, one per function of
`ClientViewModel` and `PeerKeyStore`. A key pair is one value; the secret shared
by two pairs is the set of the two, the same from both sides, and a message
opens with the secret it was sealed with. A handler leaves its messages in
`unsent[thread]`, because the code sends after releasing `crypto_mutex_`.

**ChatSystem** (extends ChatServer and ChatClient): clients and server joined by
FIFO connections. Users start processes, which connect, exchange keys, run
console commands and end; at the end the key store is saved, not saved, or left
truncated. The server removes a client on hang-up (dropping unread frames; in
the kernel this takes a reset, the model allows it whenever the client is gone)
or on end of file. A client that gives up before it is accepted is left out, and
so is the server's stop (ServerLoop has it).

**ClientProcess**: `main()`, `run()` and the destructor on the main thread,
`receive_loop` on the other, the signal handler on the main thread. `fd0` is what
descriptor 0 is at the moment: after `close(STDIN_FILENO)` the next file or
socket opened gets it. `console` is what the output queue accepted, which by
CommandExecutor is what it prints. `close()` does not end a `read()` that is
already waiting, as on Linux; a signal does. The configuration is read line by
line (`config` is the file, the line and `last_percent`), since each line may report
progress. Every place where `run()` can throw
is there: configuration, logger, connecting, the first message, sending, and
what the parser or encoder throws for a line.

**KeyStore** (extends Protocol): the sessions that share a key store file: the
bytes of the store, the sealed file, `load_or_create_identity`, and a `save` that
empties the file before it writes. A session may be killed anywhere and a write
may fail. A sealed file opens only if complete and with its password.

**\*Proofs**: the theorems (section 4). **MC\***: instances. MCThreads and
MCClientProcess put together components that share no state; `moving` says which one
takes steps, so that the state spaces add up rather than multiply. MCServer does the
same with the handlers called in any order (ChatServer) and called by the loop
(ServerLoop).

Operators that differ from the code on purpose (`erase_no_nickname`,
`wake_nobody`, ...) stand directly before the definition they alter. Putting
one in place of that definition must break the property paired with it in
`PROJECT.json`: this shows that the property can fail.

## 3. The runs

| Run | Instance | Question | Result |
|---|---|---|---|
| server | handlers: 3 descriptors, 2 nicknames, 3 ban lists, ids to 6; loop: 3 descriptors, 2 connections at a time, 1 frame per connection, backlog 1, 1 admin line | registry, ids, bans and relaying under any order of events; snapshot, passes and descriptor reuse | holds, 306 036 states |
| loop_live | 2 descriptors, 1 frame per connection, backlog 1, 1 admin line that is no command | a stop ends `run()`; if clients finish their frames, gone peers are removed and the backlog is served | holds, 106 104 |
| threads | executor: 3 threads, 4 commands; logger: 2 threads, 3 entries; server process: 2 signals, 2 lines | queues implement Worker, stop returns, flush returns once logging pauses; a stop ends the server process in order, lines are processed | holds, 26 137 |
| logger_flush | the logger of threads | flush leaves nothing unwritten | **violated** |
| wire | bytes that count to 4, 2 frames, buffers of 5 and 40 bytes | what is typed or sent arrives, however it is cut | holds, 180 405 |
| client | 2 signals, 1 line, 1 message, 2 configuration files; 3 sessions of a key store that holds 3 peers | the client ends, explains why and saves; a file cut short is never mistaken for a store | holds, 240 824 |
| server_loss | the client of client with 1 line, no signal, no message | when the server goes the client ends by itself | **violated** |
| system | 2 users with up to 2 sessions each, 3 descriptors, all save outcomes; any 2 of: a command, a ban, an exit, a return | ids agree, banned keys are forgotten, nicknames match the server's | holds, 596 541 |
| join | 3 new users that only join | the exchange ends, with all keys and one room key | holds, 11 890 |
| id_reuse | 3 users, one leaves | all keys once nothing is on its way | **violated** |
| room_swap | 2 users, one returns | one room key | **violated** |
| chat_race | 2 users, one chat | a direct message can be read | **violated** |

Findings, each with its counterexample in the run named:

* `logger_flush`: the writer takes the last entry off the queue, `flush()` returns,
  the entry is written later. FileLogger.hpp:30 says otherwise. `FlushAllButOne`
  holds: only that one entry can be missing.
* `server_loss`: the receiver sees the connection end, closes descriptor 0 and
  returns; the main thread was already waiting in `getline`, which the `close` of
  another thread does not wake, and waits on. `src/README.md:80` says clients end by
  themselves, ClientViewModel.hpp:35 that closing stdin wakes `getline`. What holds:
  the user has been told (`ServerLossShown`), and this read is the last
  (`NeverWaitsAgain`).
* `id_reuse`: `key_offered_to_` keeps the id of a client that left. The next client
  with that id is offered no key, so it answers with none.
  `/key 2` before anybody has id 2 has the same effect (set `Commands <- KeyCommands`,
  `MaxEvents = 1` in MCJoin.cfg).
* `room_swap`: two clients that both have a room key (one from its file) send each
  other theirs and overwrite their own.
* `chat_race`: between storing a peer's key and sending its own, the client can
  send a chat its peer cannot decrypt.

Where a property has an exception, the code has a limit worth knowing:

* `StopOrderly`: a stop of an open server never ends in `std::terminate`, but for
  one case: the pass under way when the stop comes may still process a ban list
  of more than 65535 new ids, which `encode` refuses with an exception.
  Exceptions of a server that was not stopped do end there, because the console
  thread is still joinable: a `bind` or `listen` that fails, a stop that arrives
  while the socket is being opened, a `poll` that fails for lack of memory, such a
  ban list. The "Server error" of `server/main.cpp` is then not printed.
  (A stop between the test of `running_` after a failed `poll` and the `throw` counts
  as one that came after the exception.)
* `CallsReturn`: `flush()` waits for an empty queue. It returns if finitely many
  entries are logged (`MaxEntries` is such a number); under steady logging it may
  find the queue refilled each time it looks.
* `LateLinesDropped`: a line tested just before `g_server` is cleared is still
  handed over through the pointer, null by then or to a destroyed server. The
  property speaks only of lines typed after that.
* `HandlerHarmless`: when `run()` throws, `g_client_vm` is cleared only in the catch
  block, after the view model is gone; and a second signal may close a log or a
  socket that was opened after the first one closed descriptor 0.
* `ReceivedAsMeant`: with a full send buffer the two threads of a client can write
  into each other's frames; and a frame longer than its 16-bit length is sent with
  a wrong length. A number typed for an id wraps at 2^32.
* `RoomKeyed`, when `Leavers = {u1}`, `MaxEvents = 1` in MCJoin.cfg: only a client that finds the
  server empty creates a room key, so if it leaves before passing it on the
  others wait for ever.

**Bounds.** Three descriptors let two clients compete for an id or nickname while a
third watches; ids to 6 leave room for bans of ids in use, free and future. Two
connections in the loop are enough for one to be closed and its descriptor reused
while the other is served. Three threads give two posters and a stopper; two signals, one
that stops and one that finds the stop under way. With bytes that count to 4 a frame
has at most 15 bytes behind its length and ids end at 255, so that lines and
messages lie on both sides of every limit; a buffer of 5 bytes cuts every frame
and one of 40 takes two whole ones. Two signals are needed for the exception of
`HandlerHarmless`; a line and a message give each thread something to do while
the other ends. With bytes that count to 2 a list holds 3 peers, and there are 4
to be learned; three sessions are the fewest in which a completed save is
followed by one cut short and a restart. Two users with two sessions produce a
second connection before the first is removed, which is why there are three
descriptors; two events pair a command, ban, exit or return with any other, among
them a banned user that comes back (the end of a session that the server has
closed is not counted). Three joining users are the
fewest with a client that is neither the creator nor the last. Symmetry is used
for safety only. Deadlock is not checked in the loop (`run()` ends), in Framing
(all frames arrive) and in ChatSystem (when all are silent nothing has to
happen); it is checked elsewhere.

**Fairness.** Threads are scheduled unless they wait; users, signals, other hosts and
spurious wake-ups owe nothing. In particular: `LoopSpec` asks only for the thread
of `run()`, and `StopTerminates` needs no more; the other two liveness properties
of the loop assume `FairClients`, that a client completes a frame it began, as
`write_exact` does (without this one client blocks the server and both fail). In
ServerProcess `poll()` returns by its timeout as part of the main thread, while
a frame that arrives is the network's choice. In ClientProcess the main thread
is fair in a send only when the send fails: a server that is up need not read,
and leaving still ends; that such a server accepts and sends the id is what
`BacklogServed` shows. In Framing both ends keep reading and writing.
`FairSystemSpec`: the loop comes round to every connection (loop_live), and client
threads run.

## 4. The proofs

Assumptions, the ASSUMEs of the modules: `ServerConstants` (ids are bounded by a
positive number, ban lists are sets of numbers up to it), `LoopConstants` (the
listening socket has a descriptor of its own), `SystemConstants` (commands are
those of the console, messages can be told from "nothing sent"),
`ExecutorConstants`, `ProcessConstants` (the lines of a configuration file end one
after the other), `RadixAssumption` (`Radix` is at least 2), `FramingConstants` (lines
are made of tokens, handlers send messages that have a type, ids are not 0) and
`StoreConstants` (ids fit 32 bits, keys are numbers); that the bounds `MaxEntries` and
`MaxTyped` are natural numbers; and that an exception can be told from a result
(`ThrowsAssumption`, `ResultsAssumption`, `CommandsAssumption`). Everything else is
arbitrary.

**ChatServerProofs.** `TypeOK`, `RegistryConsistent`, `IdsAccounted`, `BannedSilent` and the
refinement of IdPool. The inductive invariant is
`TypeOK /\ RegistryConsistent /\ IdsAccounted /\ BannedShut`. `IdsAccounted` is not
inductive alone: removing a client frees its id, which is right only if nobody
else has it, and that is what the registry's consistency gives. `BannedSilent`
speaks of the last step's messages; presence notices are not filtered, so it
rests on `BannedShut`: a banned client still connected has been shut down. There
is a lemma for what each registry operation does, and one per action. For
IdPool, `IdsAccounted` makes the smallest free id, or else the counter, the
smallest id neither used nor banned.
`RelayedAsMeant` and `NeverOffline` speak of the messages of one step, so each
follows for a step from the same invariant: a nickname that resolves names an id
that is in the registry, and the sender is the record of the descriptor read
from. Steps that send only notices are settled together.

**ServerLoopProofs.** `LoopSpec => Spec`: every step of `run()`, of the console thread,
of a signal or of the network is a step of ChatServer or changes none of its
variables. It needs that `run()` reads only from registered clients (the types)
and that the lines it takes off the queue were typed (`Queues`). So all theorems
about ChatServer hold of the loop; `LoopSafety` states the main ones.
Then `PollCoversClients`, `NoIdleRead` and `BannedGoneBeforeReads`. None is inductive:
each speaks of one place in the loop, and what makes it true there was done
passes earlier. `LoopInv` follows it through the loop. `Entries`: in every state of
a pass an entry is the listening socket, a connected client or marked for
erasure, and no descriptor has two, even if `accept()` has given out one that the
same pass closed. `Covered`: a client without an entry exists only when the loop
stops. `Ready`: what the snapshot calls readable stays so until it is read.
`BannedLeave`: a ban shuts the connection down before `poll()`, so the snapshot has
a hang-up for it and the first pass removes it. That the next entry to be
served exists (the least index that is pending) is proved from the
well-foundedness of the numbers.

**ChatSystemProofs.** The server with its clients, for any users,
sessions, descriptors and ids: `SystemTypeOK`, `IdAgreed`, `BannedKeysForgotten`, and
ChatServer's `RegistryConsistent`, `IdsAccounted` and `BannedSilent` with clients that
answer. The inductive invariant is ChatServer's (`Safe`) and `SysInv`, which says of
the contents of the connections what the properties say of the clients. `Linked`:
the first message on a new connection is its AssignId and carries the id the
registry has; without the second half the id could differ when it is read.
`Informed`: for a ban that a client has not read of, the notice is *behind* every
key of the banned client, in the store or still in the inbox; a key that
arrives after its notice would stay. This holds because a client that is banned
is shut down in the same step, and nothing of it is relayed afterwards. `Waiting`:
a user in the backlog is there once and has been sent nothing, so that `accept`
finds an empty inbox. `Process` and `Wires` are types. First come the invariant and
what each operator of ChatClient does to it, then the server's steps (`Carries`
says what one step of the server may put on the connections), then the steps of a
client, and the theorems.

**ThreadProofs.** For the executor `TypeOK`, `StopDrains` and the safety part of Worker. The
invariant `Numbered` says the commands executed, the one held and those queued are,
in this order, 1 to `accepted`; `ReturnedEmpty` says the dispatcher returns only with
an empty queue after `running_` is cleared. `StopDrains` alone is not inductive: it
says nothing of the states before `stop()` returns.
The same for the logger, with `FlushAllButOne`. To `LogNumbered` come
`LogLifetimes` (a writer that may write has the file; without one nothing is queued)
and `LogMarks` (what a flush waits for was accepted; when it returns the queue was
empty, so at most the entry the writer holds is missing).

For the server process `ServerTypeOK`, `StopOrderly`, `LateLinesDropped`. The place of
the main thread decides what exists (`Lifetimes`): after `open()` the places of
`open()` are not entered again, and `poll()` throws only while `running_` is set, so
that a stopped server can throw only in `process_admin_queue`, where `processed` is
then the line that is too long. `Counts` has the lines processed and queued
among those typed. `Late` says that a late line is
never in the hands of a console thread that has passed the second test.

**ClientProcessProofs.** `ProcessTypeOK`, `KeysSaved`, `HandlerHarmless`, `NeverWaitsAgain`. `Lifetimes`
has the receiver joined before the save, `Saved` what the file holds from then on,
`Handler` that without an exception the pointer is cleared before the view model
goes. `Descriptor0` is the part that is hard to see: without an exception a log or
a socket can get descriptor 0 only after a signal, and then the receiver returns
without closing it; the key store gets it only once nobody is left to close it.
`ExitExplained` rests on `Farewell`. A thread sets `exit_announced_` and posts its line
later, and the other may go on in between. `Once` counts the lines shown and
those still to be posted together. `ServerGone` says that whatever the receiver does
to make the main thread leave (`vm_running_`, descriptor 0) comes after its line
was posted; `ClientLeaves`, that while the server is there the main thread shuts
the connection down only after its own line was posted.
`ProgressForward` rests on `Forward`: the percentages on the screen and those still to
be posted rise together, and each stage of the start-up has its share of the
scale, the reading of the file being between 10 and 35. `Loading` ties `last_percent`
to the line read; the percentages of successive lines rise because the ends of
the lines do, and `capped` keeps a last line without newline at 100.

**ProtocolProofs.** For every `Radix`, so for 256: numbers below 2^32 and strings that
`encode_string` accepts are read back as written, and the length field of a frame
that fits counts what follows. The argument is division with remainder.
`MessageRoundTrip`: every message that has an encoding is what `decode_app_message`
makes of that encoding, and if it fits, its header says where it ends. Encoders and
decoders go through lists of any length, so this takes induction. The induction
theorems of the library have an operator as parameter; instead a lemma takes the
least number for which it fails (`Least`: a set of numbers that is not empty has a
least element) and refutes it from the one before. So it is shown that the
recursive functions exist (`Unrolls`), where each part of `inserted` begins, and
that `next_user` stands behind the k-th user after k steps.
The module has all that FramingProofs needs and that is not about steps: what a
builder makes of a line's ids and text (`Ready`), what the parsers make of the tokens
(`Parsed`, `AdminParsed`; the list of bans is a recursive function again), and how
frames lie in a stream of bytes, whole or partly read (`Stream`, `Pending`). What it
uses of sequences it states itself in a few lemmas: every fact in scope costs tlapm
time at every leaf, and the library's theorems on sequences are many.

**FramingProofs.** `FramingTypeOK` and `ReceivedAsMeant`, for all lines, messages, buffers and
numbers of frames. `ReceivedAsMeant` is not inductive: it says nothing of the bytes on
their way. The invariant `FramingInv` has `Transported`: while nothing was torn or too
long, the bytes the reader holds, those in the buffer and those the writer still
has are, one behind the other, the frames of the messages that are meant and not
received (`Pending`, a frame of which only a tail is left, then whole frames). A
write moves the border between the last two parts and a read that between the first
two; a whole frame, by `Sized`, is complete exactly when the reader has as many
bytes as its header says, and then by `MessageRoundTrip` it is the message at its
head. `FrameWriters` and `FrameCount` say what a thread holds and that `meant` and the
frames still waiting are counted. On the typing side, the tokens of a line are
followed through the parsers and builders of ProtocolProofs to the frame a thread
starts to write (`Asked`, `Ready`, `Effect`).

**StoreProofs.** `StoreRoundTrip`: `deserialize` reads back what `serialize` wrote, for any
number of peers in any order: each entry lies at its own offset, and of the entries
of one id, all the same, the last one counts. `StoreTypeOK` and `RestartKeepsKeys` follow
from `StoreInv`, whose part `FileKept` says that the file is what the last completed
save has written, or is empty or incomplete and known to be so: `RestartKeepsKeys`
compares two sessions and says nothing of the file in between.

The type invariants of ChatServer, CommandExecutor, FileLogger, ServerProcess and
ClientProcess, `NeverOffline` and the logger's `StopDrains` are proved and not listed
in a run. Leaves that are purely first-order name the prover Zenon: tlapm's
translation for the SMT solver becomes slower with every obligation of a module
it has translated, and in the long modules would run out of time.

Model-checked only:

* liveness (fairness and ENABLED are out of the prover's reach), with it the
  liveness parts of Worker;
* `RosterCatchesUp`: it applies all messages of an inbox in turn, a recursive
  function of which nothing can be proved without induction over sequences;
* `PeersKeyed`, `RoomKeyed` and `RoomKeyAgreed`: they hold of clients that only join,
  and are false in general (runs id_reuse and room_swap), so that a proof would
  be about that one instance.

## 5. Not modelled

* A `request_stop` in the middle of an update of a registry map: undefined
  behaviour, since it iterates without a lock. In the models it falls between
  updates.
* The server's sends block on a full buffer only in Framing, which has one
  connection; ServerLoop's buffers do not fill.
* In ChatClient the lookup of a nickname and the chat that follows are one step.
  `nickname_by_id_` is left out, as nothing reads it.
* `Message<T>::serialize` and `deserialize`, which only tests use.
* The cryptography (Monocypher): numeric code on byte arrays; the models have which
  key opens what.
* What is printed and logged but for start-up progress and the line that explains
  the exit; timestamps; the values in configuration files; benchmarks and test
  doubles.
* `next_id_` wrapping at 2^32, which needs as many ids in use or banned at once.
