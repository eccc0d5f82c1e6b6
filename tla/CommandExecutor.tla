---------------------------- MODULE CommandExecutor ----------------------------
(* QueuedCommandExecutor: any thread posts commands, one dispatcher thread   *)
(* executes them, the owner stops it.  The client's console output runs      *)
(* through it (QueuedClientOutputView).                                      *)
(*                                                                           *)
(* A step is one critical section of mutex_, one notification of cv_ or one  *)
(* execution of a command.  Commands are numbered in the order in which they *)
(* enter the queue.                                                          *)
EXTENDS Naturals, Sequences

CONSTANTS
  Threads,      \* threads that post
  MaxCommands   \* bound: commands accepted in a behaviour

ASSUME ExecutorConstants == MaxCommands \in Nat

VARIABLES
  queue_,       \* commands accepted and not yet taken
  running_,     \* cleared by stop()
  dispatcher,   \* where the dispatcher thread is
  command,      \* the command it has taken
  poster,       \* thread -> "idle", or "notify" between the push and notify_one
  owner,        \* where the thread that calls stop() is
  accepted,     \* history: number of commands that entered the queue
  executed      \* history: the commands executed, in order

vars == <<queue_, running_, dispatcher, command, poster, owner, accepted, executed>>

kNoCommand == 0

wake_nobody == UNCHANGED dispatcher

(* A notification wakes the dispatcher only if it is waiting.                *)
wake == dispatcher' = IF dispatcher = "waiting" THEN "check" ELSE dispatcher

-------------------------------------------------------------------------------
(* post().  After stop() a command is dropped: the call changes nothing.     *)

post(t) ==
  /\ poster[t] = "idle" /\ accepted < MaxCommands
  /\ running_
  /\ accepted' = accepted + 1
  /\ queue_' = Append(queue_, accepted')
  /\ poster' = [poster EXCEPT ![t] = "notify"]
  /\ UNCHANGED <<running_, dispatcher, command, owner, executed>>

post_notify(t) ==
  /\ poster[t] = "notify"
  /\ wake
  /\ poster' = [poster EXCEPT ![t] = "idle"]
  /\ UNCHANGED <<queue_, running_, command, owner, accepted, executed>>

-------------------------------------------------------------------------------
(* stop().  It may be called again, as the destructor does.                  *)

stop ==
  /\ owner \in {"idle", "stopped"}
  /\ running_' = FALSE
  /\ owner' = "notify"
  /\ UNCHANGED <<queue_, dispatcher, command, poster, accepted, executed>>

stop_notify ==
  /\ owner = "notify"
  /\ wake
  /\ owner' = "join"
  /\ UNCHANGED <<queue_, running_, command, poster, accepted, executed>>

dispatcher_returned == dispatcher \in {"returned", "joined"}

(* join() returns when the dispatcher has; the second stop() finds the       *)
(* thread no longer joinable.                                                *)
join ==
  /\ owner = "join" /\ dispatcher_returned
  /\ dispatcher' = "joined"
  /\ owner' = "stopped"
  /\ UNCHANGED <<queue_, running_, command, poster, accepted, executed>>

-------------------------------------------------------------------------------
(* dispatcher_loop().                                                        *)

take == command' = Head(queue_) /\ queue_' = Tail(queue_)

leave_when_stopped == ~running_

leave_when == queue_ = <<>>

(* cv_.wait tests its predicate under the mutex.                             *)
dispatcher_check ==
  /\ dispatcher = "check"
  /\ \/ /\ queue_ = <<>> /\ running_
        /\ dispatcher' = "waiting"
        /\ UNCHANGED <<command, queue_>>
     \/ /\ queue_ # <<>> \/ ~running_
        /\ leave_when
        /\ dispatcher' = "returned"
        /\ UNCHANGED <<command, queue_>>
     \/ /\ queue_ # <<>> \/ ~running_
        /\ ~leave_when
        /\ take
        /\ dispatcher' = "execute"
  /\ UNCHANGED <<running_, poster, owner, accepted, executed>>

spurious_wakeup ==
  /\ dispatcher = "waiting"
  /\ dispatcher' = "check"
  /\ UNCHANGED <<queue_, running_, command, poster, owner, accepted, executed>>

execute ==
  /\ dispatcher = "execute"
  /\ executed' = Append(executed, command)
  /\ command' = kNoCommand
  /\ dispatcher' = "check"
  /\ UNCHANGED <<queue_, running_, poster, owner, accepted>>

-------------------------------------------------------------------------------
Init ==
  /\ queue_ = <<>> /\ running_ = TRUE
  /\ dispatcher = "check" /\ command = kNoCommand
  /\ poster = [t \in Threads |-> "idle"]
  /\ owner = "idle"
  /\ accepted = 0 /\ executed = <<>>

dispatcher_loop == dispatcher_check \/ execute

Next ==
  \/ \E t \in Threads : post(t) \/ post_notify(t)
  \/ stop \/ stop_notify \/ join
  \/ dispatcher_loop \/ spurious_wakeup

(* Threads that have begun a call, and the dispatcher, are scheduled; nobody *)
(* has to call anything, and nothing relies on a spurious wake-up.           *)
Spec ==
  /\ Init /\ [][Next]_vars
  /\ WF_vars(dispatcher_loop) /\ WF_vars(stop_notify) /\ WF_vars(join)
  /\ \A t \in Threads : WF_vars(post_notify(t))

-------------------------------------------------------------------------------
(* Properties.                                                               *)

(* Types; the dispatcher holds a command exactly while it executes it.       *)
TypeOK ==
  /\ queue_ \in Seq(1 .. MaxCommands) /\ executed \in Seq(1 .. MaxCommands)
  /\ running_ \in BOOLEAN
  /\ dispatcher \in {"check", "waiting", "execute", "returned", "joined"}
  /\ command \in 0 .. MaxCommands /\ (command # kNoCommand <=> dispatcher = "execute")
  /\ poster \in [Threads -> {"idle", "notify"}]
  /\ owner \in {"idle", "notify", "join", "stopped"}
  /\ accepted \in 0 .. MaxCommands

(* When stop() returns, every command that was accepted has been executed,   *)
(* although post() races with it up to the moment it clears running_.        *)
StopDrains == owner = "stopped" => Len(executed) = accepted

(* stop() returns: the dispatcher never misses the notification.             *)
StopReturns == owner = "notify" ~> owner = "stopped"

Queue == INSTANCE Worker WITH done <- executed, open <- running_

(* CommandExecutor implements Worker: an accepted command is executed once,  *)
(* in the order of acceptance, and it is executed eventually (no wake-up is  *)
(* lost between the push and the dispatcher's wait).                         *)
ExecutedInOrder == Queue!Spec
===============================================================================
