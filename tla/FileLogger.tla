------------------------------- MODULE FileLogger -------------------------------
(* logging::FileLogger: threads enqueue entries and wait in flush(), one     *)
(* writer thread appends them to the file, the owner opens and stops the     *)
(* logger.                                                                   *)
(*                                                                           *)
(* A step is one critical section of mutex_, one notification, one write or  *)
(* one operation of the owner outside the mutex.  Entries are numbered in    *)
(* the order in which they enter the queue.                                  *)
EXTENDS Naturals, Sequences

CONSTANTS
  Loggers,      \* threads that log and flush
  MaxEntries    \* bound: entries accepted in a behaviour

VARIABLES
  log_queue_,    \* entries accepted and not yet taken
  log_running_,  \* entries are accepted; the writer waits for more
  open_,         \* the last open() found the file
  stream_,       \* stream_.is_open()
  writer,        \* where the writer thread is
  entry,         \* the entry it has taken
  caller,        \* thread -> where it is in enqueue() or flush()
  mark,          \* thread -> entries accepted when it called flush()
  log_owner,     \* where the owner is in open() or stop()
  reopening,     \* the stop() in progress was called by open()
  log_accepted,  \* history: number of entries that entered the queue
  file           \* what has been written to the file, in order

log_opened == <<open_, stream_>>
main == <<log_owner, reopening>>
log_vars == <<log_queue_, log_running_, log_opened, writer, entry, caller, mark,
              main, log_accepted, file>>

kNoEntry == 0

notify_nobody == UNCHANGED writer

(* cv_has_work_, waited for by the writer only.                              *)
notify_has_work == writer' = IF writer = "waiting" THEN "check" ELSE writer

(* cv_drained_: every thread that waits in flush() tests the queue again.    *)
notify_drained ==
  caller' = [t \in Loggers |-> IF caller[t] = "drain_wait" THEN "flush" ELSE caller[t]]

-------------------------------------------------------------------------------
(* info(), warn(), error().  While the logger is stopped or has no file the  *)
(* entry is dropped: the call changes nothing.                               *)

enqueue(t) ==
  /\ caller[t] = "idle" /\ log_accepted < MaxEntries
  /\ log_running_ /\ open_
  /\ log_accepted' = log_accepted + 1
  /\ log_queue_' = Append(log_queue_, log_accepted')
  /\ caller' = [caller EXCEPT ![t] = "notify"]
  /\ UNCHANGED <<log_running_, log_opened, writer, entry, mark, main, file>>

enqueue_notify(t) ==
  /\ caller[t] = "notify"
  /\ notify_has_work
  /\ caller' = [caller EXCEPT ![t] = "idle"]
  /\ UNCHANGED <<log_queue_, log_running_, log_opened, entry, mark, main,
                 log_accepted, file>>

-------------------------------------------------------------------------------
(* flush().                                                                  *)

flush(t) ==
  /\ caller[t] = "idle"
  /\ caller' = [caller EXCEPT ![t] = "flush"]
  /\ mark' = [mark EXCEPT ![t] = log_accepted]
  /\ UNCHANGED <<log_queue_, log_running_, log_opened, writer, entry, main,
                 log_accepted, file>>

drained_unchecked == TRUE

drained == log_queue_ = <<>>

(* cv_drained_.wait tests its predicate under the mutex.                     *)
flush_check(t) ==
  /\ caller[t] = "flush"
  /\ caller' = [caller EXCEPT ![t] = IF drained THEN "flushed" ELSE "drain_wait"]
  /\ UNCHANGED <<log_queue_, log_running_, log_opened, writer, entry, mark, main,
                 log_accepted, file>>

flush_return(t) ==
  /\ caller[t] = "flushed"
  /\ caller' = [caller EXCEPT ![t] = "idle"]
  /\ mark' = [mark EXCEPT ![t] = 0]
  /\ UNCHANGED <<log_queue_, log_running_, log_opened, writer, entry, main,
                 log_accepted, file>>

-------------------------------------------------------------------------------
(* open() and stop(), called by one thread at a time; open() stops first.    *)

log_open ==
  /\ log_owner = "idle"
  /\ reopening' = TRUE
  /\ IF ~log_running_ /\ writer = "none"
     THEN log_owner' = "open" /\ UNCHANGED log_running_
     ELSE log_owner' = "notify" /\ log_running_' = FALSE
  /\ UNCHANGED <<log_queue_, log_opened, writer, entry, caller, mark, log_accepted,
                 file>>

log_stop ==
  /\ log_owner = "idle"
  /\ log_running_ \/ writer # "none"
  /\ log_running_' = FALSE
  /\ log_owner' = "notify"
  /\ UNCHANGED <<log_queue_, log_opened, writer, entry, caller, mark, reopening,
                 log_accepted, file>>

log_stop_notify ==
  /\ log_owner = "notify"
  /\ notify_has_work
  /\ log_owner' = "join"
  /\ UNCHANGED <<log_queue_, log_running_, log_opened, entry, caller, mark,
                 reopening, log_accepted, file>>

writer_returned == writer = "returned"

stop_join ==
  /\ log_owner = "join" /\ writer_returned
  /\ writer' = "none"
  /\ log_owner' = "close"
  /\ UNCHANGED <<log_queue_, log_running_, log_opened, entry, caller, mark,
                 reopening, log_accepted, file>>

stop_close ==
  /\ log_owner = "close"
  /\ stream_' = FALSE /\ open_' = FALSE
  /\ log_queue_' = <<>>
  /\ log_owner' = IF reopening THEN "open" ELSE "idle"
  /\ UNCHANGED <<log_running_, writer, entry, caller, mark, reopening, log_accepted,
                 file>>

(* The rest of open(): the file may not open, and then no writer is started. *)
open_stream ==
  /\ log_owner = "open"
  /\ \E ok \in BOOLEAN :
       /\ stream_' = ok /\ open_' = ok
       /\ log_running_' = ok
       /\ writer' = IF ok THEN "check" ELSE writer
  /\ log_owner' = "idle" /\ reopening' = FALSE
  /\ UNCHANGED <<log_queue_, entry, caller, mark, log_accepted, file>>

-------------------------------------------------------------------------------
(* writer_loop().                                                            *)

log_leave_when == log_queue_ = <<>>

log_take_unannounced ==
  /\ entry' = Head(log_queue_) /\ log_queue_' = Tail(log_queue_)
  /\ UNCHANGED caller

log_take ==
  /\ entry' = Head(log_queue_) /\ log_queue_' = Tail(log_queue_)
  /\ IF log_queue_' = <<>> THEN notify_drained ELSE UNCHANGED caller

(* cv_has_work_.wait tests its predicate under the mutex.                    *)
writer_check ==
  /\ writer = "check"
  /\ \/ /\ log_queue_ = <<>> /\ log_running_
        /\ writer' = "waiting"
        /\ UNCHANGED <<log_queue_, entry, caller>>
     \/ /\ log_queue_ # <<>> \/ ~log_running_
        /\ log_leave_when
        /\ notify_drained
        /\ writer' = "returned"
        /\ UNCHANGED <<log_queue_, entry>>
     \/ /\ log_queue_ # <<>> \/ ~log_running_
        /\ ~log_leave_when
        /\ log_take
        /\ writer' = "write"
  /\ UNCHANGED <<log_running_, log_opened, mark, main, log_accepted, file>>

(* Outside the mutex.  Each entry is flushed to the file.                    *)
write_entry ==
  /\ writer = "write"
  /\ file' = IF stream_ THEN Append(file, entry) ELSE file
  /\ entry' = kNoEntry
  /\ writer' = "check"
  /\ UNCHANGED <<log_queue_, log_running_, log_opened, caller, mark, main,
                 log_accepted>>

log_spurious_wakeup ==
  /\ \/ writer = "waiting" /\ writer' = "check" /\ UNCHANGED caller
     \/ /\ \E t \in Loggers :
             caller[t] = "drain_wait" /\ caller' = [caller EXCEPT ![t] = "flush"]
        /\ UNCHANGED writer
  /\ UNCHANGED <<log_queue_, log_running_, log_opened, entry, mark, main,
                 log_accepted, file>>

-------------------------------------------------------------------------------
LogInit ==
  /\ log_queue_ = <<>> /\ log_running_ = FALSE /\ open_ = FALSE /\ stream_ = FALSE
  /\ writer = "none" /\ entry = kNoEntry
  /\ caller = [t \in Loggers |-> "idle"] /\ mark = [t \in Loggers |-> 0]
  /\ log_owner = "idle" /\ reopening = FALSE
  /\ log_accepted = 0 /\ file = <<>>

writer_loop == writer_check \/ write_entry

owner_goes_on == log_stop_notify \/ stop_join \/ stop_close \/ open_stream

caller_goes_on(t) == enqueue_notify(t) \/ flush_check(t) \/ flush_return(t)

LogNext ==
  \/ \E t \in Loggers : enqueue(t) \/ flush(t) \/ caller_goes_on(t)
  \/ log_open \/ log_stop \/ owner_goes_on
  \/ writer_loop \/ log_spurious_wakeup

(* Threads inside a call, and the writer, are scheduled; nobody has to call  *)
(* anything, and nothing relies on a spurious wake-up.                       *)
LogSpec ==
  /\ LogInit /\ [][LogNext]_log_vars
  /\ WF_log_vars(writer_loop) /\ WF_log_vars(owner_goes_on)
  /\ \A t \in Loggers : WF_log_vars(caller_goes_on(t))

-------------------------------------------------------------------------------
(* Properties.                                                               *)

(* Types; the writer holds an entry exactly while it writes it.              *)
LogTypeOK ==
  /\ log_queue_ \in Seq(1 .. MaxEntries) /\ file \in Seq(1 .. MaxEntries)
  /\ {log_running_, open_, stream_} \subseteq BOOLEAN
  /\ writer \in {"none", "check", "waiting", "write", "returned"}
  /\ entry \in 0 .. MaxEntries /\ (entry # kNoEntry <=> writer = "write")
  /\ caller \in [Loggers -> {"idle", "notify", "flush", "drain_wait", "flushed"}]
  /\ mark \in [Loggers -> 0 .. MaxEntries]
  /\ log_owner \in {"idle", "notify", "join", "close", "open"} /\ reopening \in BOOLEAN
  /\ log_accepted \in 0 .. MaxEntries

(* stop() loses nothing: when it comes to close the file and clear the       *)
(* queue, every entry that was accepted is in the file.                      *)
LogStopDrains == log_owner = "close" => log_queue_ = <<>> /\ Len(file) = log_accepted

(* When flush() returns, of the entries accepted before the call only the    *)
(* one that the writer has taken can still be missing from the file.         *)
FlushAllButOne == \A t \in Loggers : caller[t] = "flushed" => Len(file) + 1 >= mark[t]

(* FileLogger.hpp: "Blocks until the writer queue is empty (entries already  *)
(* flushed to disk)": what was accepted before flush() is in the file when   *)
(* it returns.  writer_loop empties the queue before it writes.              *)
FlushWritten == \A t \in Loggers : caller[t] = "flushed" => Len(file) >= mark[t]

(* flush() returns once the others have stopped logging, which MaxEntries    *)
(* makes them do, also when the logger is stopped while it waits.  Under     *)
(* steady logging it may not: it waits for an empty queue, and each time it  *)
(* looks there may be a new entry.                                           *)
FlushReturns == \A t \in Loggers : caller[t] = "flush" ~> caller[t] = "flushed"

(* stop() and open() return: the writer never misses the notification.       *)
LogStopReturns == log_owner # "idle" ~> log_owner = "idle"

LogQueue == INSTANCE Worker WITH
  accepted <- log_accepted, done <- file, open <- log_running_

(* FileLogger implements Worker: an accepted entry is written once, in the   *)
(* order of acceptance, eventually, and before the logger is opened again.   *)
WrittenInOrder == LogQueue!Spec
===============================================================================
