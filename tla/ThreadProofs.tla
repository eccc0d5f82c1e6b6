----------------------------- MODULE ThreadProofs -----------------------------
(* Proofs about threads: the two queues with a thread that empties them,     *)
(* CommandExecutor, for any posting threads and any number of commands, and  *)
(* FileLogger, for any logging threads and any number of entries; and the    *)
(* threads of the server process, for any number of signals.                 *)
EXTENDS CommandExecutor, FileLogger, ServerProcess, TLAPS

-------------------------------------------------------------------------------
(* CommandExecutor.                                                          *)

(* Commands the dispatcher holds: none or one.                               *)
held == IF command = kNoCommand THEN 0 ELSE 1

(* The commands accepted are those executed, then the one the dispatcher     *)
(* holds, then those in the queue, in the order of acceptance.               *)
Numbered ==
  /\ Len(executed) + held + Len(queue_) = accepted
  /\ command # kNoCommand => command = Len(executed) + 1
  /\ \A i \in 1 .. Len(queue_) : queue_[i] = Len(executed) + held + i

(* The dispatcher returns only when no command is left and none can come.    *)
ReturnedEmpty ==
  /\ dispatcher \in {"returned", "joined"} => queue_ = <<>> /\ ~running_
  /\ owner = "stopped" => dispatcher = "joined"

(* The inductive invariant.  StopDrains alone says nothing of the states in  *)
(* which stop() has not returned yet; Numbered says where each command is.   *)
ExecutorInv == TypeOK /\ Numbered /\ ReturnedEmpty

(* What the three parts give: stop() has returned, so the dispatcher has,    *)
(* so it holds nothing and the queue is empty.                               *)
LEMMA StoppedDrained == ExecutorInv => StopDrains
BY ExecutorConstants DEF ExecutorInv, TypeOK, Numbered, ReturnedEmpty, StopDrains, held,
   kNoCommand

(* post(): the command gets the next number and goes to the end of the       *)
(* queue; the dispatcher has not returned, since running_ still holds.       *)
LEMMA PostSafe ==
  ASSUME ExecutorInv, NEW t \in Threads, post(t)
  PROVE  ExecutorInv'
<1> USE ExecutorConstants DEF post, kNoCommand
<1>1. TypeOK'
  BY DEF ExecutorInv, TypeOK
<1>2. /\ Len(queue_') = Len(queue_) + 1
      /\ queue_'[Len(queue_) + 1] = accepted + 1
      /\ \A i \in 1 .. Len(queue_) : queue_'[i] = queue_[i]
  BY DEF ExecutorInv, TypeOK
<1>3. Numbered'
  <2>1. held' = held /\ held \in Nat /\ Len(queue_) \in Nat /\ Len(executed) \in Nat
    BY DEF ExecutorInv, TypeOK, held
  <2>2. Len(executed) + held + Len(queue_) = accepted
    BY DEF ExecutorInv, Numbered
  <2>3. \A i \in 1 .. Len(queue_') : queue_'[i] = Len(executed) + held + i
    <3> TAKE i \in 1 .. Len(queue_')
    <3>1. CASE i \in 1 .. Len(queue_)
      BY <1>2, <3>1 DEF ExecutorInv, Numbered
    <3>2. CASE i = Len(queue_) + 1
      BY <1>2, <2>1, <2>2, <3>2
    <3> QED BY <1>2, <2>1, <3>1, <3>2
  <2>4. Len(executed) + held + Len(queue_') = accepted'
    BY <1>2, <2>1, <2>2
  <2> QED BY <2>1, <2>3, <2>4, Zenon DEF ExecutorInv, Numbered
<1>4. ReturnedEmpty'
  BY DEF ExecutorInv, ReturnedEmpty
<1> QED BY <1>1, <1>3, <1>4 DEF ExecutorInv

(* The dispatcher's critical section: it waits, returns, or takes the first  *)
(* command of the queue.                                                     *)
LEMMA CheckSafe ==
  ASSUME ExecutorInv, dispatcher_check
  PROVE  ExecutorInv'
<1> USE ExecutorConstants DEF kNoCommand
<1>1. CASE /\ queue_ # <<>> /\ take /\ dispatcher' = "execute"
           /\ UNCHANGED <<running_, poster, owner, accepted, executed>>
  <2>1. /\ Len(queue_) > 0 /\ Len(queue_') = Len(queue_) - 1
        /\ command' = queue_[1]
        /\ \A i \in 1 .. Len(queue_') : queue_'[i] = queue_[i + 1]
    BY <1>1 DEF ExecutorInv, TypeOK, take
  <2>2. command = 0 /\ dispatcher = "check"
    BY DEF ExecutorInv, TypeOK, dispatcher_check
  <2>3. command' = Len(executed) + 1
    BY <2>1, <2>2 DEF ExecutorInv, TypeOK, Numbered, held
  <2>4. TypeOK'
    <3>1. queue_' \in Seq(1 .. MaxCommands)
      BY <1>1, <2>1 DEF ExecutorInv, TypeOK, take
    <3>2. command' \in 1 .. MaxCommands
      BY <2>1 DEF ExecutorInv, TypeOK
    <3> QED BY <1>1, <3>1, <3>2 DEF ExecutorInv, TypeOK
  <2>5. Numbered'
    <3>1. /\ held = 0 /\ held' = 1 /\ executed' = executed /\ accepted' = accepted
          /\ Len(queue_) \in Nat /\ Len(executed) \in Nat
      BY <1>1, <2>2, <2>3 DEF ExecutorInv, TypeOK, held
    <3>2. Len(executed') + held' + Len(queue_') = accepted'
      BY <2>1, <3>1 DEF ExecutorInv, Numbered
    <3>3. \A i \in 1 .. Len(queue_') : queue_'[i] = Len(executed') + held' + i
      <4> TAKE i \in 1 .. Len(queue_')
      <4>1. i + 1 \in 1 .. Len(queue_) /\ queue_'[i] = queue_[i + 1]
        BY <2>1, <3>1
      <4>2. queue_[i + 1] = Len(executed) + held + (i + 1)
        BY <4>1 DEF ExecutorInv, Numbered
      <4> QED BY <3>1, <4>1, <4>2
    <3> QED BY <2>3, <3>1, <3>2, <3>3 DEF Numbered
  <2>6. ReturnedEmpty'
    BY <1>1, <2>2 DEF ExecutorInv, ReturnedEmpty
  <2> QED BY <2>4, <2>5, <2>6 DEF ExecutorInv
<1>2. CASE /\ queue_ = <<>> /\ UNCHANGED <<queue_, command>>
           /\ dispatcher' = (IF running_ THEN "waiting" ELSE "returned")
           /\ UNCHANGED <<running_, poster, owner, accepted, executed>>
  <2>1. dispatcher = "check"
    BY DEF dispatcher_check
  <2> QED BY <1>2, <2>1 DEF ExecutorInv, TypeOK, Numbered, ReturnedEmpty, held
<1> QED BY <1>1, <1>2 DEF dispatcher_check, leave_when, ExecutorInv, TypeOK

(* The command the dispatcher held is the last one executed.                 *)
LEMMA ExecuteSafe ==
  ASSUME ExecutorInv, execute
  PROVE  ExecutorInv'
<1> USE ExecutorConstants DEF execute, kNoCommand
<1>1. TypeOK'
  BY DEF ExecutorInv, TypeOK
<1>2. Len(executed') = Len(executed) + 1
  BY DEF ExecutorInv, TypeOK
<1>3. Numbered'
  BY <1>2 DEF ExecutorInv, TypeOK, Numbered, held
<1>4. ReturnedEmpty'
  BY DEF ExecutorInv, ReturnedEmpty
<1> QED BY <1>1, <1>3, <1>4 DEF ExecutorInv

(* Notifications, stop() and join() move threads, and no command.            *)
LEMMA OthersSafe ==
  ASSUME ExecutorInv,
         \/ \E t \in Threads : post_notify(t)
         \/ stop \/ stop_notify \/ join \/ spurious_wakeup
  PROVE  ExecutorInv'
<1>1. UNCHANGED <<queue_, command, accepted, executed>>
  BY DEF post_notify, stop, stop_notify, join, spurious_wakeup
<1>2. TypeOK'
  <2>1. CASE \E t \in Threads : post_notify(t)
    BY <1>1, <2>1 DEF ExecutorInv, TypeOK, post_notify, wake
  <2>2. CASE stop \/ stop_notify \/ join \/ spurious_wakeup
    BY <1>1, <2>2, Zenon DEF ExecutorInv, TypeOK, stop, stop_notify, join, dispatcher_returned,
       spurious_wakeup, wake
  <2> QED BY <2>1, <2>2
<1>3. Numbered'
  BY <1>1 DEF ExecutorInv, Numbered, held
<1>4. ReturnedEmpty'
  BY <1>1 DEF ExecutorInv, TypeOK, ReturnedEmpty, post_notify, stop, stop_notify, join,
     dispatcher_returned, spurious_wakeup, wake
<1> QED BY <1>2, <1>3, <1>4 DEF ExecutorInv

(* The invariant holds throughout.                                           *)
THEOREM ExecutorSafety == Spec => []ExecutorInv
<1>1. Init => ExecutorInv
  BY ExecutorConstants DEF Init, ExecutorInv, TypeOK, Numbered, ReturnedEmpty, held, kNoCommand
<1>2. ExecutorInv /\ [Next]_vars => ExecutorInv'
  <2> SUFFICES ASSUME ExecutorInv, [Next]_vars PROVE ExecutorInv'
    OBVIOUS
  <2>1. CASE UNCHANGED vars
    BY <2>1 DEF vars, ExecutorInv, TypeOK, Numbered, ReturnedEmpty, held
  <2>2. CASE \E t \in Threads : post(t)
    BY <2>2, PostSafe
  <2>3. CASE dispatcher_loop
    BY <2>3, CheckSafe, ExecuteSafe DEF dispatcher_loop
  <2>4. CASE \/ \E t \in Threads : post_notify(t)
             \/ stop \/ stop_notify \/ join \/ spurious_wakeup
    BY <2>4, OthersSafe
  <2> QED BY <2>1, <2>2, <2>3, <2>4 DEF Next
<1> QED BY <1>1, <1>2, PTL DEF Spec

(* Types; the dispatcher holds a command exactly while it executes it.       *)
THEOREM ExecutorTypeTheorem == Spec => []TypeOK
BY ExecutorSafety, PTL DEF ExecutorInv

(* When stop() returns, every accepted command has been executed.            *)
THEOREM StopDrainsTheorem == Spec => []StopDrains
BY ExecutorSafety, StoppedDrained, PTL

(* The safety half of ExecutedInOrder: commands are executed once each, in   *)
(* the order of acceptance, and none is accepted after stop().               *)
THEOREM ExecutedInOrderSafety == Spec => Queue!Safe
<1>1. Init => Queue!Init
  BY DEF Init, Queue!Init
<1>2. ExecutorInv /\ [Next]_vars => [Queue!Next]_<<accepted, executed, running_>>
  <2> SUFFICES ASSUME ExecutorInv, [Next]_vars
               PROVE  [Queue!Next]_<<accepted, executed, running_>>
    OBVIOUS
  <2>1. CASE \E t \in Threads : post(t)
    BY <2>1 DEF post, Queue!Next, Queue!Accept
  <2>2. CASE execute
    <3>1. command = Len(executed) + 1 /\ Len(executed) < accepted
      BY <2>2, ExecutorConstants DEF ExecutorInv, TypeOK, Numbered, held, kNoCommand, execute
    <3> QED BY <2>2, <3>1 DEF execute, Queue!Next, Queue!Perform
  <2>3. CASE stop
    BY <2>3 DEF stop, Queue!Next, Queue!Close
  <2>4. CASE UNCHANGED <<accepted, executed, running_>>
    BY <2>4
  <2> QED BY <2>1, <2>2, <2>3, <2>4 DEF Next, vars, dispatcher_loop, post_notify, stop_notify,
             join, dispatcher_check, spurious_wakeup
<1> QED BY <1>1, <1>2, ExecutorSafety, PTL DEF Spec, Queue!Safe

-------------------------------------------------------------------------------
(* FileLogger.                                                               *)

(* Entries the writer holds: none or one.                                    *)
log_held == IF entry = kNoEntry THEN 0 ELSE 1

(* TypeOK in two parts: the flags, and the rest.                             *)
LogFlags ==
  /\ log_running_ \in BOOLEAN /\ open_ \in BOOLEAN
  /\ stream_ \in BOOLEAN /\ reopening \in BOOLEAN

LogTypes ==
  /\ log_queue_ \in Seq(1 .. MaxEntries) /\ file \in Seq(1 .. MaxEntries)
  /\ writer \in {"none", "check", "waiting", "write", "returned"}
  /\ entry \in 0 .. MaxEntries /\ (entry # 0 <=> writer = "write")
  /\ caller \in [Loggers -> {"idle", "notify", "flush", "drain_wait", "flushed"}]
  /\ mark \in [Loggers -> 0 .. MaxEntries]
  /\ log_owner \in {"idle", "notify", "join", "close", "open"}
  /\ log_accepted \in 0 .. MaxEntries

(* The entries accepted are those in the file, then the one the writer       *)
(* holds, then those in the queue, in the order of acceptance.               *)
LogNumbered ==
  /\ Len(file) + log_held + Len(log_queue_) = log_accepted
  /\ entry # 0 => entry = Len(file) + 1
  /\ \A i \in 1 .. Len(log_queue_) : log_queue_[i] = Len(file) + log_held + i

(* A writer that may still write has the file; while there is none, or it    *)
(* has returned, nothing is queued and nothing is accepted; and the owner    *)
(* closes and opens the file only when there is no writer.                   *)
LogLifetimes ==
  /\ writer \in {"check", "waiting", "write"} => stream_
  /\ writer \in {"none", "returned"} => log_queue_ = <<>> /\ ~log_running_
  /\ log_owner \in {"close", "open"} => writer = "none"

(* What a thread in flush() waits for has been accepted.                     *)
LogMarks ==
  \A t \in Loggers :
    mark[t] <= log_accepted /\ (caller[t] = "flushed" => mark[t] <= Len(file) + 1)

(* The inductive invariant.                                                  *)
LogInv == LogTypes /\ LogNumbered /\ LogLifetimes /\ LogMarks

(* What the parts give.                                                      *)
LEMMA LogInvImplies ==
  ASSUME MaxEntries \in Nat, LogInv
  PROVE  LogStopDrains /\ FlushAllButOne
<1>1. LogStopDrains
  BY DEF LogInv, LogTypes, LogNumbered, LogLifetimes, LogStopDrains, log_held, kNoEntry
<1>2. FlushAllButOne
  <2> SUFFICES ASSUME NEW t \in Loggers, caller[t] = "flushed"
               PROVE  Len(file) + 1 >= mark[t]
    BY DEF FlushAllButOne
  <2>1. Len(file) \in Nat /\ mark[t] \in Nat
    BY DEF LogInv, LogTypes
  <2> QED BY <2>1 DEF LogInv, LogMarks
<1> QED BY <1>1, <1>2

(* enqueue(): the entry gets the next number and goes to the end of the      *)
(* queue; the writer has not returned, since running_ still holds.           *)
LEMMA EnqueueSafe ==
  ASSUME MaxEntries \in Nat, LogInv, NEW t \in Loggers, enqueue(t)
  PROVE  LogInv'
<1> USE DEF enqueue, main, log_opened, kNoEntry
<1>1. LogTypes'
  BY DEF LogInv, LogTypes
<1>2. /\ Len(log_queue_') = Len(log_queue_) + 1
      /\ log_queue_'[Len(log_queue_) + 1] = log_accepted + 1
      /\ \A i \in 1 .. Len(log_queue_) : log_queue_'[i] = log_queue_[i]
  BY DEF LogInv, LogTypes
<1>3. LogNumbered'
  <2>1. log_held' = log_held /\ log_held \in Nat /\ Len(log_queue_) \in Nat /\ Len(file) \in Nat
    BY DEF LogInv, LogTypes, log_held
  <2>2. Len(file) + log_held + Len(log_queue_) = log_accepted
    BY DEF LogInv, LogNumbered
  <2>3. \A i \in 1 .. Len(log_queue_') : log_queue_'[i] = Len(file) + log_held + i
    <3> TAKE i \in 1 .. Len(log_queue_')
    <3>1. CASE i \in 1 .. Len(log_queue_)
      BY <1>2, <3>1 DEF LogInv, LogNumbered
    <3>2. CASE i = Len(log_queue_) + 1
      BY <1>2, <2>1, <2>2, <3>2
    <3> QED BY <1>2, <2>1, <3>1, <3>2
  <2>4. Len(file) + log_held + Len(log_queue_') = log_accepted'
    BY <1>2, <2>1, <2>2
  <2> QED BY <2>1, <2>3, <2>4, Zenon DEF LogInv, LogNumbered
<1>4. LogLifetimes'
  BY DEF LogInv, LogTypes, LogLifetimes
<1>5. LogMarks'
  BY DEF LogInv, LogTypes, LogMarks
<1> QED BY <1>1, <1>3, <1>4, <1>5 DEF LogInv

(* flush(): entering it marks what has been accepted; it finds the queue     *)
(* empty, and then at most the entry the writer holds is not in the file.    *)
LEMMA FlushSafe ==
  ASSUME MaxEntries \in Nat, LogInv, NEW t \in Loggers,
         flush(t) \/ flush_check(t) \/ flush_return(t) \/ enqueue_notify(t)
  PROVE  LogInv'
<1> USE DEF flush, flush_check, flush_return, enqueue_notify, notify_has_work, main, log_opened,
        kNoEntry
<1>1. UNCHANGED <<log_queue_, log_running_, stream_, entry, log_owner, log_accepted, file>>
  OBVIOUS
<1>2. /\ writer' = writer \/ (writer = "waiting" /\ writer' = "check")
      /\ caller' \in [Loggers -> {"idle", "notify", "flush", "drain_wait", "flushed"}]
      /\ mark' \in [Loggers -> 0 .. MaxEntries]
  <2>1. CASE flush(t)
    BY <2>1 DEF LogInv, LogTypes
  <2>2. CASE flush_check(t)
    BY <2>2 DEF LogInv, LogTypes
  <2>3. CASE flush_return(t)
    BY <2>3 DEF LogInv, LogTypes
  <2>4. CASE enqueue_notify(t)
    BY <2>4 DEF LogInv, LogTypes
  <2> QED BY <2>1, <2>2, <2>3, <2>4
<1>3. LogTypes' /\ LogLifetimes'
  BY <1>1, <1>2 DEF LogInv, LogTypes, LogLifetimes
<1>4. LogNumbered'
  BY <1>1 DEF LogInv, LogNumbered, log_held
<1>5. LogMarks'
  <2>1. CASE flush_check(t)
    <3>1. Len(file) \in Nat /\ log_accepted \in Nat /\ log_held \in {0, 1} /\ mark[t] \in Nat
      BY DEF LogInv, LogTypes, log_held
    <3>2. drained => mark[t] <= Len(file) + 1
      BY <3>1 DEF LogInv, LogNumbered, LogMarks, drained
    <3> QED BY <2>1, <3>1, <3>2 DEF LogInv, LogTypes, LogMarks
  <2>2. CASE flush(t)
    BY <2>2 DEF LogInv, LogTypes, LogMarks
  <2>3. CASE flush_return(t)
    BY <2>3 DEF LogInv, LogTypes, LogMarks
  <2>4. CASE enqueue_notify(t)
    BY <2>4 DEF LogInv, LogTypes, LogMarks
  <2> QED BY <2>1, <2>2, <2>3, <2>4
<1> QED BY <1>3, <1>4, <1>5 DEF LogInv

(* The writer takes the first entry of the queue.                            *)
LEMMA TakeSafe ==
  ASSUME MaxEntries \in Nat, LogInv,
         writer = "check", log_queue_ # <<>>, log_take, writer' = "write",
         UNCHANGED <<log_running_, log_opened, mark, main, log_accepted, file>>
  PROVE  LogInv'
<1> USE DEF kNoEntry, main, log_opened
<1>1. /\ Len(log_queue_) > 0 /\ Len(log_queue_') = Len(log_queue_) - 1
      /\ entry' = log_queue_[1] /\ entry = 0
      /\ \A i \in 1 .. Len(log_queue_') : log_queue_'[i] = log_queue_[i + 1]
  BY DEF LogInv, LogTypes, log_take
<1>2. entry' = Len(file) + 1
  BY <1>1 DEF LogInv, LogTypes, LogNumbered, log_held
<1>3. \A t \in Loggers : caller'[t] = caller[t] \/ caller'[t] = "flush"
  BY DEF log_take, notify_drained
<1>4. LogTypes'
  <2>1. log_queue_' \in Seq(1 .. MaxEntries)
    BY DEF LogInv, LogTypes, log_take
  <2>2. entry' \in 1 .. MaxEntries
    BY <1>1 DEF LogInv, LogTypes
  <2>3. caller' \in [Loggers -> {"idle", "notify", "flush", "drain_wait", "flushed"}]
    BY DEF LogInv, LogTypes, log_take, notify_drained
  <2> QED BY <2>1, <2>2, <2>3 DEF LogInv, LogTypes
<1>5. LogNumbered'
  <2>1. /\ log_held = 0 /\ log_held' = 1 /\ file' = file /\ log_accepted' = log_accepted
        /\ Len(log_queue_) \in Nat /\ Len(file) \in Nat
    BY <1>1, <1>2 DEF LogInv, LogTypes, log_held
  <2>2. Len(file') + log_held' + Len(log_queue_') = log_accepted'
    BY <1>1, <2>1 DEF LogInv, LogNumbered
  <2>3. \A i \in 1 .. Len(log_queue_') : log_queue_'[i] = Len(file') + log_held' + i
    <3> TAKE i \in 1 .. Len(log_queue_')
    <3>1. i + 1 \in 1 .. Len(log_queue_) /\ log_queue_'[i] = log_queue_[i + 1]
      BY <1>1, <2>1
    <3>2. log_queue_[i + 1] = Len(file) + log_held + (i + 1)
      BY <3>1 DEF LogInv, LogNumbered
    <3> QED BY <2>1, <3>1, <3>2
  <2> QED BY <1>2, <2>1, <2>2, <2>3 DEF LogNumbered
<1>6. LogLifetimes'
  BY DEF LogInv, LogLifetimes
<1>7. LogMarks'
  BY <1>3 DEF LogInv, LogMarks
<1> QED BY <1>4, <1>5, <1>6, <1>7 DEF LogInv

(* writer_loop(): the writer waits, takes an entry, writes it, or returns.   *)
LEMMA WriterSafe ==
  ASSUME MaxEntries \in Nat, LogInv, writer_loop
  PROVE  LogInv'
<1> USE DEF kNoEntry, main, log_opened
<1>1. CASE write_entry
  <2>1. /\ stream_ /\ file' = Append(file, entry) /\ entry \in 1 .. MaxEntries
        /\ Len(file') = Len(file) + 1 /\ Len(file) \in Nat
    BY <1>1 DEF LogInv, LogTypes, LogLifetimes, write_entry
  <2>2. LogTypes'
    BY <1>1, <2>1 DEF LogInv, LogTypes, write_entry
  <2>3. LogNumbered'
    BY <1>1, <2>1 DEF LogInv, LogTypes, LogNumbered, log_held, write_entry
  <2>4. LogLifetimes'
    BY <1>1, <2>1 DEF LogInv, LogLifetimes, write_entry
  <2>5. LogMarks'
    BY <1>1, <2>1 DEF LogInv, LogTypes, LogMarks, write_entry
  <2> QED BY <2>2, <2>3, <2>4, <2>5 DEF LogInv
<1>2. CASE writer_check /\ log_queue_ # <<>>
  BY <1>2, TakeSafe DEF writer_check, log_leave_when
<1>3. CASE writer_check /\ log_queue_ = <<>>
  <2>1. /\ writer = "check" /\ log_queue_ = <<>>
        /\ (log_running_ /\ writer' = "waiting") \/ (~log_running_ /\ writer' = "returned")
        /\ UNCHANGED <<log_queue_, log_running_, stream_, entry, mark, log_owner, log_accepted, file>>
    BY <1>3 DEF writer_check, log_leave_when
  <2>2. /\ \A t \in Loggers : caller'[t] = caller[t] \/ caller'[t] = "flush"
        /\ caller' \in [Loggers -> {"idle", "notify", "flush", "drain_wait", "flushed"}]
    BY <1>3 DEF LogInv, LogTypes, writer_check, log_leave_when, notify_drained
  <2>3. LogTypes'
    BY <2>1, <2>2 DEF LogInv, LogTypes
  <2>4. LogNumbered' /\ LogLifetimes'
    BY <2>1 DEF LogInv, LogTypes, LogNumbered, LogLifetimes, log_held
  <2>5. LogMarks'
    BY <2>1, <2>2 DEF LogInv, LogMarks
  <2> QED BY <2>3, <2>4, <2>5 DEF LogInv
<1> QED BY <1>1, <1>2, <1>3 DEF writer_loop

(* open() and stop() move no entry: the queue that stop() clears is empty.   *)
LEMMA OwnerSafe ==
  ASSUME MaxEntries \in Nat, LogInv, log_open \/ log_stop \/ owner_goes_on
  PROVE  LogInv'
<1> USE DEF log_open, log_stop, owner_goes_on, log_stop_notify, stop_join, stop_close,
open_stream,
        notify_has_work, writer_returned, main, log_opened, kNoEntry
<1>1. UNCHANGED <<entry, caller, mark, log_accepted, file>>
  OBVIOUS
<1>2. log_queue_' = log_queue_
  BY DEF LogInv, LogTypes, LogLifetimes
<1>3. LogTypes'
  <2>1. log_owner' \in {"idle", "notify", "join", "close", "open"}
    OBVIOUS
  <2>2. /\ writer' \in {"none", "check", "waiting", "write", "returned"}
        /\ writer' = "write" <=> writer = "write"
    BY DEF LogInv, LogTypes, LogLifetimes
  <2> QED BY <1>1, <1>2, <2>1, <2>2 DEF LogInv, LogTypes
<1>4. LogNumbered' /\ LogMarks'
  BY <1>1, <1>2 DEF LogInv, LogNumbered, LogMarks, log_held
<1>5. LogLifetimes'
  BY <1>1, <1>2 DEF LogInv, LogTypes, LogLifetimes
<1> QED BY <1>3, <1>4, <1>5 DEF LogInv

(* A thread may wake for no reason: it tests its condition again.            *)
LEMMA WakeupSafe ==
  ASSUME MaxEntries \in Nat, LogInv, log_spurious_wakeup
  PROVE  LogInv'
<1> USE DEF log_spurious_wakeup, main, log_opened, kNoEntry
<1>1. UNCHANGED <<log_queue_, log_running_, stream_, entry, mark, log_owner, log_accepted, file>>
  OBVIOUS
<1>2. LogTypes' /\ LogLifetimes'
  <2>1. CASE writer = "waiting" /\ writer' = "check" /\ UNCHANGED caller
    BY <1>1, <2>1 DEF LogInv, LogTypes, LogLifetimes
  <2>2. CASE UNCHANGED writer
    <3>1. caller' \in [Loggers -> {"idle", "notify", "flush", "drain_wait", "flushed"}]
      BY <2>2, Zenon DEF LogInv, LogTypes
    <3> QED BY <1>1, <2>2, <3>1 DEF LogInv, LogTypes, LogLifetimes
  <2> QED BY <2>1, <2>2
<1>3. LogNumbered'
  BY <1>1 DEF LogInv, LogNumbered, log_held
<1>4. LogMarks'
  BY <1>1 DEF LogInv, LogTypes, LogMarks
<1> QED BY <1>2, <1>3, <1>4 DEF LogInv

(* The invariant holds throughout.                                           *)
THEOREM LoggerSafety ==
  ASSUME MaxEntries \in Nat
  PROVE  LogSpec => []LogInv
<1>1. LogInit => LogInv
  BY DEF LogInit, LogInv, LogTypes, LogNumbered, LogLifetimes, LogMarks, log_held, kNoEntry
<1>2. LogInv /\ [LogNext]_log_vars => LogInv'
  <2> SUFFICES ASSUME LogInv, [LogNext]_log_vars PROVE LogInv'
    OBVIOUS
  <2>1. CASE UNCHANGED log_vars
    BY <2>1 DEF log_vars, log_opened, main, LogInv, LogTypes, LogNumbered, LogLifetimes,
       LogMarks, log_held
  <2>2. CASE \E t \in Loggers : enqueue(t) \/ flush(t) \/ caller_goes_on(t)
    BY <2>2, EnqueueSafe, FlushSafe DEF caller_goes_on
  <2>3. CASE log_open \/ log_stop \/ owner_goes_on
    BY <2>3, OwnerSafe
  <2>4. CASE writer_loop
    BY <2>4, WriterSafe
  <2>5. CASE log_spurious_wakeup
    BY <2>5, WakeupSafe
  <2> QED BY <2>1, <2>2, <2>3, <2>4, <2>5 DEF LogNext
<1> QED BY <1>1, <1>2, PTL DEF LogSpec

(* Each flag is only ever given a truth value.                               *)
LEMMA FlagsSafe == LogSpec => []LogFlags
<1>1. LogInit => LogFlags
  BY Zenon DEF LogInit, LogFlags
<1>2. LogFlags /\ [LogNext]_log_vars => LogFlags'
  <2> SUFFICES ASSUME LogFlags, [LogNext]_log_vars PROVE LogFlags'
    OBVIOUS
  <2>1. CASE open_stream
    BY <2>1, Zenon DEF LogFlags, open_stream
  <2>2. CASE log_open \/ log_stop
    BY <2>2, Zenon DEF LogFlags, log_open, log_stop, log_opened
  <2>3. CASE stop_close
    BY <2>3, Zenon DEF LogFlags, stop_close
  <2>4. CASE UNCHANGED <<log_running_, log_opened, reopening>>
    BY <2>4, Zenon DEF LogFlags, log_opened
  <2> QED BY <2>1, <2>2, <2>3, <2>4, Zenon DEF LogNext, log_vars, main, enqueue,
             caller_goes_on, flush,
             flush_check, flush_return, enqueue_notify, owner_goes_on, log_stop_notify,
             stop_join,
             writer_loop, writer_check, write_entry, log_spurious_wakeup
<1> QED BY <1>1, <1>2, PTL DEF LogSpec

(* LogTypes; the writer holds an entry exactly while it writes it.              *)
THEOREM LoggerTypeTheorem ==
  ASSUME MaxEntries \in Nat
  PROVE  LogSpec => []LogTypeOK
<1>1. LogInv /\ LogFlags => LogTypeOK
  <2>1. LogFlags => {log_running_, open_, stream_} \subseteq BOOLEAN /\ reopening \in BOOLEAN
    BY Zenon DEF LogFlags
  <2> QED BY <2>1 DEF LogInv, LogTypes, LogTypeOK, kNoEntry
<1> QED BY <1>1, LoggerSafety, FlagsSafe, PTL

(* When stop() comes to close the file, every accepted entry is in it.       *)
THEOREM LoggerStopDrainsTheorem ==
  ASSUME MaxEntries \in Nat
  PROVE  LogSpec => []LogStopDrains
BY LoggerSafety, LogInvImplies, PTL

(* When flush() returns, at most one entry accepted before the call is not   *)
(* yet in the file.                                                          *)
THEOREM FlushAllButOneTheorem ==
  ASSUME MaxEntries \in Nat
  PROVE  LogSpec => []FlushAllButOne
BY LoggerSafety, LogInvImplies, PTL

(* The safety half of WrittenInOrder: entries are written once each, in the  *)
(* order of acceptance, and the logger is opened again only when all of them *)
(* are in the file.                                                          *)
THEOREM WrittenInOrderSafety ==
  ASSUME MaxEntries \in Nat
  PROVE  LogSpec => LogQueue!Safe
<1>1. LogInit => LogQueue!Init
  BY Zenon DEF LogInit, LogQueue!Init
<1>2. LogInv /\ [LogNext]_log_vars => [LogQueue!Next]_<<log_accepted, file, log_running_>>
  <2> SUFFICES ASSUME LogInv, [LogNext]_log_vars
               PROVE  [LogQueue!Next]_<<log_accepted, file, log_running_>>
    OBVIOUS
  <2>1. CASE \E t \in Loggers : enqueue(t)
    BY <2>1 DEF enqueue, LogQueue!Next, LogQueue!Accept
  <2>2. CASE write_entry
    <3>1. stream_ /\ entry = Len(file) + 1 /\ Len(file) < log_accepted
      BY <2>2 DEF LogInv, LogTypes, LogNumbered, LogLifetimes, log_held, kNoEntry, write_entry
    <3> QED BY <2>2, <3>1 DEF write_entry, LogQueue!Next, LogQueue!Perform
  <2>3. CASE log_open \/ log_stop
    BY <2>3 DEF log_open, log_stop, LogQueue!Next, LogQueue!Close
  <2>4. CASE open_stream
    <3>1. Len(file) = log_accepted
      BY <2>4 DEF LogInv, LogTypes, LogNumbered, LogLifetimes, log_held, kNoEntry, open_stream
    <3>2. CASE log_running_' = TRUE
      BY <2>4, <3>1, <3>2 DEF open_stream, LogQueue!Next, LogQueue!Reopen
    <3>3. CASE log_running_' = FALSE
      BY <2>4, <3>3 DEF open_stream, LogQueue!Next, LogQueue!Close
    <3> QED BY <2>4, <3>2, <3>3, Zenon DEF open_stream
  <2>5. CASE UNCHANGED <<log_accepted, file, log_running_>>
    BY <2>5
  <2> QED BY <2>1, <2>2, <2>3, <2>4, <2>5 DEF LogNext, log_vars, caller_goes_on, flush,
             flush_check,
             flush_return, enqueue_notify, owner_goes_on, log_stop_notify, stop_join,
             stop_close,
             writer_loop, writer_check, log_spurious_wakeup
<1> QED BY <1>1, <1>2, LoggerSafety, PTL DEF LogSpec, LogQueue!Safe

-------------------------------------------------------------------------------
(* ServerProcess for any number of signals and of lines typed: types, the    *)
(* orderly end, and that a line typed after the server has gone is dropped.  *)

(* The places at which the server exists and g_server points to it, before   *)
(* and after its loop is entered.                                            *)
Opening == {"start_console", "socket", "bind", "listen", "show_listening"}
InRun == {"loop", "admin", "poll", "events", "register", "receive", "disconnect", "clear"}
AfterRun == {"set_eof", "detach", "destroy", "ended"}
Places == {"config", "construct", "failed", "terminated"}
            \union Opening \union InRun \union AfterRun

Consoles == {"none", "test", "getline", "test_again", "submit", "returned"}

(* The line the console thread has read and not yet handed over.             *)
InHand == IF console \in {"test_again", "submit"} THEN 1 ELSE 0

Types ==
  /\ at \in Places /\ console \in Consoles /\ handler \in 0 .. 3
  /\ listen_fd_ \in {"none", "created", "bound", "listening"}
  /\ client \in {"none", "accepted", "registered", "polled"}

Booleans ==
  /\ g_server \in BOOLEAN /\ joinable \in BOOLEAN /\ opened \in BOOLEAN
  /\ null_call \in BOOLEAN /\ late \in BOOLEAN

(* Where the main thread is decides what exists.                             *)
Lifetimes ==
  /\ g_server <=> at \in Opening \union InRun \union {"terminated"}
  /\ g_server => server = "alive"
  /\ opened => at \notin {"config", "construct"} \union Opening
  /\ opened /\ ~server_running_ /\ at = "terminated" => too_long # 0 /\ processed = too_long
  /\ at \in {"destroy", "ended"} => ~joinable
  /\ console # "none" => at \notin {"config", "construct", "start_console"}

(* A late line is never in the hands of a thread that has tested the pointer,*)
(* and a thread that has called through a null pointer is gone.              *)
Late ==
  /\ late => ~g_server /\ console \notin {"none", "submit"}
  /\ null_call => console = "returned" /\ ~late

Counts ==
  /\ processed \in Nat /\ admin_queue_ \in Nat /\ typed \in Nat
  /\ processed + admin_queue_ + InHand <= typed /\ typed <= MaxTyped
  /\ too_long \in 0 .. typed

ServerInv == Types /\ Booleans /\ Lifetimes /\ Late /\ Counts
-------------------------------------------------------------------------------
(* main() starts with nothing typed and no server.                           *)
LEMMA InitInv == ASSUME MaxTyped \in Nat PROVE ServerInit => ServerInv
<1> SUFFICES ASSUME MaxTyped \in Nat, ServerInit PROVE ServerInv
  OBVIOUS
<1>0. Types
  BY DEF ServerInit, Types, Places, Consoles
<1>1. Booleans
  BY Zenon DEF ServerInit, Booleans
<1>2. Lifetimes
  BY DEF ServerInit, Lifetimes, Opening, InRun, AfterRun
<1>3. Late
  BY DEF ServerInit, Late
<1>4. Counts
  BY DEF ServerInit, Counts, InHand
<1> QED
  BY <1>0, <1>1, <1>2, <1>3, <1>4 DEF ServerInv

(* Every step of main(), of run(), of the console thread and of the signal   *)
(* handler preserves the invariant.                                          *)
LEMMA StepInv ==
  ASSUME MaxTyped \in Nat, ServerInv, [ServerNext]_process_vars
  PROVE  ServerInv'
<1> USE DEF Opening, InRun, AfterRun, Places, Consoles, life, clients, io, history
<1>types. Types /\ Booleans /\ Lifetimes /\ Late /\ Counts
  BY DEF ServerInv
<1>main. ASSUME main_thread PROVE ServerInv'
  <2>1. CASE load_config
    <3>1. Types' /\ Lifetimes' /\ Late' /\ Counts'
      BY <2>1, <1>types DEF Types, Lifetimes, Late, Counts, InHand, load_config, main_step
    <3>2. Booleans'
      BY <2>1, <1>types, Zenon DEF Booleans, load_config, main_step
    <3> QED BY <3>1, <3>2, Zenon DEF ServerInv
  <2>2. CASE construct
    <3>1. Types' /\ Lifetimes' /\ Late' /\ Counts'
      BY <2>2, <1>types DEF Types, Lifetimes, Late, Counts, InHand, construct, main_step
    <3>2. Booleans'
      BY <2>2, <1>types, Zenon DEF Booleans, construct, main_step
    <3> QED BY <3>1, <3>2, Zenon DEF ServerInv
  <2>3. CASE start_console
    <3>1. Types' /\ Lifetimes' /\ Late' /\ Counts'
      BY <2>3, <1>types DEF Types, Lifetimes, Late, Counts, InHand, start_console
    <3>2. Booleans'
      BY <2>3, <1>types, Zenon DEF Booleans, start_console
    <3> QED BY <3>1, <3>2, Zenon DEF ServerInv
  <2>4. CASE open
    <3>1. Types' /\ Lifetimes' /\ Late' /\ Counts'
      BY <2>4, <1>types DEF Types, Lifetimes, Late, Counts, InHand, open, open_step, main_step
    <3>2. Booleans'
      BY <2>4, <1>types, Zenon DEF Booleans, open, open_step, main_step
    <3> QED BY <3>1, <3>2, Zenon DEF ServerInv
  <2>5. CASE show_listening
    <3>1. Types' /\ Lifetimes' /\ Late' /\ Counts'
      BY <2>5, <1>types DEF Types, Lifetimes, Late, Counts, InHand, show_listening, main_step
    <3>2. Booleans'
      BY <2>5, <1>types, Zenon DEF Booleans, show_listening, main_step
    <3> QED BY <3>1, <3>2, Zenon DEF ServerInv
  <2>6. CASE while_running
    <3>1. Types' /\ Lifetimes' /\ Late' /\ Counts'
      BY <2>6, <1>types DEF Types, Lifetimes, Late, Counts, InHand, while_running, main_step
    <3>2. Booleans'
      BY <2>6, <1>types, Zenon DEF Booleans, while_running, main_step
    <3> QED BY <3>1, <3>2, Zenon DEF ServerInv
  <2>7. CASE process_admin_queue
    <3>1. Types' /\ Lifetimes' /\ Late' /\ Counts'
      BY <2>7, <1>types DEF Types, Lifetimes, Late, Counts, InHand, process_admin_queue,
         main_step
    <3>2. Booleans'
      BY <2>7, <1>types, Zenon DEF Booleans, process_admin_queue, main_step
    <3> QED BY <3>1, <3>2, Zenon DEF ServerInv
  <2>8. CASE poll
    <3>1. Types' /\ Lifetimes' /\ Late' /\ Counts'
      BY <2>8, <1>types DEF Types, Lifetimes, Late, Counts, InHand, poll, main_step
    <3>2. Booleans'
      BY <2>8, <1>types, Zenon DEF Booleans, poll, main_step
    <3> QED BY <3>1, <3>2, Zenon DEF ServerInv
  <2>9. CASE events
    <3>1. Types' /\ Lifetimes' /\ Late' /\ Counts'
      BY <2>9, <1>types DEF Types, Lifetimes, Late, Counts, InHand, events, main_step
    <3>2. Booleans'
      BY <2>9, <1>types, Zenon DEF Booleans, events, main_step
    <3> QED BY <3>1, <3>2, Zenon DEF ServerInv
  <2>10. CASE register
    <3>1. Types' /\ Lifetimes' /\ Late' /\ Counts'
      BY <2>10, <1>types DEF Types, Lifetimes, Late, Counts, InHand, register, main_step
    <3>2. Booleans'
      BY <2>10, <1>types, Zenon DEF Booleans, register, main_step
    <3> QED BY <3>1, <3>2, Zenon DEF ServerInv
  <2>11. CASE receive
    <3>1. Types' /\ Lifetimes' /\ Late' /\ Counts'
      BY <2>11, <1>types DEF Types, Lifetimes, Late, Counts, InHand, receive, main_step
    <3>2. Booleans'
      BY <2>11, <1>types, Zenon DEF Booleans, receive, main_step
    <3> QED BY <3>1, <3>2, Zenon DEF ServerInv
  <2>12. CASE disconnect_all_clients
    <3>1. Types' /\ Lifetimes' /\ Late' /\ Counts'
      BY <2>12, <1>types DEF Types, Lifetimes, Late, Counts, InHand, disconnect_all_clients,
         main_step
    <3>2. Booleans'
      BY <2>12, <1>types, Zenon DEF Booleans, disconnect_all_clients, main_step
    <3> QED BY <3>1, <3>2, Zenon DEF ServerInv
  <2>13. CASE clear_g_server
    <3>1. Types' /\ Lifetimes' /\ Late' /\ Counts'
      BY <2>13, <1>types DEF Types, Lifetimes, Late, Counts, InHand, clear_g_server, cleared,
         main_step
    <3>2. Booleans'
      BY <2>13, <1>types, Zenon DEF Booleans, clear_g_server, cleared, main_step
    <3> QED BY <3>1, <3>2, Zenon DEF ServerInv
  <2>14. CASE set_eof
    <3>1. Types' /\ Lifetimes' /\ Late' /\ Counts'
      BY <2>14, <1>types DEF Types, Lifetimes, Late, Counts, InHand, set_eof, main_step
    <3>2. Booleans'
      BY <2>14, <1>types, Zenon DEF Booleans, set_eof, main_step
    <3> QED BY <3>1, <3>2, Zenon DEF ServerInv
  <2>15. CASE detach
    <3>1. Types' /\ Lifetimes' /\ Late' /\ Counts'
      BY <2>15, <1>types DEF Types, Lifetimes, Late, Counts, InHand, detach, main_step
    <3>2. Booleans'
      BY <2>15, <1>types, Zenon DEF Booleans, detach, main_step
    <3> QED BY <3>1, <3>2, Zenon DEF ServerInv
  <2>16. CASE destroy
    <3>1. Types' /\ Lifetimes' /\ Late' /\ Counts'
      BY <2>16, <1>types DEF Types, Lifetimes, Late, Counts, InHand, destroy, main_step
    <3>2. Booleans'
      BY <2>16, <1>types, Zenon DEF Booleans, destroy, main_step
    <3> QED BY <3>1, <3>2, Zenon DEF ServerInv
  <2> QED BY <1>main, <2>1, <2>2, <2>3, <2>4, <2>5, <2>6, <2>7, <2>8, <2>9, <2>10, <2>11,
             <2>12, <2>13, <2>14, <2>15, <2>16, Zenon DEF main_thread
<1>console. ASSUME console_thread \/ type_line \/ end_input PROVE ServerInv'
  <2>1. CASE test_g_server
    <3>1. Types' /\ Lifetimes' /\ Late' /\ Counts'
      BY <2>1, <1>types DEF Types, Lifetimes, Late, Counts, InHand, test_g_server, console_step
    <3>2. Booleans'
      BY <2>1, <1>types, Zenon DEF Booleans, test_g_server, console_step
    <3> QED BY <3>1, <3>2, Zenon DEF ServerInv
  <2>2. CASE test_again
    <3>1. Types' /\ Lifetimes' /\ Late' /\ Counts'
      BY <2>2, <1>types DEF Types, Lifetimes, Late, Counts, InHand, test_again, submits,
         console_step
    <3>2. Booleans'
      BY <2>2, <1>types, Zenon DEF Booleans, test_again, submits, console_step
    <3> QED BY <3>1, <3>2, Zenon DEF ServerInv
  <2>3. CASE submit_admin_line
    <3>1. Types' /\ Lifetimes' /\ Late' /\ Counts'
      BY <2>3, <1>types DEF Types, Lifetimes, Late, Counts, InHand, submit_admin_line,
         console_step
    <3>2. Booleans'
      BY <2>3, <1>types, Zenon DEF Booleans, submit_admin_line, console_step
    <3> QED BY <3>1, <3>2, Zenon DEF ServerInv
  <2>4. CASE type_line
    <3>0. Late'
      <4>1. ~null_call /\ console # "none"
        BY <2>4, <1>types, Zenon DEF Late, type_line, console_step
      <4> QED BY <2>4, <1>types, <4>1, Zenon DEF Late, type_line, console_step, life
    <3>1. Types' /\ Lifetimes' /\ Counts'
      BY <2>4, <1>types DEF Types, Lifetimes, Counts, InHand, type_line, console_step
    <3>2. Booleans'
      BY <2>4, <1>types, Zenon DEF Booleans, type_line, console_step
    <3> QED BY <3>0, <3>1, <3>2, Zenon DEF ServerInv
  <2>5. CASE end_input
    <3>1. Types' /\ Lifetimes' /\ Late' /\ Counts'
      BY <2>5, <1>types DEF Types, Lifetimes, Late, Counts, InHand, end_input, console_step
    <3>2. Booleans'
      BY <2>5, <1>types, Zenon DEF Booleans, end_input, console_step
    <3> QED BY <3>1, <3>2, Zenon DEF ServerInv
  <2> QED BY <1>console, <2>1, <2>2, <2>3, <2>4, <2>5, Zenon DEF console_thread
<1>clients. ASSUME poll_returns \/ frame_arrives PROVE ServerInv'
  <2>1. CASE poll_returns
    <3>1. Types' /\ Lifetimes' /\ Late' /\ Counts'
      BY <2>1, <1>types DEF Types, Lifetimes, Late, Counts, InHand, poll_returns, poll_error,
         main_step
    <3>2. Booleans'
      BY <2>1, <1>types, Zenon DEF Booleans, poll_returns, poll_error, main_step
    <3> QED BY <3>1, <3>2, Zenon DEF ServerInv
  <2>2. CASE frame_arrives
    <3>1. Types' /\ Lifetimes' /\ Late' /\ Counts'
      BY <2>2, <1>types DEF Types, Lifetimes, Late, Counts, InHand, frame_arrives, main_step
    <3>2. Booleans'
      BY <2>2, <1>types, Zenon DEF Booleans, frame_arrives, main_step
    <3> QED BY <3>1, <3>2, Zenon DEF ServerInv
  <2> QED BY <1>clients, <2>1, <2>2, Zenon
<1>signal. ASSUME NEW thread \in {"main", "console"}, on_server_signal(thread) PROVE ServerInv'
  <2>1. Types' /\ Lifetimes' /\ Late' /\ Counts'
    BY <1>signal, <1>types DEF Types, Lifetimes, Late, Counts, InHand, on_server_signal
  <2>2. Booleans'
    BY <1>signal, <1>types, Zenon DEF Booleans, on_server_signal
  <2> QED BY <2>1, <2>2, Zenon DEF ServerInv
<1>stop. ASSUME request_stop PROVE ServerInv'
  <2>1. Types' /\ Lifetimes' /\ Late' /\ Counts'
    BY <1>stop, <1>types DEF Types, Lifetimes, Late, Counts, InHand, request_stop, Ended
  <2>2. Booleans'
    BY <1>stop, <1>types, Zenon DEF Booleans, request_stop
  <2> QED BY <2>1, <2>2, Zenon DEF ServerInv
<1>idle. ASSUME UNCHANGED process_vars PROVE ServerInv'
  BY <1>idle, <1>types DEF ServerInv, Types, Booleans, Lifetimes, Late, Counts, InHand,
     process_vars
<1> QED
  BY <1>main, <1>console, <1>clients, <1>signal, <1>stop, <1>idle DEF ServerNext

(* The invariant holds in every state of every run of the process.           *)
THEOREM InvTheorem == ASSUME MaxTyped \in Nat PROVE ServerSpec => []ServerInv
<1>1. ServerInit => ServerInv
  BY InitInv
<1>2. ServerInv /\ [ServerNext]_process_vars => ServerInv'
  BY StepInv
<1> QED
  BY <1>1, <1>2, PTL DEF ServerSpec

(* Types, and g_server never points to a server that is not there: main()    *)
(* clears it before the server is destroyed, in every order of signals.      *)
THEOREM ServerTypeTheorem == ASSUME MaxTyped \in Nat PROVE ServerSpec => []ServerTypeOK
<1>1. ServerInv => ServerTypeOK
  BY DEF ServerInv, Types, Lifetimes, Counts, InHand, ServerTypeOK, Consoles
<1> QED
  BY <1>1, InvTheorem, PTL

(* A server that has got to the loop of run() and is being stopped does not  *)
(* end in std::terminate() -- poll() errors end the loop and main() detaches *)
(* the console thread -- unless run() has come to a ban list too long for    *)
(* encode_banned_ids().                                                      *)
THEOREM StopOrderlyTheorem == ASSUME MaxTyped \in Nat PROVE ServerSpec => []StopOrderly
<1>1. ServerInv => StopOrderly
  BY DEF ServerInv, Lifetimes, StopOrderly
<1> QED
  BY <1>1, InvTheorem, PTL

(* admin_input_loop() gives no line to the server that was typed after it    *)
(* had gone.                                                                 *)
THEOREM LateLinesTheorem == ASSUME MaxTyped \in Nat PROVE ServerSpec => []LateLinesDropped
<1>1. ServerInv => LateLinesDropped
  BY DEF ServerInv, Late, LateLinesDropped
<1> QED
  BY <1>1, InvTheorem, PTL
===============================================================================
