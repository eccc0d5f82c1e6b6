------------------------------- MODULE MCThreads -------------------------------
(* Three small sets of threads for TLC: CommandExecutor, FileLogger and      *)
(* ServerProcess.  They share nothing, so that a behaviour of all is an      *)
(* interleaving of a behaviour of each: one of them moves, the others stay   *)
(* where they are.                                                           *)
EXTENDS CommandExecutor, FileLogger, ServerProcess

VARIABLE moving

allvars == <<moving, vars, log_vars, process_vars>>

ExecutorStep(A) == moving = "executor" /\ A /\ UNCHANGED <<moving, log_vars, process_vars>>

LoggerStep(A) == moving = "logger" /\ A /\ UNCHANGED <<moving, vars, process_vars>>

ProcessStep(A) == moving = "server" /\ A /\ UNCHANGED <<moving, vars, log_vars>>

MCInit ==
  /\ Init /\ LogInit /\ ServerInit
  /\ moving \in {"executor", "logger", "server"}

MCNext == ExecutorStep(Next) \/ LoggerStep(LogNext) \/ ProcessStep(ServerNext)

(* The fairness of the three specifications.                                 *)
MCSpec ==
  /\ MCInit /\ [][MCNext]_allvars
  /\ WF_allvars(ExecutorStep(dispatcher_loop))
  /\ WF_allvars(ExecutorStep(stop_notify)) /\ WF_allvars(ExecutorStep(join))
  /\ \A t \in Threads : WF_allvars(ExecutorStep(post_notify(t)))
  /\ WF_allvars(LoggerStep(writer_loop)) /\ WF_allvars(LoggerStep(owner_goes_on))
  /\ \A t \in Loggers : WF_allvars(LoggerStep(caller_goes_on(t)))
  /\ WF_allvars(ProcessStep(main_thread))
  /\ WF_allvars(ProcessStep(console_thread))
  /\ WF_allvars(ProcessStep(request_stop))

(* stop() of the command queue returns, and so do stop() and open() of the   *)
(* logger, whatever the others call: once running_ is cleared nothing more   *)
(* is accepted.  flush() of the logger returns if finitely many entries are  *)
(* logged (MaxEntries): no notification is lost.                             *)
CallsReturn == StopReturns /\ FlushReturns /\ LogStopReturns
===============================================================================
