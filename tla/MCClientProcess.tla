---------------------------- MODULE MCClientProcess ----------------------------
(* The life of a client and the life of its key store for TLC: ClientProcess *)
(* follows one process, KeyStore the sessions that share a file.  They share *)
(* no state, so that one of them moves and the other stays where it is.      *)
(*                                                                           *)
(* The configuration files' progress overshoots, or is never reported.  With *)
(* bytes that count to 2, a list holds three peers and no more.              *)
EXTENDS ClientProcess, KeyStore

VARIABLE moving

TwoFiles == {[ends |-> <<1, 3>>, newline |-> FALSE], [ends |-> <<>>, newline |-> TRUE]}

mcvars == <<moving, allvars, storage>>

ProcessStep(A) == moving = "process" /\ A /\ UNCHANGED <<moving, storage>>

StoreStep(A) == moving = "store" /\ A /\ UNCHANGED <<moving, allvars>>

MCInit == ProcessInit /\ StoreInit /\ moving \in {"process", "store"}

MCNext ==
  \/ ProcessStep(ProcessNext)
  \/ StoreStep(StoreNext)
  \/ StoreStep(session = "off" /\ sessions = MaxSessions /\ UNCHANGED storage)

(* The fairness of ProcessSpec.                                              *)
MCSpec ==
  /\ MCInit /\ [][MCNext]_mcvars
  /\ WF_mcvars(ProcessStep(main_thread)) /\ WF_mcvars(ProcessStep(receiver_thread))
===============================================================================
