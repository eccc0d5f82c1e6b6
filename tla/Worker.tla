-------------------------------- MODULE Worker --------------------------------
(* What the queues with a thread of their own promise (QueuedCommandExecutor *)
(* and FileLogger): a job that is accepted is done, exactly once, in the     *)
(* order of acceptance, even when the queue is closed in the meantime; and a *)
(* queue is not opened again before everything accepted has been done.       *)
(*                                                                           *)
(* A job is the number it has in the order of acceptance.                    *)
EXTENDS Naturals, Sequences

VARIABLES
  accepted,   \* how many jobs have been accepted
  done,       \* the jobs done, in order
  open        \* jobs are being accepted

Accept == open /\ accepted' = accepted + 1 /\ UNCHANGED <<done, open>>

Perform ==
  /\ Len(done) < accepted
  /\ done' = Append(done, Len(done) + 1)
  /\ UNCHANGED <<accepted, open>>

Close == open' = FALSE /\ UNCHANGED <<accepted, done>>

Reopen == Len(done) = accepted /\ open' = TRUE /\ UNCHANGED <<accepted, done>>

Init == accepted = 0 /\ done = <<>> /\ open \in BOOLEAN

Next == Accept \/ Perform \/ Close \/ Reopen

Safe == Init /\ [][Next]_<<accepted, done, open>>

Spec == Safe /\ WF_<<accepted, done, open>>(Perform)
===============================================================================
