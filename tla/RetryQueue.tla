----------------------------- MODULE RetryQueue -----------------------------
(***************************************************************************)
(* What a table of retried work promises, whatever stands in it: a job     *)
(* that was put into the table is settled once, as done only after its     *)
(* effect took place, and it does not stay open for ever.  The effect may  *)
(* take place more than once, and before as well as after the job is       *)
(* settled: delivery is at least once, unless the job is dropped.          *)
(* Outbox (outbox_events) and NotifyQueue (notification_deliveries)        *)
(* implement it.                                                           *)
(***************************************************************************)
CONSTANT Job

VARIABLES
  queue,   \* queue[j]: where job j stands
  effect   \* jobs whose effect took place at least once

rqVars == <<queue, effect>>

Open(j) == queue[j] = "queued"

RQInit == queue = [j \in Job |-> "absent"] /\ effect = {}

Enqueue(j) ==
  /\ queue[j] = "absent"
  /\ queue' = [queue EXCEPT ![j] = "queued"]
  /\ UNCHANGED effect

\* Several effects may be seen in one step: one bulk request, one statement.
Effects ==
  /\ \E J \in SUBSET {j \in Job : queue[j] # "absent"} : effect' = effect \cup J
  /\ UNCHANGED queue

Done(j) ==
  /\ Open(j) /\ j \in effect
  /\ queue' = [queue EXCEPT ![j] = "done"]
  /\ UNCHANGED effect

Drop(j) ==
  /\ Open(j)
  /\ queue' = [queue EXCEPT ![j] = "dropped"]
  /\ UNCHANGED effect

RQNext == Effects \/ \E j \in Job : Enqueue(j) \/ Done(j) \/ Drop(j)

RQSpec == RQInit /\ [][RQNext]_rqVars

\* A queued job is settled in the end.
Settles == \A j \in Job : Open(j) ~> ~Open(j)
=============================================================================
