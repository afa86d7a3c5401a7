----------------------------- MODULE MCDelivery -----------------------------
(* The two retried tables side by side: a behaviour is one of ResultPipeline *)
(* or one of NotifyQueue, chosen by scene.  They share no variable, so the   *)
(* two are explored one after the other instead of interleaved.              *)
EXTENDS ResultPipeline, NotifyQueue

CONSTANT a1
OneAsset == [b \in Batch |-> {a1}]

VARIABLE scene
vars == <<scene, plVars, nqVars>>

InPipeline(A) == scene = "pipeline" /\ A /\ UNCHANGED <<scene, nqVars>>
InNotify(A) == scene = "notify" /\ A /\ UNCHANGED <<scene, plVars>>

Init == scene \in {"pipeline", "notify"} /\ PlInit /\ NqInit
Next == InPipeline(PlNext) \/ InNotify(NqNext)

(* PlFairness and NqFairness, in the scene they belong to *)
Fairness ==
  /\ WF_vars(InPipeline(OutboxStep))
  /\ \A b \in Batch : WF_vars(InPipeline(EventDue(b)))
  /\ WF_vars(InNotify(SweeperStep))
  /\ \A d \in Delivery : WF_vars(InNotify(ScheduleElapses(d)))

Spec == Init /\ [][Next]_vars /\ Fairness

\* Type correctness of both.
DeliveryTypeOK == PlTypeOK /\ NqTypeOK

\* Both tables count their attempts: work is given up at the limit and not
\* before it, whichever marks are lost (eventbus/relay.go, notify/service.go),
\* and a notification is sent again only for a fault.
RetriesAccounted == GivenUpAtTheLimit /\ AttemptsAccounted
=============================================================================
