----------------------------- MODULE WorkQueue -----------------------------
(***************************************************************************)
(* What the scan-task core promises of one assignment, without tasks, SQL  *)
(* or goroutines: an at-most-once work queue.  A piece of work is offered  *)
(* once, claimed by its node, started at most once, and settled once; work *)
(* that was claimed is never put back in the queue, so work whose executor *)
(* was lost is settled (as failed) without having been executed.           *)
(*                                                                         *)
(* ScanTasks implements this module (ScanTasks!QueueSpec): pieces of work  *)
(* are rows of scan_task_assignments, domain/assignment.go.                *)
(***************************************************************************)
CONSTANT Work

VARIABLES
  phase,    \* phase[x]: where x is in its life
  started   \* the pieces of work an executor was started for

queueVars == <<phase, started>>

Phase == {"none", "queued", "claimed", "settled"}

QueueTypeOK == phase \in [Work -> Phase] /\ started \in SUBSET Work

QueueInit == phase = [x \in Work |-> "none"] /\ started = {}

\* Every piece of S moves from one phase to another, the rest stays.
Move(S, from, to) ==
  /\ S \subseteq {x \in Work : phase[x] = from}
  /\ phase' = [x \in Work |-> IF x \in S THEN to ELSE phase[x]]
  /\ UNCHANGED started

Offer(S) == Move(S, "none", "queued")

Claim(S) == Move(S, "queued", "claimed")

Settle(x) == Move({x}, "claimed", "settled")

\* Executors start for claimed work, each the first; one may start after its
\* work was given up and settled.
Start(S) ==
  /\ S \subseteq {x \in Work \ started : phase[x] \in {"claimed", "settled"}}
  /\ started' = started \cup S
  /\ UNCHANGED phase

QueueNext ==
  \/ \E S \in SUBSET Work : Offer(S) \/ Claim(S) \/ Start(S)
  \/ \E x \in Work : Settle(x)

QueueSpec == QueueInit /\ [][QueueNext]_queueVars
=============================================================================
