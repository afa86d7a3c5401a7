--------------------------- MODULE ResultPipeline ---------------------------
(***************************************************************************)
(* What happens to the results of a scan once an agent reports them:       *)
(* ReportResults (internal/scan/service.go) commits the rows and their     *)
(* outbox event, then, with nothing that would repeat them, notifies the   *)
(* subscribers of high-severity results and records the finding, derives   *)
(* assets and their events, and writes the search index; the relay of      *)
(* Outbox writes the index again.  Outbox and AssetEvents meet here: a     *)
(* goroutine of ReportResults moves between them, and the server may die   *)
(* at any step.  The composition ends at the INSERT of the notifications:  *)
(* NotifyQueue takes the rows from there, by id, whatever they are about.  *)
(***************************************************************************)
EXTENDS Outbox, AssetEvents

CONSTANTS
  HighBatch,    \* the batches with a nuclei result of severity high/critical
  AssetOf,      \* AssetOf[b]: the assets derived from batch b
  MaxPipelineFaults

ASSUME PipelineAssumption ==
  /\ HighBatch \subseteq Batch
  /\ AssetOf \in [Batch -> SUBSET Asset]
  /\ MaxPipelineFaults \in Nat

VARIABLES
  rep,            \* rep[b]: the goroutine of the ReportResults call of batch b
  alerted,        \* batches whose high-severity notification was inserted
  pipelineFaults

plVars == <<obVars, aeVars, rep, alerted, pipelineFaults>>

(***************************************************************************)
(* pc: the next statement.  "high" OnHighSeverityResult, "assets" Upsert-  *)
(* BulkReturning, "events" events.InsertBulk, "index" indexer.Index        *)
(***************************************************************************)
RepPC == {"idle", "high", "assets", "events", "index"}
RepIdle == [pc |-> "idle", fresh |-> {}]

PlInit ==
  /\ ObInit /\ AeInit
  /\ rep = [b \in Batch |-> RepIdle]
  /\ alerted = {}
  /\ pipelineFaults = 0

At(b, pc) == rep[b].pc = pc
Fault == pipelineFaults < MaxPipelineFaults /\ pipelineFaults' = pipelineFaults + 1
NoFault == UNCHANGED pipelineFaults
Goto(b, pc) == rep' = [rep EXCEPT ![b].pc = pc]

\* BeginTx, InsertBulkTx, PublishTx, Commit; with an error nothing is left.
Commit(b) ==
  /\ PublishTx(b)
  /\ Goto(b, IF b \in HighBatch THEN "high" ELSE "assets")
  /\ NoFault /\ UNCHANGED <<event, relay, taken, aeVars, alerted>>

\* scanCompositeNotifier.OnHighSeverityResult: the notification and the
\* finding; their errors are logged.
NotifyHigh(b) ==
  /\ At(b, "high")
  /\ \/ alerted' = alerted \cup {b} /\ NoFault
     \/ UNCHANGED alerted /\ Fault
  /\ Goto(b, "assets")
  /\ UNCHANGED <<obVars, aeVars>>

\* UpsertFromResults, only after the notifier returned
DeriveAssets(b) ==
  /\ At(b, "assets")
  /\ UpsertAssets(AssetOf[b])
  /\ LET new == IsNew(AssetOf[b]) IN
     rep' = [rep EXCEPT ![b] = [pc |-> IF new = {} THEN "index" ELSE "events", fresh |-> new]]
  /\ NoFault /\ UNCHANGED <<obVars, assetEvents, gone, vanished, alerted>>

\* events.InsertBulk; OnAssetEvents is called with what was inserted.
NewAssetEvents(b) ==
  /\ At(b, "events")
  /\ InsertAssetEvents("new", rep[b].fresh)
  /\ rep' = [rep EXCEPT ![b] = [pc |-> "index", fresh |-> {}]]
  /\ NoFault /\ UNCHANGED <<obVars, asset, stale, gone, vanished, alerted>>

\* A failing statement of UpsertFromResults is logged: on to the index.
AssetsLost(b) ==
  /\ At(b, "assets") \/ At(b, "events")
  /\ rep' = [rep EXCEPT ![b] = [pc |-> "index", fresh |-> {}]]
  /\ Fault /\ UNCHANGED <<obVars, aeVars, alerted>>

\* indexer.Index of ReportResults itself; its error is logged
IndexNow(b) ==
  /\ At(b, "index")
  /\ IndexOK(b) \/ IndexError(b)
  /\ rep' = [rep EXCEPT ![b] = RepIdle]
  /\ NoFault /\ UNCHANGED <<order, event, relay, aeVars, alerted>>

\* The server process dies: every goroutine is gone, the tables stay.
ServerDies ==
  /\ rep' = [b \in Batch |-> RepIdle]
  /\ relay' = RelayIdle
  /\ gone' = {}
  /\ <<rep, relay, gone>>' # <<rep, relay, gone>>
  /\ Fault
  /\ UNCHANGED <<order, event, taken, asset, stale, assetEvents, vanished,
                 alerted>>

(* ---- next-state relation ---- *)
ReportStep(b) ==
  Commit(b) \/ NotifyHigh(b) \/ DeriveAssets(b) \/ NewAssetEvents(b) \/ AssetsLost(b) \/ IndexNow(b)

RestOfOutbox == UNCHANGED <<aeVars, rep, alerted>>
OutboxStep == RelayStep /\ NoFault /\ RestOfOutbox
EventDue(b) == BackoffElapses(b) /\ NoFault /\ RestOfOutbox
RestOfAssets == UNCHANGED <<obVars, rep, alerted>>

PlNext ==
  \/ \E b \in Batch : ReportStep(b)
  \/ OutboxStep
  \/ \E b \in Batch : EventDue(b)
  \/ MarkLost /\ Fault /\ RestOfOutbox
  \/ \E a \in Asset : Ages(a) /\ NoFault /\ RestOfAssets
  \/ MarkDisappeared /\ NoFault /\ RestOfAssets
  \/ DisappearedLost /\ Fault /\ RestOfAssets
  \/ TellDisappeared /\ NoFault /\ RestOfAssets
  \/ ServerDies

PlSpec == PlInit /\ [][PlNext]_plVars

(***************************************************************************)
(* Relay.Run polls for as long as the server runs (and is started again    *)
(* with it), and next_attempt_at passes.  Nothing is assumed of reports,   *)
(* nor of the index, which may refuse each request.                        *)
(***************************************************************************)
PlFairness == WF_plVars(OutboxStep) /\ \A b \in Batch : WF_plVars(EventDue(b))
PlFairSpec == PlSpec /\ PlFairness

(* ---- properties ---- *)

\* Type correctness of the tables and of every goroutine's locals.
PlTypeOK ==
  /\ ObTypeOK /\ AeTypeOK
  /\ pipelineFaults \in 0..MaxPipelineFaults
  /\ rep \in [Batch -> [pc: RepPC, fresh: SUBSET Asset]]
  /\ alerted \subseteq HighBatch

\* An event is given up at the attempt limit, not earlier and not later, and
\* nothing that was published is given up as well.
GivenUpAtTheLimit ==
  \A b \in Committed :
    /\ event[b].failed <=> event[b].attempts = OutboxMaxAttempts
    /\ ~(event[b].failed /\ event[b].published)

\* outbox_events is a retry queue whose jobs are batches, their effect a bulk
\* request that the search engine has carried out.
JobState(b) ==
  IF b \notin Committed THEN "absent"
  ELSE IF event[b].published THEN "done"
  ELSE IF event[b].failed THEN "dropped" ELSE "queued"
OutboxQueue ==
  INSTANCE RetryQueue WITH Job <- Batch,
    queue <- [b \in Batch |-> JobState(b)], effect <- taken

\* Every step of the relay, of a report, and of a crash is one of the queue,
\* and a committed event is published or given up in the end.
OutboxRefines == OutboxQueue!RQSpec /\ OutboxQueue!Settles

\* However many reports derive an asset at once, one asset_new event tells of
\* it, and it is not new again after it had disappeared.
NewAssetToldOnce == \A a \in Asset : assetEvents["new"][a] <= 1

\* One asset_disappeared event per disappearance, and without faults none is
\* missing once its sweep is over.
DisappearanceTold ==
  \A a \in Asset :
    /\ assetEvents["disappeared"][a] <= vanished[a]
    /\ pipelineFaults = 0 /\ a \notin gone => assetEvents["disappeared"][a] = vanished[a]

\* Without faults nothing a finished report owed is missing: its subscribers
\* are alerted and its new assets have their event.  (A crash after the commit
\* loses both for good: nothing repeats them.)
NothingOwed ==
  pipelineFaults = 0 =>
    \A b \in Committed : At(b, "idle") =>
      /\ b \in HighBatch => b \in alerted
      /\ \A a \in AssetOf[b] :
           assetEvents["new"][a] > 0 \/ \E c \in Batch : a \in rep[c].fresh
=============================================================================
