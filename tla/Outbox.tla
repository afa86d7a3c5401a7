------------------------------- MODULE Outbox -------------------------------
(***************************************************************************)
(* The transactional outbox (internal/platform/eventbus): ReportResults    *)
(* inserts the rows of a batch and its ResultBatchInsertedEvent in one     *)
(* transaction; the Relay reads due events, dispatches each one to the     *)
(* handlers of its topic (the search indexer, scan_wire.go) and marks the  *)
(* row.  Pending, the dispatch and the mark are separate statements, so    *)
(* the relay may die or the database fail between any two of them.         *)
(*                                                                         *)
(* One Relay: the comment of Pending assumes a single instance.            *)
(***************************************************************************)
EXTENDS Naturals, Sequences

CONSTANTS
  Batch,              \* calls of ReportResults that insert rows: event ids
  OutboxMaxAttempts,  \* RelayConfig.MaxAttempts
  OutboxBatchSize     \* RelayConfig.BatchSize

\* withRelayDefaults replaces a limit <= 0.
ASSUME OutboxAssumption ==
  OutboxMaxAttempts \in Nat \ {0} /\ OutboxBatchSize \in Nat \ {0}

VARIABLES
  order,    \* committed events by created_at
  event,    \* event[b]: the row of outbox_events, once b is in order
  relay,    \* the goroutine of Relay.Run
  taken     \* batches whose bulk request the search engine has carried out

obVars == <<order, event, relay, taken>>

Committed == {order[i] : i \in 1..Len(order)}

EventRow ==
  [published: BOOLEAN, failed: BOOLEAN, attempts: 0..OutboxMaxAttempts, due: BOOLEAN]
NewEvent == [published |-> FALSE, failed |-> FALSE, attempts |-> 0, due |-> TRUE]

\* todo: the records of Pending not yet processed, the first one in hand.
RelayPC == {"idle", "dispatch", "published", "failed"}
RelayIdle == [pc |-> "idle", todo |-> <<>>]

ObInit ==
  /\ order = <<>>
  /\ event = [b \in Batch |-> NewEvent]
  /\ relay = RelayIdle
  /\ taken = {}

(***************************************************************************)
(* Indexer.Index: one bulk request.  An answer without IsError is success: *)
(* that the request was carried out, not that the index took every         *)
(* document of it, for errors[] in the body is not read.  An error leaves  *)
(* open whether the request was carried out.                               *)
(***************************************************************************)
IndexOK(b) == taken' = taken \cup {b}
IndexError(b) == \E B \in {{}, {b}} : taken' = taken \cup B

\* PublishTx within the transaction that inserts the rows, at its commit.
PublishTx(b) ==
  /\ b \notin Committed
  /\ order' = Append(order, b)

\* SELECT ... published_at IS NULL AND failed_permanently_at IS NULL AND due
WaitingUnpublished(b) == ~event[b].published /\ event[b].due
Waiting(b) == ~event[b].published /\ ~event[b].failed /\ event[b].due
DuePos == {i \in 1..Len(order) : Waiting(order[i])}
\* ORDER BY created_at LIMIT BatchSize: the one answer, by positions in order
Pending ==
  {p \in UNION {[1..n -> DuePos] : n \in 1..OutboxBatchSize} :
     /\ \A j, k \in 1..Len(p) : j < k => p[j] < p[k]
     /\ \A i \in DuePos \ {p[k] : k \in 1..Len(p)} :
          Len(p) = OutboxBatchSize /\ i > p[Len(p)]}

\* processBatch begins: nothing to do unless an event is due.
RelayPoll ==
  /\ relay.pc = "idle"
  /\ \E p \in Pending :
       relay' = [pc |-> "dispatch",
                 todo |-> [k \in 1..Len(p) |->
                            [id |-> order[p[k]], attempts |-> event[order[p[k]]].attempts]]]
  /\ UNCHANGED <<order, event, taken>>

Rec == Head(relay.todo)
NextRecord ==
  relay' = IF Len(relay.todo) = 1 THEN RelayIdle
           ELSE [pc |-> "dispatch", todo |-> Tail(relay.todo)]

\* Registry.Dispatch: every handler of the topic runs, the first error counts.
RelayDispatch ==
  /\ relay.pc = "dispatch"
  /\ \/ IndexOK(Rec.id) /\ relay' = [relay EXCEPT !.pc = "published"]
     \/ IndexError(Rec.id) /\ relay' = [relay EXCEPT !.pc = "failed"]
  /\ UNCHANGED <<order, event>>

\* UPDATE ... SET published_at WHERE published_at IS NULL
MarkPublished ==
  /\ relay.pc = "published"
  /\ event' = [event EXCEPT ![Rec.id].published = TRUE]
  /\ NextRecord
  /\ UNCHANGED <<order, taken>>

\* The limit is compared with the attempts read by Pending, plus this one.
GivesUpLate(rec) == rec.attempts >= OutboxMaxAttempts
GivesUp(rec) == rec.attempts + 1 >= OutboxMaxAttempts

AfterFailure(row, permanent) ==
  IF permanent THEN [row EXCEPT !.attempts = @ + 1, !.failed = TRUE]
  ELSE [row EXCEPT !.attempts = @ + 1, !.due = FALSE]
\* UPDATE ... SET attempts = attempts + 1, by id alone
MarkFailed ==
  /\ relay.pc = "failed"
  /\ event' = [event EXCEPT ![Rec.id] = AfterFailure(event[Rec.id], GivesUp(Rec))]
  /\ NextRecord
  /\ UNCHANGED <<order, taken>>

\* The statement fails: logged, the loop goes on to the next record.
MarkLost ==
  /\ relay.pc \in {"published", "failed"}
  /\ NextRecord
  /\ UNCHANGED <<order, event, taken>>

\* next_attempt_at passes (computeBackoff is bounded by MaxBackoff and jitter)
BackoffElapses(b) ==
  /\ b \in Committed /\ ~event[b].due
  /\ event' = [event EXCEPT ![b].due = TRUE]
  /\ UNCHANGED <<order, relay, taken>>

RelayStep == RelayPoll \/ RelayDispatch \/ MarkPublished \/ MarkFailed

ObTypeOK ==
  /\ order \in Seq(Batch)
  /\ event \in [Batch -> EventRow]
  /\ relay.pc \in RelayPC
  /\ \A i \in 1..Len(relay.todo) : relay.todo[i].id \in Committed
  /\ taken \subseteq Batch
=============================================================================
