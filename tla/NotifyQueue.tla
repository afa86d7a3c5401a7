---------------------------- MODULE NotifyQueue ----------------------------
(***************************************************************************)
(* Notifications (internal/notify): Notify turns an event into one         *)
(* notification_deliveries row per matching subscription; the sweeper of   *)
(* cmd/server/notify_sweeper.go sends due rows through the channel of      *)
(* their subscription and marks them; TestSubscription inserts a row and   *)
(* sends it itself.  Every statement is a step: rows are fetched, sent and *)
(* marked at different times, by id, with no condition on their status.    *)
(***************************************************************************)
EXTENDS Naturals, FiniteSets

CONSTANTS
  Event,              \* things Notify is called for
  TestEvent,          \* the synthetic event of TestSubscription
  MaxNotifyFaults,    \* bound on crashes, failing statements, lost answers
  Sub,                \* notification_subscriptions
  NotifyMaxAttempts   \* domain.MaxAttempts

ASSUME TestEventAssumption == TestEvent \notin Event
ASSUME NotifyAssumption == NotifyMaxAttempts \in Nat \ {0} /\ MaxNotifyFaults \in Nat

VARIABLES
  sub,       \* sub[s]: "on" (enabled), "off" (disabled) or "deleted"
  delivery,  \* delivery[d]: the row, NoRow before its INSERT
  sweeper,   \* the goroutine of startNotifySweeper
  tester,    \* the goroutine of TestSubscription
  sends,     \* sends[d]: how often the channel accepted d, up to SendCap
  notified,  \* events Notify was called for
  posts,     \* rows its callers still have to insert
  nqFaults

nqVars == <<sub, delivery, sweeper, tester, sends, notified, posts, nqFaults>>

Delivery == (Event \cup {TestEvent}) \X Sub
NotifyOpen == {"pending", "failed"}
DeliveryStatus == NotifyOpen \cup {"sent", "dead"}
DeliveryRow ==
  [status: DeliveryStatus \cup {"none"}, attempts: 0..(NotifyMaxAttempts + 1), due: BOOLEAN]
NoRow == [status |-> "none", attempts |-> 0, due |-> FALSE]
NewRow == [status |-> "pending", attempts |-> 0, due |-> TRUE]

SweeperPC == {"idle", "lookup", "send", "sent", "failed", "dead"}
\* todo: the deliveries of FetchDue not yet dispatched; cur, tries: the one in
\* hand and its attempts when it was fetched.
SweeperIdle == [pc |-> "idle", todo |-> {}, cur |-> {}, tries |-> 0]
TesterPC == {"idle", "send", "sent", "dead"}
TesterIdle == [pc |-> "idle", cur |-> {}]
SendCap == 3

NqInit ==
  /\ sub = [s \in Sub |-> "on"]
  /\ delivery = [d \in Delivery |-> NoRow]
  /\ sweeper = SweeperIdle
  /\ tester = TesterIdle
  /\ sends = [d \in Delivery |-> 0]
  /\ notified = {} /\ posts = {} /\ nqFaults = 0

NqFault == nqFaults < MaxNotifyFaults /\ nqFaults' = nqFaults + 1
Quiet == UNCHANGED <<notified, posts, nqFaults>>
FaultQuiet == NqFault /\ UNCHANGED <<notified, posts>>

(* ---- subscriptions ---- *)
UpdateSubscription(s) ==
  /\ sub[s] # "deleted"
  /\ sub' = [sub EXCEPT ![s] = IF @ = "on" THEN "off" ELSE "on"]
  /\ Quiet /\ UNCHANGED <<delivery, sweeper, tester, sends>>

DeleteSubscription(s) ==
  /\ sub[s] # "deleted"
  /\ sub' = [sub EXCEPT ![s] = "deleted"]
  /\ Quiet /\ UNCHANGED <<delivery, sweeper, tester, sends>>

(* ---- Notify ---- *)
\* ListMatching: the subscriptions a row is inserted for.
Matching == {s \in Sub : sub[s] = "on"}
Notify(e) ==
  /\ e \notin notified
  /\ notified' = notified \cup {e}
  /\ posts' = posts \cup ({e} \X Matching)
  /\ UNCHANGED <<sub, delivery, sweeper, tester, sends, nqFaults>>

InsertDelivery(d) == delivery' = [delivery EXCEPT ![d] = NewRow]
\* deliveries.Insert, one subscription after the other
Post(d) ==
  /\ d \in posts
  /\ InsertDelivery(d) /\ posts' = posts \ {d}
  /\ UNCHANGED <<sub, sweeper, tester, sends, notified, nqFaults>>

\* Its failure is logged and the next subscription follows.
PostLost(d) ==
  /\ d \in posts
  /\ posts' = posts \ {d}
  /\ NqFault /\ UNCHANGED <<sub, delivery, sweeper, tester, sends, notified>>

(* ---- the sweeper ---- *)
DueAnyStatus(d) == delivery[d].status # "none" /\ delivery[d].due
Due(d) == delivery[d].status \in NotifyOpen /\ delivery[d].due

\* FetchDue: WHERE status IN ('pending','failed') AND scheduled_at <= now
FetchDue ==
  /\ sweeper.pc = "idle" /\ \E d \in Delivery : Due(d)
  /\ sweeper' = [SweeperIdle EXCEPT !.pc = "lookup",
                   !.todo = {[id |-> d, tries |-> delivery[d].attempts] :
                             d \in {x \in Delivery : Due(x)}}]
  /\ Quiet /\ UNCHANGED <<sub, delivery, tester, sends>>

\* dispatch: the subscription is read; without one there is nowhere to send.
\* GetByID also finds disabled subscriptions.
Lookup ==
  /\ sweeper.pc = "lookup"
  /\ \E r \in sweeper.todo :
       sweeper' = [pc |-> IF sub[r.id[2]] = "deleted" THEN "dead" ELSE "send",
                   todo |-> sweeper.todo \ {r}, cur |-> {r.id}, tries |-> r.tries]
  /\ Quiet /\ UNCHANGED <<sub, delivery, tester, sends>>

\* Any error of GetByID counts as a deleted subscription, a failing query too.
LookupFails ==
  /\ sweeper.pc = "lookup"
  /\ \E r \in sweeper.todo :
       sweeper' = [pc |-> "dead", todo |-> sweeper.todo \ {r}, cur |-> {r.id}, tries |-> r.tries]
  /\ FaultQuiet /\ UNCHANGED <<sub, delivery, tester, sends>>

Accept(d) == sends' = [sends EXCEPT ![d] = IF @ = SendCap THEN @ ELSE @ + 1]

\* NextScheduledAt: no further attempt once MaxAttempts is reached
GivesUpDeliveryLate(tries) == tries >= NotifyMaxAttempts
GivesUpDelivery(tries) == tries + 1 >= NotifyMaxAttempts

\* adapter.Send succeeds, or returns an error
Send ==
  /\ sweeper.pc = "send"
  /\ \E d \in sweeper.cur :
       \/ Accept(d) /\ sweeper' = [sweeper EXCEPT !.pc = "sent"]
       \/ /\ sweeper' = [sweeper EXCEPT !.pc =
                           IF GivesUpDelivery(sweeper.tries) THEN "dead" ELSE "failed"]
          /\ UNCHANGED sends
  /\ Quiet /\ UNCHANGED <<sub, delivery, tester>>

\* The channel accepted the message, its answer was lost or came too late.
SendUnanswered ==
  /\ sweeper.pc = "send"
  /\ \E d \in sweeper.cur : Accept(d)
  /\ sweeper' = [sweeper EXCEPT !.pc =
                   IF GivesUpDelivery(sweeper.tries) THEN "dead" ELSE "failed"]
  /\ FaultQuiet /\ UNCHANGED <<sub, delivery, tester>>

\* MarkSent and MarkFailed: by id alone
Marked(row, outcome) ==
  [row EXCEPT !.status = outcome, !.due = IF outcome = "failed" THEN FALSE ELSE @,
              !.attempts = IF @ > NotifyMaxAttempts THEN @ ELSE @ + 1]

NextDue ==
  sweeper' = IF sweeper.todo = {} THEN SweeperIdle
             ELSE [sweeper EXCEPT !.pc = "lookup", !.cur = {}, !.tries = 0]

MarkDelivery ==
  /\ sweeper.pc \in {"sent", "failed", "dead"}
  /\ \E d \in sweeper.cur : delivery' = [delivery EXCEPT ![d] = Marked(delivery[d], sweeper.pc)]
  /\ NextDue
  /\ Quiet /\ UNCHANGED <<sub, tester, sends>>

\* The statement fails; the error is dropped and the batch goes on.
MarkDeliveryLost ==
  /\ sweeper.pc \in {"sent", "failed", "dead"}
  /\ NextDue
  /\ FaultQuiet /\ UNCHANGED <<sub, delivery, tester, sends>>

\* scheduled_at passes
ScheduleElapses(d) ==
  /\ delivery[d].status \in NotifyOpen /\ ~delivery[d].due
  /\ delivery' = [delivery EXCEPT ![d].due = TRUE]
  /\ Quiet /\ UNCHANGED <<sub, sweeper, tester, sends>>

SweeperStep == FetchDue \/ Lookup \/ Send \/ MarkDelivery

(* ---- TestSubscription: insert, send, mark, all in one call ---- *)
TestInsert(s) ==
  /\ tester.pc = "idle" /\ sub[s] # "deleted"
  /\ delivery[<<TestEvent, s>>] = NoRow
  /\ InsertDelivery(<<TestEvent, s>>)
  /\ tester' = [pc |-> "send", cur |-> {<<TestEvent, s>>}]
  /\ Quiet /\ UNCHANGED <<sub, sweeper, sends>>

TestSend ==
  /\ tester.pc = "send"
  /\ \E d \in tester.cur :
       \/ Accept(d) /\ tester' = [tester EXCEPT !.pc = "sent"]
       \/ tester' = [tester EXCEPT !.pc = "dead"] /\ UNCHANGED sends
  /\ Quiet /\ UNCHANGED <<sub, delivery, sweeper>>

TestMark ==
  /\ tester.pc \in {"sent", "dead"}
  /\ \E d \in tester.cur : delivery' = [delivery EXCEPT ![d] = Marked(delivery[d], tester.pc)]
  /\ tester' = TesterIdle
  /\ Quiet /\ UNCHANGED <<sub, sweeper, sends>>

\* The caller hangs up: Send and both marks use its context.
TestStops ==
  /\ tester.pc # "idle"
  /\ tester' = TesterIdle
  /\ FaultQuiet /\ UNCHANGED <<sub, delivery, sweeper, sends>>

\* The server process dies.
NotifierDies ==
  /\ sweeper' = SweeperIdle /\ tester' = TesterIdle /\ posts' = {}
  /\ <<sweeper, tester, posts>>' # <<sweeper, tester, posts>>
  /\ NqFault /\ UNCHANGED <<sub, delivery, sends, notified>>

NqNext ==
  \/ \E s \in Sub : UpdateSubscription(s) \/ DeleteSubscription(s) \/ TestInsert(s)
  \/ \E e \in Event : Notify(e)
  \/ \E d \in Delivery : Post(d) \/ PostLost(d) \/ ScheduleElapses(d)
  \/ SweeperStep
  \/ MarkDeliveryLost \/ LookupFails \/ SendUnanswered
  \/ TestSend \/ TestMark \/ TestStops
  \/ NotifierDies

NqSpec == NqInit /\ [][NqNext]_nqVars

(***************************************************************************)
(* startNotifySweeper polls for as long as the server runs, and            *)
(* scheduled_at passes.  The channel may refuse every message.             *)
(***************************************************************************)
NqFairness == WF_nqVars(SweeperStep) /\ \A d \in Delivery : WF_nqVars(ScheduleElapses(d))
NqFairSpec == NqSpec /\ NqFairness

(* ---- properties ---- *)

\* Type correctness of the tables and of the goroutines' locals.
NqTypeOK ==
  /\ sub \in [Sub -> {"on", "off", "deleted"}]
  /\ delivery \in [Delivery -> DeliveryRow]
  /\ sweeper.pc \in SweeperPC /\ sweeper.cur \subseteq Delivery
  /\ Cardinality(sweeper.cur) <= 1
  /\ \A r \in sweeper.todo :
       delivery[r.id].status # "none" /\ r.tries \in 0..(NotifyMaxAttempts + 1)
  /\ tester.pc \in TesterPC /\ tester.cur \subseteq Delivery
  /\ sends \in [Delivery -> 0..SendCap]
  /\ notified \subseteq Event /\ posts \subseteq Event \X Sub /\ nqFaults \in 0..MaxNotifyFaults

\* notification_deliveries is a retry queue as well; the rows TestSubscription
\* inserts are left out: its caller settles them, and the sweeper may as well.
Queued == Event \X Sub
DeliveryJob(d) ==
  LET status == delivery[d].status IN
  IF status = "none" THEN "absent"
  ELSE IF status \in NotifyOpen THEN "queued"
  ELSE IF status = "sent" THEN "done" ELSE "dropped"
Accepted == {d \in Queued : sends[d] > 0}
DeliveryQueue ==
  INSTANCE RetryQueue WITH Job <- Queued,
    queue <- [d \in Queued |-> DeliveryJob(d)], effect <- Accepted

\* Every step of the sweeper, of TestSubscription and of a crash is one of that
\* queue, and a delivery is sent or given up in the end.
DeliveryRefines == DeliveryQueue!RQSpec /\ DeliveryQueue!Settles

\* Only a fault makes the channel get a notification twice: a lost mark, a
\* lost answer, a crash between Send and MarkSent.
SentOncePerFault == \A d \in Queued : sends[d] <= 1 + nqFaults

\* A delivery goes dead after its last attempt, or for want of a subscription;
\* as long as it is open it has an attempt left.
DeadAfterLastAttempt ==
  \A d \in Queued :
    /\ delivery[d].status = "dead" /\ sub[d[2]] # "deleted" /\ nqFaults = 0
         => delivery[d].attempts = NotifyMaxAttempts
    /\ delivery[d].status \in NotifyOpen => delivery[d].attempts < NotifyMaxAttempts

\* What the two above say of one delivery: it is sent once unless something
\* fails, and it is given up at its last attempt and not before.
AttemptsAccounted == SentOncePerFault /\ DeadAfterLastAttempt
=============================================================================
