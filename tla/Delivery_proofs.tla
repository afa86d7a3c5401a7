--------------------------- MODULE Delivery_proofs ---------------------------
(***************************************************************************)
(* Theorems about the notifications and about the two retried tables side  *)
(* by side, for any number of events, subscriptions, attempts and faults.  *)
(***************************************************************************)
EXTENDS MCDelivery, ResultPipeline_proofs, FiniteSetTheorems

(* ---- the inductive invariant of NotifyQueue ---- *)

Tries == 0..(NotifyMaxAttempts + 1)
Fetched == [id: Delivery, tries: Tries]
TestRows == {TestEvent} \X Sub

NqTypes ==
  /\ sub \in [Sub -> {"on", "off", "deleted"}]
  /\ delivery \in [Delivery -> DeliveryRow]
  /\ sweeper \in [pc: SweeperPC, todo: SUBSET Fetched, cur: SUBSET Delivery, tries: Tries]
  /\ tester \in [pc: TesterPC, cur: SUBSET TestRows]
  /\ sends \in [Delivery -> 0..SendCap]
  /\ notified \subseteq Event /\ posts \subseteq Event \X Sub /\ nqFaults \in 0..MaxNotifyFaults

\* A row is inserted once, after its event was notified.
PostedOnce ==
  \A d \in Queued :
    /\ d \in posts => delivery[d].status = "none" /\ d[1] \in notified
    /\ d[1] \notin notified => delivery[d].status = "none"

\* The sweeper has one delivery in hand between a lookup and a mark, and each
\* delivery of its batch once.
SweeperHolds ==
  /\ sweeper.pc = "idle" => sweeper.todo = {}
  /\ sweeper.pc \in {"idle", "lookup"} => sweeper.cur = {}
  /\ sweeper.pc \notin {"idle", "lookup"} => \E d \in Delivery : sweeper.cur = {d}
  /\ \A r \in sweeper.todo : r.id \notin sweeper.cur
  /\ \A r, q \in sweeper.todo : r.id = q.id => r = q

Inserted ==
  /\ \A r \in sweeper.todo : delivery[r.id].status # "none"
  /\ \A d \in sweeper.cur : delivery[d].status # "none"

\* Nobody but the sweeper marks a queued delivery: what FetchDue read of it
\* still holds.
StillOpen(d, tries) == delivery[d].status \in NotifyOpen /\ delivery[d].attempts = tries
ReadIsFresh ==
  /\ \A r \in sweeper.todo : r.id \in Queued => StillOpen(r.id, r.tries)
  /\ \A d \in sweeper.cur : d \in Queued => StillOpen(d, sweeper.tries)

\* The outcome the sweeper is about to write.
OutcomeDue ==
  \A d \in sweeper.cur \cap Queued :
    /\ sweeper.pc = "sent" => sends[d] > 0
    /\ sweeper.pc = "failed" => sweeper.tries + 1 < NotifyMaxAttempts
    /\ sweeper.pc = "dead" =>
         sweeper.tries + 1 = NotifyMaxAttempts \/ sub[d[2]] = "deleted" \/ nqFaults > 0

\* What the channel accepted beyond the faults is marked sent, or is about to be.
Settling(d) == delivery[d].status = "sent" \/ (sweeper.pc = "sent" /\ d \in sweeper.cur)
SendsAccounted == \A d \in Queued : sends[d] <= nqFaults + (IF Settling(d) THEN 1 ELSE 0)

NqInv ==
  /\ NqTypes /\ PostedOnce /\ SweeperHolds /\ Inserted /\ ReadIsFresh /\ OutcomeDue
  /\ SendsAccounted /\ DeadAfterLastAttempt

LEMMA DeliveryKinds ==
  /\ Queued \subseteq Delivery /\ TestRows \subseteq Delivery /\ Queued \cap TestRows = {}
  /\ \A d \in Delivery : d \in Queued \/ d \in TestRows
  BY TestEventAssumption DEF Queued, TestRows, Delivery

LEMMA NqInvInit == NqInit => NqInv
<1> SUFFICES ASSUME NqInit PROVE NqInv
  OBVIOUS
<1>1. NqTypes
  BY NotifyAssumption DEF NqInit, NqTypes, DeliveryRow, NoRow, SweeperIdle, TesterIdle,
     SweeperPC, TesterPC, SendCap, Tries, Delivery
<1>2. PostedOnce /\ SweeperHolds /\ Inserted /\ ReadIsFresh /\ OutcomeDue
  BY DeliveryKinds DEF NqInit, PostedOnce, SweeperHolds, Inserted, ReadIsFresh, OutcomeDue, SweeperIdle, NoRow
<1>3. SendsAccounted /\ DeadAfterLastAttempt
  BY DeliveryKinds DEF NqInit, SendsAccounted, Settling, DeadAfterLastAttempt, NoRow, NotifyOpen
<1> QED BY <1>1, <1>2, <1>3 DEF NqInv

LEMMA MarkedRow ==
  ASSUME NEW row \in DeliveryRow, NEW outcome \in {"sent", "failed", "dead"}
  PROVE  /\ Marked(row, outcome) \in DeliveryRow
         /\ Marked(row, outcome).status = outcome
         /\ row.attempts <= NotifyMaxAttempts => Marked(row, outcome).attempts = row.attempts + 1
<1> DEFINE tries == IF row.attempts > NotifyMaxAttempts THEN row.attempts ELSE row.attempts + 1
           wait == IF outcome = "failed" THEN FALSE ELSE row.due
<1>1. tries \in 0..(NotifyMaxAttempts + 1) /\ wait \in BOOLEAN
  <2>1. row.attempts \in 0..(NotifyMaxAttempts + 1) /\ row.due \in BOOLEAN
    BY DEF DeliveryRow
  <2>2. tries \in 0..(NotifyMaxAttempts + 1)
    BY <2>1, NotifyAssumption
  <2>3. CASE outcome = "failed"
    BY <2>2, <2>3
  <2>4. CASE outcome # "failed"
    BY <2>1, <2>2, <2>4
  <2> QED BY <2>3, <2>4
<1>2. Marked(row, outcome) = [[[row EXCEPT !.status = outcome] EXCEPT !.due = wait] EXCEPT !.attempts = tries]
  BY DEF Marked, DeliveryRow
<1>3. outcome \in DeliveryStatus
  BY DEF DeliveryStatus, NotifyOpen
<1>4. row.attempts <= NotifyMaxAttempts => tries = row.attempts + 1
  BY NotifyAssumption DEF DeliveryRow
<1> HIDE DEF tries, wait
<1> QED BY <1>1, <1>2, <1>3, <1>4 DEF DeliveryRow

LEMMA FaultsCount ==
  ASSUME NqInv, NqFault \/ UNCHANGED nqFaults
  PROVE  nqFaults' \in 0..MaxNotifyFaults /\ nqFaults' >= nqFaults
<1>1. nqFaults \in 0..MaxNotifyFaults
  BY DEF NqInv, NqTypes
<1> QED BY <1>1, NotifyAssumption DEF NqFault

LEMMA NewRowType == NewRow \in DeliveryRow /\ NewRow.status = "pending" /\ NewRow.attempts = 0
<1>1. 0 \in 0..(NotifyMaxAttempts + 1)
  BY NotifyAssumption
<1> QED BY <1>1 DEF NewRow, DeliveryRow, DeliveryStatus, NotifyOpen

(* ---- steps that leave the sweeper alone ---- *)

LEMMA SubscriptionInv ==
  ASSUME NqInv, NEW s \in Sub, UpdateSubscription(s) \/ DeleteSubscription(s)
  PROVE  NqInv'
<1>1. /\ sub' \in [Sub -> {"on", "off", "deleted"}]
      /\ \A t \in Sub : sub[t] = "deleted" => sub'[t] = "deleted"
  BY DEF NqInv, NqTypes, UpdateSubscription, DeleteSubscription
<1>2. UNCHANGED <<delivery, sweeper, tester, sends, notified, posts, nqFaults>>
  BY DEF UpdateSubscription, DeleteSubscription, Quiet
<1>3. \A d \in Queued : d[2] \in Sub
  BY DEF Queued
<1>4. NqTypes' /\ PostedOnce' /\ SweeperHolds' /\ Inserted' /\ ReadIsFresh' /\ SendsAccounted'
  BY <1>1, <1>2 DEF NqInv, NqTypes, PostedOnce, SweeperHolds, Inserted, ReadIsFresh, StillOpen,
     SendsAccounted, Settling
<1>5. OutcomeDue'
  BY <1>1, <1>2, <1>3 DEF NqInv, OutcomeDue
<1>6. DeadAfterLastAttempt'
  BY <1>1, <1>2, <1>3 DEF NqInv, DeadAfterLastAttempt
<1> QED BY <1>4, <1>5, <1>6 DEF NqInv

LEMMA NotifyInv ==
  ASSUME NqInv, NEW e \in Event, Notify(e)
  PROVE  NqInv'
<1>1. UNCHANGED <<sub, delivery, sweeper, tester, sends, nqFaults>>
  BY DEF Notify
<1>2. notified' = notified \cup {e} /\ posts' = posts \cup ({e} \X Matching) /\ e \notin notified
      /\ Matching \subseteq Sub
  BY DEF Notify, Matching
<1>3. NqTypes' /\ SweeperHolds' /\ Inserted' /\ ReadIsFresh' /\ OutcomeDue' /\ SendsAccounted'
      /\ DeadAfterLastAttempt'
  BY <1>1, <1>2 DEF NqInv, NqTypes, SweeperHolds, Inserted, ReadIsFresh, StillOpen, OutcomeDue,
     SendsAccounted, Settling, DeadAfterLastAttempt
<1>4. PostedOnce'
  BY <1>1, <1>2 DEF NqInv, PostedOnce, Queued
<1> QED BY <1>3, <1>4 DEF NqInv

\* The INSERT of a row nobody holds yet.
LEMMA PostInv ==
  ASSUME NqInv, NEW p \in Delivery, Post(p) \/ PostLost(p)
  PROVE  NqInv'
<1>1. /\ UNCHANGED <<sub, sweeper, tester, sends, notified>> /\ posts' = posts \ {p}
      /\ p \in posts /\ p \in Queued /\ delivery[p].status = "none" /\ p[1] \in notified
      /\ nqFaults' \in 0..MaxNotifyFaults /\ nqFaults' >= nqFaults
  BY FaultsCount DEF NqInv, NqTypes, PostedOnce, Post, PostLost, Queued
<1>2. /\ delivery' \in [Delivery -> DeliveryRow]
      /\ \A d \in Delivery \ {p} : delivery'[d] = delivery[d]
      /\ delivery'[p] \in {NewRow, delivery[p]}
  BY NewRowType DEF NqInv, NqTypes, Post, PostLost, InsertDelivery
<1>3. NqTypes' /\ SweeperHolds'
  BY <1>1, <1>2 DEF NqInv, NqTypes, SweeperHolds
<1>4. p \notin sweeper.cur /\ \A r \in sweeper.todo : r.id # p /\ r.id \in Delivery
  BY <1>1 DEF NqInv, Inserted, NqTypes, Fetched
<1>5. Inserted' /\ ReadIsFresh' /\ OutcomeDue'
  BY <1>1, <1>2, <1>4 DEF NqInv, NqTypes, Inserted, ReadIsFresh, StillOpen, OutcomeDue
<1>6. PostedOnce'
  BY <1>1, <1>2, DeliveryKinds DEF NqInv, PostedOnce
<1>7. SendsAccounted'
  BY <1>1, <1>2, DeliveryKinds DEF NqInv, NqTypes, SendsAccounted, Settling, SendCap
<1>8. DeadAfterLastAttempt'
  BY <1>1, <1>2, DeliveryKinds, NotifyAssumption DEF NqInv, NqTypes, DeadAfterLastAttempt, NewRow, NotifyOpen
<1> QED BY <1>3, <1>5, <1>6, <1>7, <1>8 DEF NqInv

LEMMA ScheduleInv ==
  ASSUME NqInv, NEW p \in Delivery, ScheduleElapses(p)
  PROVE  NqInv'
<1>1. UNCHANGED <<sub, sweeper, tester, sends, notified, posts, nqFaults>>
  BY DEF ScheduleElapses, Quiet
<1>2. /\ delivery' \in [Delivery -> DeliveryRow]
      /\ \A d \in Delivery : /\ delivery'[d].status = delivery[d].status
                             /\ delivery'[d].attempts = delivery[d].attempts
  BY DEF ScheduleElapses, NqInv, NqTypes, DeliveryRow
<1>3. NqTypes' /\ SweeperHolds'
  BY <1>1, <1>2 DEF NqInv, NqTypes, SweeperHolds
<1>4. Inserted' /\ ReadIsFresh' /\ OutcomeDue'
  BY <1>1, <1>2 DEF NqInv, NqTypes, Fetched, Inserted, ReadIsFresh, StillOpen, OutcomeDue
<1>5. PostedOnce' /\ SendsAccounted' /\ DeadAfterLastAttempt'
  BY <1>1, <1>2, DeliveryKinds DEF NqInv, PostedOnce, SendsAccounted, Settling, DeadAfterLastAttempt
<1> QED BY <1>3, <1>4, <1>5 DEF NqInv

\* TestSubscription touches its own row only, which no event is queued in.
TestStep ==
  \/ \E s \in Sub : TestInsert(s)
  \/ TestSend \/ TestMark \/ TestStops

LEMMA TestInv ==
  ASSUME NqInv, TestStep
  PROVE  NqInv' /\ \A d \in Queued : delivery'[d] = delivery[d] /\ sends'[d] = sends[d]
<1>1. /\ UNCHANGED <<sub, sweeper, notified, posts>>
      /\ nqFaults' \in 0..MaxNotifyFaults /\ nqFaults' >= nqFaults
  BY FaultsCount DEF TestStep, TestInsert, TestSend, TestMark, TestStops, Quiet, FaultQuiet
<1>2. tester' \in [pc: TesterPC, cur: SUBSET TestRows]
  <2>1. tester \in [pc: TesterPC, cur: SUBSET TestRows]
    BY DEF NqInv, NqTypes
  <2>2. \A s \in Sub : <<TestEvent, s>> \in TestRows
    BY DEF TestRows
  <2>3. \A s \in Sub : TestInsert(s) => tester' \in [pc: TesterPC, cur: SUBSET TestRows]
    BY <2>2 DEF TestInsert, TesterPC
  <2>4. TestSend => tester' \in [pc: TesterPC, cur: SUBSET TestRows]
    BY <2>1 DEF TestSend, TesterPC
  <2>5. TestMark \/ TestStops => tester' \in [pc: TesterPC, cur: SUBSET TestRows]
    BY DEF TestMark, TestStops, TesterIdle, TesterPC
  <2> QED BY <2>3, <2>4, <2>5 DEF TestStep
<1>3. /\ delivery' \in [Delivery -> DeliveryRow]
      /\ \A d \in Delivery : delivery[d].status # "none" => delivery'[d].status # "none"
      /\ \A d \in Queued : delivery'[d] = delivery[d]
  <2>1. CASE \E s \in Sub : TestInsert(s)
    <3>1. PICK s \in Sub : delivery' = [delivery EXCEPT ![<<TestEvent, s>>] = NewRow]
      BY <2>1 DEF TestInsert, InsertDelivery
    <3>2. <<TestEvent, s>> \in TestRows
      BY DEF TestRows
    <3> QED BY <3>1, <3>2, NewRowType, DeliveryKinds DEF NqInv, NqTypes
  <2>2. CASE TestMark
    <3>1. PICK t \in tester.cur : delivery' = [delivery EXCEPT ![t] = Marked(delivery[t], tester.pc)]
      BY <2>2 DEF TestMark
    <3>2. t \in TestRows /\ t \in Delivery /\ tester.pc \in {"sent", "failed", "dead"}
      BY <2>2, DeliveryKinds DEF NqInv, NqTypes, TestMark
    <3>3. /\ Marked(delivery[t], tester.pc) \in DeliveryRow
          /\ Marked(delivery[t], tester.pc).status = tester.pc
      BY <3>2, MarkedRow DEF NqInv, NqTypes
    <3> QED BY <3>1, <3>2, <3>3, DeliveryKinds DEF NqInv, NqTypes
  <2>3. CASE TestSend \/ TestStops
    BY <2>3, DeliveryKinds DEF TestSend, TestStops, NqInv, NqTypes
  <2> QED BY <2>1, <2>2, <2>3 DEF TestStep
<1>4. sends' \in [Delivery -> 0..SendCap] /\ \A d \in Queued : sends'[d] = sends[d]
  <2>1. CASE TestSend
    <3>1. PICK t \in tester.cur : Accept(t) \/ UNCHANGED sends
      BY <2>1 DEF TestSend
    <3>2. t \in TestRows /\ t \in Delivery
      BY DeliveryKinds DEF NqInv, NqTypes
    <3> QED BY <3>1, <3>2, DeliveryKinds DEF Accept, SendCap, NqInv, NqTypes
  <2>2. CASE ~TestSend
    BY <2>2 DEF TestStep, TestInsert, TestMark, TestStops, NqInv, NqTypes
  <2> QED BY <2>1, <2>2
<1>5. NqTypes' /\ SweeperHolds'
  BY <1>1, <1>2, <1>3, <1>4 DEF NqInv, NqTypes, SweeperHolds
<1>6. Inserted' /\ ReadIsFresh'
  BY <1>1, <1>3 DEF NqInv, NqTypes, Fetched, Inserted, ReadIsFresh, StillOpen
<1>7. PostedOnce' /\ OutcomeDue'
  BY <1>1, <1>3, <1>4 DEF NqInv, NqTypes, PostedOnce, OutcomeDue
<1>8. SendsAccounted'
  BY <1>1, <1>3, <1>4, DeliveryKinds DEF NqInv, NqTypes, SendsAccounted, Settling, SendCap
<1>9. DeadAfterLastAttempt'
  BY <1>1, <1>3 DEF NqInv, NqTypes, DeadAfterLastAttempt
<1> QED BY <1>3, <1>4, <1>5, <1>6, <1>7, <1>8, <1>9 DEF NqInv

(* ---- the sweeper ---- *)

LEMMA FetchInv ==
  ASSUME NqInv, FetchDue
  PROVE  NqInv'
<1> DEFINE due == {x \in Delivery : Due(x)}
           todo == {[id |-> d, tries |-> delivery[d].attempts] : d \in due}
<1>1. UNCHANGED <<sub, delivery, tester, sends, notified, posts, nqFaults>>
  BY DEF FetchDue, Quiet
<1>2. sweeper' = [pc |-> "lookup", todo |-> todo, cur |-> {}, tries |-> 0] /\ sweeper.pc = "idle"
  BY DEF FetchDue, SweeperIdle
<1>3. \A d \in due : /\ d \in Delivery /\ delivery[d].status \in NotifyOpen
                     /\ delivery[d].attempts \in Tries
  BY DEF Due, NqInv, NqTypes, DeliveryRow, Tries
<1>4. /\ todo \subseteq Fetched
      /\ \A r \in todo : r.id \in due /\ r.tries = delivery[r.id].attempts
      /\ \A r, q \in todo : r.id = q.id => r = q
  BY <1>3 DEF Fetched
<1> HIDE DEF due, todo
<1>5. NqTypes'
  <2>1. 0 \in Tries
    BY NotifyAssumption DEF Tries
  <2> QED BY <1>1, <1>2, <1>4, <2>1 DEF NqInv, NqTypes, SweeperPC
<1>6. SweeperHolds' /\ OutcomeDue'
  BY <1>2, <1>4 DEF SweeperHolds, OutcomeDue
<1>7. Inserted' /\ ReadIsFresh'
  BY <1>1, <1>2, <1>3, <1>4 DEF Inserted, ReadIsFresh, StillOpen, NotifyOpen
<1>8. PostedOnce' /\ DeadAfterLastAttempt'
  BY <1>1 DEF NqInv, PostedOnce, DeadAfterLastAttempt
<1>9. SendsAccounted'
  BY <1>1, <1>2 DEF NqInv, SendsAccounted, Settling
<1> QED BY <1>5, <1>6, <1>7, <1>8, <1>9 DEF NqInv

LEMMA LookupInv ==
  ASSUME NqInv, Lookup \/ LookupFails
  PROVE  NqInv'
<1>1. /\ UNCHANGED <<sub, delivery, tester, sends, notified, posts>> /\ sweeper.pc = "lookup"
      /\ nqFaults' \in 0..MaxNotifyFaults /\ nqFaults' >= nqFaults
  BY FaultsCount DEF Lookup, LookupFails, Quiet, FaultQuiet
<1>2. PICK r \in sweeper.todo, pc \in {"dead", "send"} :
        /\ sweeper' = [pc |-> pc, todo |-> sweeper.todo \ {r}, cur |-> {r.id}, tries |-> r.tries]
        /\ pc = "dead" => sub[r.id[2]] = "deleted" \/ nqFaults' > 0
  <2>1. nqFaults \in Nat
    BY DEF NqInv, NqTypes
  <2>2. CASE Lookup
    BY <2>2 DEF Lookup
  <2>3. CASE LookupFails
    <3>1. nqFaults' > 0
      BY <2>1, <2>3 DEF LookupFails, FaultQuiet, NqFault
    <3>2. PICK r \in sweeper.todo :
            sweeper' = [pc |-> "dead", todo |-> sweeper.todo \ {r}, cur |-> {r.id}, tries |-> r.tries]
      BY <2>3 DEF LookupFails
    <3> QED BY <3>1, <3>2
  <2> QED BY <2>2, <2>3
<1>3. r \in Fetched /\ r.id \in Delivery /\ r.tries \in Tries
  BY DEF NqInv, NqTypes, Fetched
<1>4. NqTypes'
  BY <1>1, <1>2, <1>3 DEF NqInv, NqTypes, SweeperPC
<1>5. SweeperHolds'
  BY <1>2, <1>3 DEF NqInv, SweeperHolds
<1>6. Inserted' /\ ReadIsFresh'
  BY <1>1, <1>2 DEF NqInv, Inserted, ReadIsFresh, StillOpen
<1>7. OutcomeDue'
  BY <1>1, <1>2 DEF OutcomeDue
<1>8. PostedOnce'
  BY <1>1 DEF NqInv, PostedOnce
<1>9. SendsAccounted'
  <2>1. \A d \in Queued : Settling(d)' <=> Settling(d)
    BY <1>1, <1>2 DEF Settling
  <2>2. \A d \in Queued : sends[d] \in Nat /\ sends[d] <= nqFaults + (IF Settling(d) THEN 1 ELSE 0)
    BY DeliveryKinds DEF NqInv, NqTypes, SendsAccounted, SendCap
  <2>3. nqFaults \in Nat /\ nqFaults' \in Nat
    BY <1>1 DEF NqInv, NqTypes
  <2> QED BY <1>1, <2>1, <2>2, <2>3 DEF SendsAccounted
<1>10. DeadAfterLastAttempt'
  BY <1>1 DEF NqInv, NqTypes, DeadAfterLastAttempt
<1> QED BY <1>4, <1>5, <1>6, <1>7, <1>8, <1>9, <1>10 DEF NqInv

\* The delivery in hand: what the invariant says of it.
LEMMA InHandRow ==
  ASSUME NqInv, sweeper.pc \notin {"idle", "lookup"}
  PROVE  \E d \in Delivery :
           /\ sweeper.cur = {d} /\ delivery[d] \in DeliveryRow /\ delivery[d].status # "none"
           /\ d \in Queued => StillOpen(d, sweeper.tries) /\ sweeper.tries < NotifyMaxAttempts
  BY DEF NqInv, NqTypes, SweeperHolds, Inserted, ReadIsFresh, StillOpen, DeadAfterLastAttempt

LEMMA SendInv ==
  ASSUME NqInv, Send \/ SendUnanswered
  PROVE  NqInv' /\ \A d \in Queued : sends[d] > 0 => sends'[d] > 0
<1>1. /\ UNCHANGED <<sub, delivery, tester, notified, posts>> /\ sweeper.pc = "send"
      /\ nqFaults' \in 0..MaxNotifyFaults /\ nqFaults' >= nqFaults /\ nqFaults \in Nat
  BY FaultsCount DEF Send, SendUnanswered, Quiet, FaultQuiet, NqInv, NqTypes
<1>2. PICK d \in Delivery :
        /\ sweeper.cur = {d} /\ delivery[d] \in DeliveryRow /\ delivery[d].status # "none"
        /\ d \in Queued => StillOpen(d, sweeper.tries) /\ sweeper.tries < NotifyMaxAttempts
  BY <1>1, InHandRow
<1>3. PICK pc \in {"sent", "failed", "dead"} : sweeper' = [sweeper EXCEPT !.pc = pc]
  BY DEF Send, SendUnanswered
<1>4. /\ sweeper'.pc = pc /\ sweeper'.todo = sweeper.todo /\ sweeper'.cur = {d}
      /\ sweeper'.tries = sweeper.tries
      /\ sweeper' \in [pc: SweeperPC, todo: SUBSET Fetched, cur: SUBSET Delivery, tries: Tries]
  BY <1>2, <1>3 DEF NqInv, NqTypes, SweeperPC
<1>5. pc # "sent" => pc = IF GivesUpDelivery(sweeper.tries) THEN "dead" ELSE "failed"
  BY <1>1, <1>4 DEF Send, SendUnanswered, NqInv, NqTypes
<1>6. /\ sends' \in [Delivery -> 0..SendCap]
      /\ \A e \in Delivery \ {d} : sends'[e] = sends[e]
      /\ sends[d] \in Nat /\ sends'[d] >= sends[d] /\ sends'[d] <= sends[d] + 1
      /\ pc = "sent" => sends'[d] > 0
      /\ sends'[d] > sends[d] => pc = "sent" \/ nqFaults' = nqFaults + 1
  <2>1. sends \in [Delivery -> 0..SendCap] /\ sends[d] \in 0..SendCap
    BY DEF NqInv, NqTypes
  <2>2. Accept(d) => /\ sends' \in [Delivery -> 0..SendCap]
                     /\ \A e \in Delivery \ {d} : sends'[e] = sends[e]
                     /\ sends'[d] >= sends[d] /\ sends'[d] <= sends[d] + 1 /\ sends'[d] > 0
    BY <2>1 DEF Accept, SendCap
  <2>3. Accept(d) \/ (UNCHANGED sends /\ pc # "sent")
    BY <1>2, <1>4 DEF Send, SendUnanswered, GivesUpDelivery
  <2>4. Accept(d) => pc = "sent" \/ nqFaults' = nqFaults + 1 \/ UNCHANGED sends
    BY <1>2, <1>4 DEF Send, SendUnanswered, FaultQuiet, NqFault
  <2>5. sends[d] \in Nat
    BY <2>1 DEF SendCap
  <2> QED BY <2>1, <2>2, <2>3, <2>4, <2>5
<1>7. NqTypes' /\ SweeperHolds'
  BY <1>1, <1>2, <1>4, <1>6 DEF NqInv, NqTypes, SweeperHolds
<1>8. Inserted' /\ ReadIsFresh' /\ PostedOnce'
  BY <1>1, <1>2, <1>4 DEF NqInv, Inserted, ReadIsFresh, StillOpen, PostedOnce
<1>9. OutcomeDue'
  <2>1. sweeper.tries \in Nat
    BY DEF NqInv, NqTypes, Tries
  <2>2. d \in Queued /\ pc = "failed" => sweeper.tries + 1 < NotifyMaxAttempts
    BY <1>5, <2>1, NotifyAssumption DEF GivesUpDelivery
  <2>3. d \in Queued /\ pc = "dead" => sweeper.tries + 1 = NotifyMaxAttempts
    BY <1>2, <1>5, <2>1, NotifyAssumption DEF GivesUpDelivery
  <2> QED BY <1>4, <1>6, <2>2, <2>3 DEF OutcomeDue
<1>10. SendsAccounted'
  <2> SUFFICES ASSUME NEW e \in Queued
               PROVE  sends'[e] <= nqFaults' + (IF Settling(e)' THEN 1 ELSE 0)
    BY DEF SendsAccounted
  <2>1. /\ sends[e] <= nqFaults + (IF Settling(e) THEN 1 ELSE 0)
        /\ sends[e] \in Nat /\ e \in Delivery
    BY DeliveryKinds DEF NqInv, NqTypes, SendsAccounted, SendCap
  <2>2. CASE e = d
    <3>1. ~Settling(e)
      BY <1>1, <1>2, <2>2 DEF Settling, StillOpen, NotifyOpen
    <3>2. pc = "sent" => Settling(e)'
      BY <1>4, <2>2 DEF Settling
    <3> QED BY <1>1, <1>6, <2>1, <2>2, <3>1, <3>2
  <2>3. CASE e # d
    <3>1. Settling(e)' = Settling(e)
      BY <1>1, <1>2, <1>4, <2>3 DEF Settling
    <3> QED BY <1>1, <1>6, <2>1, <2>3, <3>1
  <2> QED BY <2>2, <2>3
<1>11. DeadAfterLastAttempt'
  BY <1>1 DEF NqInv, DeadAfterLastAttempt
<1> QED BY <1>6, <1>7, <1>8, <1>9, <1>10, <1>11, DeliveryKinds DEF NqInv

\* The sweeper goes on to the rest of its batch, or to sleep.
LEMMA NextDueHolds ==
  ASSUME NqInv, sweeper.pc \notin {"idle", "lookup"}, NextDue
  PROVE  /\ sweeper' \in [pc: SweeperPC, todo: SUBSET Fetched, cur: SUBSET Delivery, tries: Tries]
         /\ sweeper'.pc \in {"idle", "lookup"} /\ sweeper'.cur = {}
         /\ sweeper'.todo = sweeper.todo
         /\ SweeperHolds'
<1>1. 0 \in Tries
  BY NotifyAssumption DEF Tries
<1>2. CASE sweeper.todo = {}
  BY <1>1, <1>2 DEF NextDue, SweeperIdle, SweeperHolds, SweeperPC
<1>3. CASE sweeper.todo # {}
  BY <1>1, <1>3 DEF NextDue, SweeperHolds, SweeperPC, NqInv, NqTypes
<1> QED BY <1>2, <1>3

LEMMA MarkInv ==
  ASSUME NqInv, MarkDelivery \/ MarkDeliveryLost
  PROVE  NqInv'
<1>1. /\ UNCHANGED <<sub, tester, sends, notified, posts>> /\ sweeper.pc \in {"sent", "failed", "dead"}
      /\ NextDue
      /\ nqFaults' \in 0..MaxNotifyFaults /\ nqFaults' >= nqFaults /\ nqFaults \in Nat
  BY FaultsCount DEF MarkDelivery, MarkDeliveryLost, Quiet, FaultQuiet, NqInv, NqTypes
<1>2. PICK d \in Delivery :
        /\ sweeper.cur = {d} /\ delivery[d] \in DeliveryRow /\ delivery[d].status # "none"
        /\ d \in Queued => StillOpen(d, sweeper.tries) /\ sweeper.tries < NotifyMaxAttempts
  BY <1>1, InHandRow
<1> DEFINE row == Marked(delivery[d], sweeper.pc)
<1>3. /\ row \in DeliveryRow /\ row.status = sweeper.pc
      /\ d \in Queued => row.attempts = sweeper.tries + 1
  <2>1. d \in Queued => delivery[d].attempts = sweeper.tries /\ sweeper.tries <= NotifyMaxAttempts
    BY <1>2, NotifyAssumption DEF StillOpen, NqInv, NqTypes, Tries
  <2> QED BY <1>1, <1>2, <2>1, MarkedRow
<1>4. /\ delivery' \in [Delivery -> DeliveryRow]
      /\ \A e \in Delivery \ {d} : delivery'[e] = delivery[e]
      /\ \/ MarkDelivery /\ delivery'[d] = row
         \/ MarkDeliveryLost /\ delivery'[d] = delivery[d] /\ nqFaults' = nqFaults + 1
  <2>1. delivery \in [Delivery -> DeliveryRow]
    BY DEF NqInv, NqTypes
  <2>2. CASE MarkDelivery
    <3>1. delivery' = [delivery EXCEPT ![d] = row]
      BY <1>2, <2>2 DEF MarkDelivery
    <3> HIDE DEF row
    <3> QED BY <1>3, <2>1, <2>2, <3>1
  <2>3. CASE MarkDeliveryLost
    BY <2>1, <2>3 DEF MarkDeliveryLost, FaultQuiet, NqFault
  <2> QED BY <2>2, <2>3
<1> HIDE DEF row
<1>5. /\ sweeper' \in [pc: SweeperPC, todo: SUBSET Fetched, cur: SUBSET Delivery, tries: Tries]
      /\ sweeper'.pc \in {"idle", "lookup"} /\ sweeper'.cur = {} /\ sweeper'.todo = sweeper.todo
      /\ SweeperHolds'
  BY <1>1, NextDueHolds
<1>6. NqTypes'
  BY <1>1, <1>4, <1>5 DEF NqInv, NqTypes
<1>7. \A r \in sweeper.todo : r.id # d /\ r.id \in Delivery
  BY <1>2 DEF NqInv, NqTypes, SweeperHolds, Fetched
<1>8. Inserted' /\ ReadIsFresh' /\ OutcomeDue'
  BY <1>4, <1>5, <1>7 DEF NqInv, Inserted, ReadIsFresh, StillOpen, OutcomeDue
<1>9. PostedOnce'
  BY <1>1, <1>2, <1>4, DeliveryKinds DEF NqInv, PostedOnce
<1>10. SendsAccounted'
  <2> SUFFICES ASSUME NEW e \in Queued
               PROVE  sends'[e] <= nqFaults' + (IF Settling(e)' THEN 1 ELSE 0)
    BY DEF SendsAccounted
  <2>1. /\ sends[e] <= nqFaults + (IF Settling(e) THEN 1 ELSE 0)
        /\ sends[e] \in Nat /\ e \in Delivery
    BY DeliveryKinds DEF NqInv, NqTypes, SendsAccounted, SendCap
  <2>2. Settling(e) => Settling(e)' \/ nqFaults' = nqFaults + 1
    <3>1. CASE e # d
      BY <1>2, <1>4, <2>1, <3>1 DEF Settling
    <3>2. CASE e = d
      <4>1. Settling(e) => sweeper.pc = "sent"
        BY <1>2, <3>2 DEF Settling, StillOpen, NotifyOpen
      <4> QED BY <1>3, <1>4, <3>2, <4>1 DEF Settling
    <3> QED BY <3>1, <3>2
  <2> QED BY <1>1, <2>1, <2>2
<1>11. DeadAfterLastAttempt'
  <2> SUFFICES ASSUME NEW e \in Queued
               PROVE  /\ delivery'[e].status = "dead" /\ sub[e[2]] # "deleted" /\ nqFaults' = 0 =>
                           delivery'[e].attempts = NotifyMaxAttempts
                      /\ delivery'[e].status \in NotifyOpen => delivery'[e].attempts < NotifyMaxAttempts
    BY <1>1 DEF DeadAfterLastAttempt
  <2>1. e \in Delivery
    BY DeliveryKinds
  <2>2. CASE delivery'[e] = delivery[e]
    BY <1>1, <2>2 DEF NqInv, DeadAfterLastAttempt
  <2>3. CASE delivery'[e] # delivery[e]
    <3>1. e = d /\ delivery'[e] = row
      BY <1>4, <2>1, <2>3
    <3>2. /\ sweeper.pc = "failed" => sweeper.tries + 1 < NotifyMaxAttempts
          /\ sweeper.pc = "dead" =>
               sweeper.tries + 1 = NotifyMaxAttempts \/ sub[e[2]] = "deleted" \/ nqFaults > 0
      BY <1>2, <3>1 DEF NqInv, OutcomeDue
    <3> QED BY <1>1, <1>3, <3>1, <3>2 DEF NotifyOpen
  <2> QED BY <2>2, <2>3
<1> QED BY <1>5, <1>6, <1>8, <1>9, <1>10, <1>11 DEF NqInv

LEMMA DiesInv ==
  ASSUME NqInv, NotifierDies
  PROVE  NqInv'
<1>1. /\ UNCHANGED <<sub, delivery, sends, notified>>
      /\ nqFaults' \in 0..MaxNotifyFaults /\ nqFaults' = nqFaults + 1 /\ nqFaults \in Nat
      /\ sweeper' = SweeperIdle /\ tester' = TesterIdle /\ posts' = {}
  BY FaultsCount DEF NotifierDies, NqFault, NqInv, NqTypes
<1>2. NqTypes'
  <2>1. 0 \in Tries
    BY NotifyAssumption DEF Tries
  <2> QED BY <1>1, <2>1 DEF NqInv, NqTypes, SweeperIdle, SweeperPC, TesterIdle, TesterPC
<1>3. SweeperHolds' /\ Inserted' /\ ReadIsFresh' /\ OutcomeDue' /\ PostedOnce'
  BY <1>1 DEF SweeperIdle, SweeperHolds, Inserted, ReadIsFresh, OutcomeDue, NqInv, PostedOnce
<1>4. SendsAccounted'
  BY <1>1, DeliveryKinds DEF NqInv, NqTypes, SendsAccounted, Settling, SendCap
<1>5. DeadAfterLastAttempt'
  BY <1>1 DEF NqInv, DeadAfterLastAttempt
<1> QED BY <1>2, <1>3, <1>4, <1>5 DEF NqInv

LEMMA NqInvStep ==
  ASSUME NqInv, [NqNext]_nqVars
  PROVE  NqInv'
<1>1. CASE UNCHANGED nqVars
  BY <1>1 DEF nqVars, NqInv, NqTypes, PostedOnce, SweeperHolds, Inserted, ReadIsFresh, StillOpen,
     OutcomeDue, SendsAccounted, Settling, DeadAfterLastAttempt
<1>2. CASE SweeperStep \/ MarkDeliveryLost \/ LookupFails \/ SendUnanswered \/ NotifierDies
  BY <1>2, FetchInv, LookupInv, SendInv, MarkInv, DiesInv DEF SweeperStep
<1>3. CASE TestStep
  BY <1>3, TestInv
<1>4. CASE \E s \in Sub : UpdateSubscription(s) \/ DeleteSubscription(s)
  BY <1>4, SubscriptionInv
<1>5. CASE \E e \in Event : Notify(e)
  BY <1>5, NotifyInv
<1>6. CASE \E d \in Delivery : Post(d) \/ PostLost(d) \/ ScheduleElapses(d)
  BY <1>6, PostInv, ScheduleInv
<1> QED BY <1>1, <1>2, <1>3, <1>4, <1>5, <1>6 DEF NqNext, TestStep

LEMMA NqInvInvariant == NqSpec => []NqInv
  BY NqInvInit, NqInvStep, PTL DEF NqSpec

(* ---- the table as a retry queue ---- *)

LEMMA DeliveryMoves ==
  ASSUME NEW d \in Queued, NEW st, DeliveryJob(d)' = st,
         \A e \in Queued \ {d} : UNCHANGED DeliveryJob(e)
  PROVE  [e \in Queued |-> DeliveryJob(e)]' = [[e \in Queued |-> DeliveryJob(e)] EXCEPT ![d] = st]
  OBVIOUS

LEMMA DeliveriesStay ==
  ASSUME \A e \in Queued : UNCHANGED DeliveryJob(e)
  PROVE  UNCHANGED [e \in Queued |-> DeliveryJob(e)]
  OBVIOUS

LEMMA NotifyInitRefines == NqInit => DeliveryQueue!RQInit
  BY DeliveryKinds DEF NqInit, DeliveryQueue!RQInit, DeliveryJob, NoRow, Accepted

LEMMA PostRefines ==
  ASSUME NqInv, NEW d \in Delivery, Post(d)
  PROVE  \E j \in Queued : DeliveryQueue!Enqueue(j)
<1>1. d \in Queued /\ delivery[d].status = "none" /\ UNCHANGED sends
  BY DEF NqInv, NqTypes, PostedOnce, Post, Queued
<1>2. delivery'[d] = NewRow /\ \A e \in Delivery \ {d} : delivery'[e] = delivery[e]
  BY DEF Post, InsertDelivery, NqInv, NqTypes
<1>3. DeliveryJob(d) = "absent" /\ DeliveryJob(d)' = "queued"
  BY <1>1, <1>2 DEF DeliveryJob, NewRow, NotifyOpen
<1>4. \A e \in Queued \ {d} : UNCHANGED DeliveryJob(e)
  BY <1>2, DeliveryKinds DEF DeliveryJob
<1>5. UNCHANGED Accepted
  BY <1>1 DEF Accepted
<1> QED BY <1>1, <1>3, <1>4, <1>5, DeliveryMoves DEF DeliveryQueue!Enqueue

LEMMA SendRefines ==
  ASSUME NqInv, Send \/ SendUnanswered
  PROVE  [DeliveryQueue!RQNext]_(DeliveryQueue!rqVars)
<1>1. UNCHANGED delivery /\ sweeper.pc = "send"
  BY DEF Send, SendUnanswered
<1>2. PICK d \in Delivery :
        /\ sweeper.cur = {d} /\ delivery[d] \in DeliveryRow /\ delivery[d].status # "none"
        /\ d \in Queued => StillOpen(d, sweeper.tries) /\ sweeper.tries < NotifyMaxAttempts
  BY <1>1, InHandRow
<1>3. \A e \in Delivery \ {d} : sends'[e] = sends[e]
  BY <1>2 DEF Send, SendUnanswered, Accept, NqInv, NqTypes
<1>4. \A e \in Queued : UNCHANGED DeliveryJob(e)
  BY <1>1 DEF DeliveryJob
<1>5. Accepted \subseteq Accepted' /\ Accepted' \subseteq Accepted \cup {d}
  BY <1>3, SendInv, DeliveryKinds DEF Accepted
<1>6. CASE Accepted' = Accepted
  BY <1>4, <1>6, DeliveriesStay DEF DeliveryQueue!rqVars
<1>7. CASE Accepted' # Accepted
  <2>1. d \in Queued /\ Accepted' = Accepted \cup {d}
    BY <1>5, <1>7 DEF Accepted
  <2>2. DeliveryJob(d) # "absent"
    BY <1>2, <2>1 DEF DeliveryJob
  <2>3. {d} \in SUBSET {e \in Queued : [f \in Queued |-> DeliveryJob(f)][e] # "absent"}
    BY <2>1, <2>2
  <2> QED BY <1>4, <2>1, <2>3, DeliveriesStay DEF DeliveryQueue!RQNext, DeliveryQueue!Effects
<1> QED BY <1>6, <1>7

LEMMA MarkRefines ==
  ASSUME NqInv, MarkDelivery
  PROVE  [DeliveryQueue!RQNext]_(DeliveryQueue!rqVars)
<1>1. sweeper.pc \in {"sent", "failed", "dead"} /\ UNCHANGED Accepted
  BY DEF MarkDelivery, Accepted
<1>2. PICK d \in Delivery :
        /\ sweeper.cur = {d} /\ delivery[d] \in DeliveryRow /\ delivery[d].status # "none"
        /\ d \in Queued => StillOpen(d, sweeper.tries) /\ sweeper.tries < NotifyMaxAttempts
  BY <1>1, InHandRow
<1> DEFINE row == Marked(delivery[d], sweeper.pc)
<1>3. row.status = sweeper.pc
  BY <1>1, <1>2, MarkedRow
<1>4. delivery' = [delivery EXCEPT ![d] = row]
  BY <1>2 DEF MarkDelivery
<1> HIDE DEF row
<1>5. delivery'[d] = row /\ \A e \in Delivery \ {d} : delivery'[e] = delivery[e]
  BY <1>4 DEF NqInv, NqTypes
<1>6. \A e \in Queued \ {d} : UNCHANGED DeliveryJob(e)
  BY <1>5, DeliveryKinds DEF DeliveryJob
<1>7. CASE d \notin Queued
  <2>1. \A e \in Queued : UNCHANGED DeliveryJob(e)
    BY <1>6, <1>7
  <2> QED BY <1>1, <2>1, DeliveriesStay DEF DeliveryQueue!rqVars
<1>8. CASE d \in Queued
  <2>1. DeliveryJob(d) = "queued"
    BY <1>2, <1>8 DEF DeliveryJob, StillOpen, NotifyOpen
  <2>2. CASE sweeper.pc = "failed"
    <3>1. DeliveryJob(d)' = "queued"
      BY <1>3, <1>5, <2>2 DEF DeliveryJob, NotifyOpen
    <3>2. \A e \in Queued : UNCHANGED DeliveryJob(e)
      BY <1>6, <2>1, <3>1
    <3> QED BY <1>1, <3>2, DeliveriesStay DEF DeliveryQueue!rqVars
  <2>3. CASE sweeper.pc = "sent"
    <3>1. DeliveryJob(d)' = "done"
      BY <1>3, <1>5, <2>3 DEF DeliveryJob, NotifyOpen
    <3>2. d \in Accepted
      BY <1>2, <1>8, <2>3 DEF NqInv, OutcomeDue, Accepted
    <3>3. DeliveryQueue!Done(d)
      BY <1>1, <1>6, <1>8, <2>1, <3>1, <3>2, DeliveryMoves DEF DeliveryQueue!Done, DeliveryQueue!Open
    <3> QED BY <1>8, <3>3 DEF DeliveryQueue!RQNext
  <2>4. CASE sweeper.pc = "dead"
    <3>1. DeliveryJob(d)' = "dropped"
      BY <1>3, <1>5, <2>4 DEF DeliveryJob, NotifyOpen
    <3>2. DeliveryQueue!Drop(d)
      BY <1>1, <1>6, <1>8, <2>1, <3>1, DeliveryMoves DEF DeliveryQueue!Drop, DeliveryQueue!Open
    <3> QED BY <1>8, <3>2 DEF DeliveryQueue!RQNext
  <2> QED BY <1>1, <2>2, <2>3, <2>4
<1> QED BY <1>7, <1>8

LEMMA NqStepRefines ==
  ASSUME NqInv, [NqNext]_nqVars
  PROVE  [DeliveryQueue!RQNext]_(DeliveryQueue!rqVars)
<1>1. CASE \E d \in Delivery : Post(d)
  BY <1>1, PostRefines DEF DeliveryQueue!RQNext
<1>2. CASE Send \/ SendUnanswered
  BY <1>2, SendRefines
<1>3. CASE MarkDelivery
  BY <1>3, MarkRefines
<1>4. CASE \E d \in Delivery : ScheduleElapses(d)
  <2>1. UNCHANGED sends /\ \A e \in Queued : delivery'[e].status = delivery[e].status
    BY <1>4, DeliveryKinds DEF ScheduleElapses, NqInv, NqTypes, DeliveryRow
  <2>2. UNCHANGED Accepted /\ \A e \in Queued : UNCHANGED DeliveryJob(e)
    BY <2>1 DEF Accepted, DeliveryJob
  <2> QED BY <2>2, DeliveriesStay DEF DeliveryQueue!rqVars
<1>5. CASE TestStep
  <2>1. UNCHANGED Accepted /\ \A e \in Queued : UNCHANGED DeliveryJob(e)
    BY <1>5, TestInv DEF Accepted, DeliveryJob
  <2> QED BY <2>1, DeliveriesStay DEF DeliveryQueue!rqVars
<1>6. CASE UNCHANGED <<delivery, sends>>
  <2>1. UNCHANGED Accepted /\ \A e \in Queued : UNCHANGED DeliveryJob(e)
    BY <1>6 DEF Accepted, DeliveryJob
  <2> QED BY <2>1, DeliveriesStay DEF DeliveryQueue!rqVars
<1> QED BY <1>1, <1>2, <1>3, <1>4, <1>5, <1>6
     DEF NqNext, TestStep, SweeperStep, UpdateSubscription, DeleteSubscription, Notify, PostLost,
         FetchDue, Lookup, MarkDeliveryLost, LookupFails, NotifierDies, nqVars

(* ---- theorems ---- *)

LEMMA NqInvTypes == NqInv => NqTypeOK
<1> SUFFICES ASSUME NqInv PROVE NqTypeOK
  OBVIOUS
<1>1. Cardinality(sweeper.cur) <= 1
  <2>1. CASE sweeper.cur = {}
    BY <2>1, FS_EmptySet
  <2>2. CASE sweeper.cur # {}
    <3>1. PICK d : sweeper.cur = {d}
      BY <2>2 DEF NqInv, NqTypes, SweeperHolds
    <3>2. Cardinality({d}) = 1
      BY FS_Singleton
    <3> QED BY <3>1, <3>2
  <2> QED BY <2>1, <2>2
<1>2. tester.cur \subseteq Delivery
  BY DeliveryKinds DEF NqInv, NqTypes
<1>3. \A r \in sweeper.todo : r.tries \in 0..(NotifyMaxAttempts + 1) /\ delivery[r.id].status # "none"
  BY DEF NqInv, NqTypes, Fetched, Tries, Inserted
<1> QED BY <1>1, <1>2, <1>3 DEF NqInv, NqTypes, NqTypeOK

LEMMA NqInvAccounts == NqInv => AttemptsAccounted
<1> SUFFICES ASSUME NqInv, NEW d \in Queued PROVE sends[d] <= 1 + nqFaults
  BY DEF NqInv, AttemptsAccounted, SentOncePerFault
<1>1. sends[d] \in Nat /\ nqFaults \in Nat
  BY DeliveryKinds DEF NqInv, NqTypes, SendCap
<1> QED BY <1>1 DEF NqInv, SendsAccounted

\* A notification reaches its channel at most once more than there are faults;
\* its delivery goes dead at the last attempt, or for want of a subscription,
\* and while it is open an attempt is left (notify/service.go: RunSweeperOnce,
\* dispatch), whatever TestSubscription and the subscriptions do meanwhile.
THEOREM NotificationsAccounted == NqSpec => []AttemptsAccounted
  BY NqInvInvariant, NqInvAccounts, PTL

\* notification_deliveries with its sweeper implements the retry queue: every
\* step of the sweeper, of Notify, of TestSubscription and of a crash is one of
\* the queue or changes nothing it shows.
THEOREM NotificationsImplementQueue == NqSpec => DeliveryQueue!RQSpec
  BY NqInvInvariant, NotifyInitRefines, NqStepRefines, PTL DEF NqSpec, DeliveryQueue!RQSpec

\* A behaviour of the composition is one of each of the two tables.
LEMMA BothScenes == Spec => PlSpec /\ NqSpec
<1>1. Init => PlInit /\ NqInit
  BY DEF Init
<1>2. [Next]_vars => [PlNext]_plVars /\ [NqNext]_nqVars
  BY DEF Next, InPipeline, InNotify, vars
<1> QED BY <1>1, <1>2, PTL DEF Spec, PlSpec, NqSpec

\* Type correctness of both retried tables and of every goroutine at work on
\* them (eventbus, asset, scan and notify services).
THEOREM DeliveryTypes == Spec => []DeliveryTypeOK
  BY BothScenes, PipelineTypes, NqInvInvariant, NqInvTypes, PTL DEF DeliveryTypeOK

\* In both tables work is given up at its attempt limit and not before it, and
\* nothing is done once more than faults explain (relay.go, notify/service.go).
THEOREM DeliveryRetriesAccounted == Spec => []RetriesAccounted
  BY BothScenes, GivenUpOnlyAtTheLimit, NotificationsAccounted, PTL DEF RetriesAccounted
=============================================================================
