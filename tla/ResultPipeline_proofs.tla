------------------------ MODULE ResultPipeline_proofs ------------------------
(***************************************************************************)
(* Theorems about what happens to reported results: the outbox relay, the  *)
(* goroutines of ReportResults, the asset events and the sweep of assets,  *)
(* for any number of batches, rows, assets, attempts and faults.           *)
(***************************************************************************)
EXTENDS ResultPipeline, SequenceTheorems, TLAPS

(* ---- the outbox ---- *)

RelayRecord == [id: Batch, attempts: 0..OutboxMaxAttempts]

ObTypes ==
  /\ order \in Seq(Batch)
  /\ event \in [Batch -> EventRow]
  /\ relay \in [pc: RelayPC, todo: Seq(RelayRecord)]
  /\ taken \subseteq Batch

\* An event is inserted once, and nothing is sent to be indexed before its commit.
CommittedOnce ==
  /\ \A i, j \in 1..Len(order) : order[i] = order[j] => i = j
  /\ \A b \in Batch \ Committed : event[b] = NewEvent
  /\ taken \subseteq Committed

\* Whether a row was given up is read off its attempts.
AttemptsTell ==
  \A b \in Batch :
    /\ event[b].failed <=> event[b].attempts = OutboxMaxAttempts
    /\ ~(event[b].failed /\ event[b].published)

\* What the single relay read of a row still holds when it marks the row.
InHand ==
  LET todo == relay.todo IN
  /\ relay.pc = "idle" <=> todo = <<>>
  /\ \A i \in 1..Len(todo) :
       /\ todo[i].id \in Committed
       /\ todo[i].attempts = event[todo[i].id].attempts
       /\ ~event[todo[i].id].published /\ ~event[todo[i].id].failed
  /\ \A i, j \in 1..Len(todo) : todo[i].id = todo[j].id => i = j

\* The request of a dispatch without an error was carried out.
DispatchedIsTaken == relay.pc = "published" => Rec.id \in taken

ObInv == ObTypes /\ CommittedOnce /\ AttemptsTell /\ InHand /\ DispatchedIsTaken

\* What a step of the pipeline may do to the tables of the outbox.
IndexWrite(b) ==
  b \in Committed /\ (IndexOK(b) \/ IndexError(b)) /\ UNCHANGED <<order, event, relay>>
Insert(b) == PublishTx(b) /\ UNCHANGED <<event, relay, taken>>
RelayDies == relay' = RelayIdle /\ UNCHANGED <<order, event, taken>>
ObStep ==
  \/ \E b \in Batch : Insert(b) \/ IndexWrite(b) \/ BackoffElapses(b)
  \/ RelayPoll \/ RelayDispatch \/ MarkPublished \/ MarkFailed \/ MarkLost \/ RelayDies

LEMMA FunctionIsSeq ==
  ASSUME NEW S, NEW n \in Nat, NEW f \in [1..n -> S]
  PROVE  f \in Seq(S) /\ Len(f) = n
  OBVIOUS

LEMMA CommittedGrows ==
  ASSUME order \in Seq(Batch), NEW b \in Batch, order' = Append(order, b)
  PROVE  Committed' = Committed \cup {b}
<1>1. /\ Len(order') = Len(order) + 1
      /\ \A i \in 1..Len(order) : order'[i] = order[i]
      /\ order'[Len(order) + 1] = b
  OBVIOUS
<1>2. Len(order) \in Nat
  OBVIOUS
<1>3. 1..Len(order') = (1..Len(order)) \cup {Len(order) + 1}
  BY <1>1, <1>2
<1> QED BY <1>1, <1>2, <1>3 DEF Committed

LEMMA CommittedBatches == order \in Seq(Batch) => Committed \subseteq Batch
  BY DEF Committed

LEMMA ObInvInit == ObInit => ObInv
<1> SUFFICES ASSUME ObInit PROVE ObInv
  OBVIOUS
<1>1. ObTypes
  BY OutboxAssumption DEF ObInit, ObTypes, EventRow, NewEvent, RelayPC, RelayIdle
<1>2. CommittedOnce /\ AttemptsTell
  BY OutboxAssumption DEF ObInit, CommittedOnce, AttemptsTell, NewEvent
<1>3. InHand /\ DispatchedIsTaken
  BY DEF ObInit, InHand, DispatchedIsTaken, RelayIdle
<1> QED BY <1>1, <1>2, <1>3 DEF ObInv

\* The rest of the relay's batch is in hand after one record is done with.
LEMMA NextRecordInHand ==
  ASSUME ObTypes, relay.pc # "idle", InHand, NextRecord,
         NEW ev \in [Batch -> EventRow],
         \A b \in Batch \ {Rec.id} : ev[b] = event[b], event' = ev, UNCHANGED order
  PROVE  /\ relay' \in [pc: RelayPC, todo: Seq(RelayRecord)]
         /\ InHand' /\ relay'.pc # "published"
<1> DEFINE todo == relay.todo
<1>1. todo \in Seq(RelayRecord) /\ todo # <<>> /\ Len(todo) \in Nat \ {0}
  BY EmptySeq, LenProperties DEF InHand, ObTypes
<1>2. CASE Len(todo) = 1
  BY <1>2 DEF NextRecord, RelayIdle, InHand, RelayPC
<1>3. CASE Len(todo) # 1
  <2>1. relay' = [pc |-> "dispatch", todo |-> Tail(todo)]
    BY <1>3 DEF NextRecord
  <2>2. /\ Tail(todo) \in Seq(RelayRecord)
        /\ Len(Tail(todo)) = Len(todo) - 1
        /\ \A i \in 1..Len(Tail(todo)) : Tail(todo)[i] = todo[i + 1]
    BY <1>1
  <2>3. Tail(todo) # <<>>
    <3>1. Len(Tail(todo)) # 0
      BY <1>1, <1>3, <2>2
    <3> QED BY <2>2, <3>1, EmptySeq
  <2>4. ASSUME NEW i \in 1..Len(Tail(todo))
        PROVE  /\ i + 1 \in 1..Len(todo) /\ Tail(todo)[i] = todo[i + 1]
               /\ todo[i + 1].id # Rec.id /\ todo[i + 1].id \in Batch
    <3>1. i + 1 \in 1..Len(todo) /\ 1 \in 1..Len(todo) /\ i + 1 # 1
      BY <1>1, <2>2
    <3>2. Rec = todo[1] /\ todo[i + 1] \in RelayRecord
      BY <1>1, <3>1 DEF Rec
    <3> QED BY <2>2, <3>1, <3>2 DEF InHand, RelayRecord
  <2>5. Committed' = Committed
    BY DEF Committed
  <2>6. \A i \in 1..Len(Tail(todo)) :
          /\ Tail(todo)[i].id \in Committed'
          /\ Tail(todo)[i].attempts = event'[Tail(todo)[i].id].attempts
          /\ ~event'[Tail(todo)[i].id].published /\ ~event'[Tail(todo)[i].id].failed
    BY <2>4, <2>5 DEF InHand
  <2>7. \A i, j \in 1..Len(Tail(todo)) : Tail(todo)[i].id = Tail(todo)[j].id => i = j
    <3> SUFFICES ASSUME NEW i \in 1..Len(Tail(todo)), NEW j \in 1..Len(Tail(todo)),
                        Tail(todo)[i].id = Tail(todo)[j].id
                 PROVE  i = j
      OBVIOUS
    <3>1. i + 1 = j + 1
      BY <2>4 DEF InHand
    <3> QED BY <3>1, <1>1, <2>2
  <2> QED BY <2>1, <2>2, <2>3, <2>6, <2>7 DEF InHand, RelayPC
<1> QED BY <1>2, <1>3

LEMMA ObInvPoll ==
  ASSUME ObInv, RelayPoll
  PROVE  ObInv'
<1>1. ObTypes /\ CommittedOnce /\ AttemptsTell
  BY DEF ObInv
<1>2. PICK p \in Pending :
        relay' = [pc |-> "dispatch",
                  todo |-> [k \in 1..Len(p) |->
                             [id |-> order[p[k]], attempts |-> event[order[p[k]]].attempts]]]
  BY DEF RelayPoll
<1>3. UNCHANGED <<order, event, taken>>
  BY DEF RelayPoll
<1>4. PICK n \in 1..OutboxBatchSize : p \in [1..n -> DuePos]
  BY DEF Pending
<1>5. n \in Nat \ {0} /\ Len(p) = n
  BY <1>4, OutboxAssumption
<1>6. \A k \in 1..n :
        /\ p[k] \in 1..Len(order) /\ order[p[k]] \in Batch /\ order[p[k]] \in Committed
        /\ Waiting(order[p[k]])
  BY <1>1, <1>4 DEF DuePos, ObTypes, Committed
<1>7. \A j, k \in 1..n : order[p[j]] = order[p[k]] => j = k
  <2> SUFFICES ASSUME NEW j \in 1..n, NEW k \in 1..n, order[p[j]] = order[p[k]], j # k
               PROVE  FALSE
    OBVIOUS
  <2>1. p[j] = p[k]
    BY <1>1, <1>6 DEF CommittedOnce
  <2>2. p[j] \in Int /\ p[k] \in Int
    BY <1>6
  <2>3. j < k \/ k < j
    BY <1>5
  <2> QED BY <2>1, <2>2, <2>3, <1>5 DEF Pending
<1>8. \A k \in 1..n : event[order[p[k]]].attempts \in 0..OutboxMaxAttempts
  BY <1>1, <1>6 DEF ObTypes, EventRow
<1> DEFINE todo == [k \in 1..n |->
                     [id |-> order[p[k]], attempts |-> event[order[p[k]]].attempts]]
<1>9. todo \in Seq(RelayRecord) /\ Len(todo) = n /\ todo # <<>>
  <2>1. todo \in [1..n -> RelayRecord]
    BY <1>6, <1>8 DEF RelayRecord
  <2>2. todo \in Seq(RelayRecord) /\ Len(todo) = n
    <3> HIDE DEF todo
    <3> QED BY <2>1, <1>5, FunctionIsSeq
  <2> QED BY <2>2, <1>5, EmptySeq
<1>10. relay' = [pc |-> "dispatch", todo |-> todo]
  BY <1>2, <1>5
<1>11. ObTypes'
  BY <1>1, <1>3, <1>9, <1>10 DEF ObTypes, RelayPC
<1>12. Committed' = Committed
  BY <1>3 DEF Committed
<1>13. CommittedOnce' /\ AttemptsTell'
  BY <1>1, <1>3, <1>12 DEF CommittedOnce, AttemptsTell
<1>14. InHand'
  <2>1. \A i \in 1..n : todo[i].id = order[p[i]] /\ todo[i].attempts = event[order[p[i]]].attempts
    OBVIOUS
  <2> HIDE DEF todo
  <2> QED BY <1>3, <1>6, <1>7, <1>9, <1>10, <1>12, <2>1 DEF InHand, Waiting
<1>15. DispatchedIsTaken'
  BY <1>10 DEF DispatchedIsTaken
<1> QED BY <1>11, <1>13, <1>14, <1>15 DEF ObInv

LEMMA AfterFailureRow ==
  ASSUME NEW row \in EventRow, row.attempts + 1 \in 0..OutboxMaxAttempts, NEW permanent \in BOOLEAN
  PROVE  /\ AfterFailure(row, permanent) \in EventRow
         /\ AfterFailure(row, permanent).attempts = row.attempts + 1
         /\ AfterFailure(row, permanent).failed = (row.failed \/ permanent)
         /\ AfterFailure(row, permanent).published = row.published
<1>1. CASE permanent
  BY <1>1 DEF AfterFailure, EventRow
<1>2. CASE ~permanent
  BY <1>2 DEF AfterFailure, EventRow
<1> QED BY <1>1, <1>2

LEMMA ObInvMarks ==
  ASSUME ObInv, MarkPublished \/ MarkFailed \/ MarkLost
  PROVE  ObInv'
<1>1. ObTypes /\ CommittedOnce /\ AttemptsTell /\ InHand
  BY DEF ObInv
<1>2. relay.pc # "idle" /\ NextRecord /\ UNCHANGED <<order, taken>>
  BY DEF MarkPublished, MarkFailed, MarkLost
<1>3. /\ Rec \in RelayRecord /\ Rec.id \in Committed /\ Rec.id \in Batch
      /\ Rec.attempts = event[Rec.id].attempts
      /\ ~event[Rec.id].published /\ ~event[Rec.id].failed
  <2>1. relay.todo \in Seq(RelayRecord) /\ relay.todo # <<>>
    BY <1>1, <1>2 DEF InHand, ObTypes
  <2>2. 1 \in 1..Len(relay.todo) /\ Rec = relay.todo[1] /\ Rec \in RelayRecord
    BY <2>1 DEF Rec
  <2> QED BY <1>1, <2>2 DEF InHand, RelayRecord
<1> DEFINE row == event[Rec.id]
           failedRow == AfterFailure(row, GivesUp(Rec))
<1>a. row \in EventRow /\ row.attempts # OutboxMaxAttempts
  BY <1>1, <1>3 DEF AttemptsTell, ObTypes
<1>b. /\ failedRow \in EventRow
      /\ failedRow.attempts = row.attempts + 1
      /\ failedRow.failed <=> failedRow.attempts = OutboxMaxAttempts
      /\ ~failedRow.published
  <2>1. row.attempts \in 0..OutboxMaxAttempts
    BY <1>a DEF EventRow
  <2>2. row.attempts + 1 \in 0..OutboxMaxAttempts
    BY <1>a, <2>1, OutboxAssumption
  <2>3. GivesUp(Rec) \in BOOLEAN
    BY DEF GivesUp
  <2>4. GivesUp(Rec) <=> row.attempts + 1 = OutboxMaxAttempts
    BY <1>3, <2>1, <2>2, OutboxAssumption DEF GivesUp
  <2>5. /\ failedRow \in EventRow
        /\ failedRow.attempts = row.attempts + 1
        /\ failedRow.failed = (row.failed \/ GivesUp(Rec))
        /\ failedRow.published = row.published
    <3> HIDE DEF row
    <3> QED BY <1>a, <2>2, <2>3, AfterFailureRow
  <2> QED BY <1>3, <2>4, <2>5
<1>c. MarkFailed => event' = [event EXCEPT ![Rec.id] = failedRow]
  BY DEF MarkFailed
<1> HIDE DEF failedRow
<1>4. event' \in [Batch -> EventRow] /\ \A b \in Batch \ {Rec.id} : event'[b] = event[b]
  <2>1. CASE MarkPublished
    BY <1>1, <1>3, <1>a, <2>1 DEF MarkPublished, ObTypes, EventRow
  <2>2. CASE MarkFailed
    BY <1>1, <1>3, <1>b, <1>c, <2>2 DEF ObTypes
  <2>3. CASE MarkLost
    BY <1>1, <1>3, <2>3 DEF MarkLost, ObTypes
  <2> QED BY <2>1, <2>2, <2>3
<1>5. relay' \in [pc: RelayPC, todo: Seq(RelayRecord)] /\ InHand' /\ relay'.pc # "published"
  BY <1>1, <1>2, <1>4, NextRecordInHand
<1>6. AttemptsTell'
  <2>1. /\ event'[Rec.id].failed <=> event'[Rec.id].attempts = OutboxMaxAttempts
        /\ ~(event'[Rec.id].failed /\ event'[Rec.id].published)
    <3>1. CASE MarkPublished
      BY <1>1, <1>3, <1>a, <3>1 DEF MarkPublished, ObTypes, EventRow, AttemptsTell
    <3>2. CASE MarkFailed
      BY <1>1, <1>3, <1>b, <1>c, <3>2 DEF ObTypes
    <3>3. CASE MarkLost
      BY <1>1, <1>3, <3>3 DEF MarkLost, AttemptsTell
    <3> QED BY <3>1, <3>2, <3>3
  <2> QED BY <1>1, <1>4, <2>1 DEF AttemptsTell
<1>7. Committed' = Committed
  BY <1>2 DEF Committed
<1>8. CommittedOnce'
  BY <1>1, <1>2, <1>3, <1>4, <1>7 DEF CommittedOnce
<1>9. ObTypes' /\ DispatchedIsTaken'
  BY <1>1, <1>2, <1>4, <1>5 DEF ObTypes, DispatchedIsTaken
<1> QED BY <1>5, <1>6, <1>8, <1>9 DEF ObInv

LEMMA ObInvInsert ==
  ASSUME ObInv, NEW b \in Batch, Insert(b)
  PROVE  ObInv'
<1>1. ObTypes /\ CommittedOnce /\ AttemptsTell /\ InHand /\ DispatchedIsTaken
  BY DEF ObInv
<1>2. b \notin Committed /\ order' = Append(order, b) /\ UNCHANGED <<event, relay, taken>>
  BY DEF Insert, PublishTx
<1>3. Committed' = Committed \cup {b}
  BY <1>1, <1>2, CommittedGrows DEF ObTypes
<1>4. ObTypes'
  BY <1>1, <1>2 DEF ObTypes
<1>5. /\ Len(order) \in Nat /\ Len(order') = Len(order) + 1
      /\ order'[Len(order) + 1] = b
      /\ \A i \in 1..Len(order) : order'[i] = order[i] /\ order[i] \in Committed
  BY <1>1, <1>2 DEF ObTypes, Committed
<1>6. \A i \in 1..Len(order') : i \in 1..Len(order) \/ i = Len(order) + 1
  BY <1>5
<1>7. \A i, j \in 1..Len(order') : order'[i] = order'[j] => i = j
  BY <1>1, <1>2, <1>5, <1>6 DEF CommittedOnce
<1>8. CommittedOnce'
  BY <1>1, <1>2, <1>3, <1>7 DEF CommittedOnce
<1>9. AttemptsTell' /\ InHand'
  BY <1>1, <1>2, <1>3 DEF AttemptsTell, InHand
<1>10. DispatchedIsTaken'
  BY <1>1, <1>2 DEF DispatchedIsTaken, Rec
<1> QED BY <1>4, <1>8, <1>9, <1>10 DEF ObInv

LEMMA ObInvIndex ==
  ASSUME ObInv, (\E b \in Batch : IndexWrite(b)) \/ RelayDispatch
  PROVE  ObInv' /\ taken \subseteq taken' /\ UNCHANGED <<order, event>>
<1>1. ObTypes /\ CommittedOnce /\ AttemptsTell /\ InHand /\ DispatchedIsTaken
  BY DEF ObInv
<1>2. UNCHANGED <<order, event>> /\ Committed' = Committed
  BY DEF IndexWrite, RelayDispatch, Committed
<1>3. relay.pc = "dispatch" => Rec.id \in Committed
  <2> SUFFICES ASSUME relay.pc = "dispatch" PROVE Rec.id \in Committed
    OBVIOUS
  <2>1. relay.todo \in Seq(RelayRecord) /\ relay.todo # <<>>
    BY <1>1 DEF InHand, ObTypes
  <2>2. 1 \in 1..Len(relay.todo) /\ Rec = relay.todo[1]
    BY <2>1 DEF Rec
  <2> QED BY <1>1, <2>2 DEF InHand
<1>4. PICK c \in Committed : IndexOK(c) \/ IndexError(c)
  BY <1>3 DEF IndexWrite, RelayDispatch
<1>5. PICK D \in SUBSET {c} : taken' = taken \cup D
  BY <1>4 DEF IndexOK, IndexError
<1>6. taken \subseteq taken' /\ taken' \subseteq Committed
  BY <1>1, <1>5 DEF CommittedOnce
<1>7. /\ relay' \in [pc: RelayPC, todo: Seq(RelayRecord)] /\ relay'.todo = relay.todo
      /\ relay'.pc = "idle" <=> relay.pc = "idle"
  BY <1>1 DEF ObTypes, RelayPC, IndexWrite, RelayDispatch
<1>8. ObTypes' /\ CommittedOnce' /\ AttemptsTell' /\ InHand'
  BY <1>1, <1>2, <1>6, <1>7, CommittedBatches
     DEF ObTypes, CommittedOnce, AttemptsTell, InHand
<1>9. DispatchedIsTaken'
  <2>1. Rec' = Rec
    BY <1>7 DEF Rec
  <2>2. CASE RelayDispatch
    <3>1. IndexOK(Rec.id) => Rec.id \in taken'
      BY DEF IndexOK
    <3>2. relay'.pc = "published" => IndexOK(Rec.id)
      BY <1>1, <2>2 DEF RelayDispatch, ObTypes
    <3> QED BY <2>1, <3>1, <3>2 DEF DispatchedIsTaken
  <2>3. CASE \E b \in Batch : IndexWrite(b)
    BY <1>1, <1>6, <2>1, <2>3 DEF DispatchedIsTaken, IndexWrite
  <2> QED BY <2>2, <2>3
<1> QED BY <1>2, <1>6, <1>8, <1>9 DEF ObInv

LEMMA ObInvBackoff ==
  ASSUME ObInv, NEW b \in Batch, BackoffElapses(b)
  PROVE  ObInv'
<1>1. ObTypes /\ CommittedOnce /\ AttemptsTell /\ InHand /\ DispatchedIsTaken
  BY DEF ObInv
<1>2. /\ event' \in [Batch -> EventRow] /\ \A c \in Batch \ {b} : event'[c] = event[c]
      /\ event'[b].attempts = event[b].attempts /\ event'[b].published = event[b].published
      /\ event'[b].failed = event[b].failed
      /\ b \in Committed
  BY <1>1 DEF BackoffElapses, ObTypes, EventRow
<1>3. UNCHANGED <<order, relay, taken>> /\ Committed' = Committed
  BY DEF BackoffElapses, Committed
<1>4. ObTypes' /\ CommittedOnce'
  BY <1>1, <1>2, <1>3 DEF ObTypes, CommittedOnce
<1>5. AttemptsTell'
  BY <1>1, <1>2 DEF AttemptsTell
<1>6. InHand'
  <2>1. \A c \in Batch : /\ event'[c].attempts = event[c].attempts
                         /\ event'[c].published = event[c].published
                         /\ event'[c].failed = event[c].failed
    BY <1>2
  <2> QED BY <1>1, <1>3, <2>1, CommittedBatches DEF ObTypes, InHand
<1>7. DispatchedIsTaken'
  BY <1>1, <1>3 DEF DispatchedIsTaken, Rec
<1> QED BY <1>4, <1>5, <1>6, <1>7 DEF ObInv

LEMMA ObInvDies ==
  ASSUME ObInv, RelayDies
  PROVE  ObInv'
<1>1. Committed' = Committed /\ UNCHANGED <<order, event, taken>>
  BY DEF RelayDies, Committed
<1>2. relay' \in [pc: RelayPC, todo: Seq(RelayRecord)] /\ relay'.pc = "idle" /\ relay'.todo = <<>>
  BY DEF RelayDies, RelayIdle, RelayPC
<1>3. ObTypes' /\ CommittedOnce' /\ AttemptsTell' /\ DispatchedIsTaken'
  BY <1>1, <1>2 DEF ObInv, ObTypes, CommittedOnce, AttemptsTell, DispatchedIsTaken
<1>4. InHand'
  BY <1>2 DEF InHand
<1> QED BY <1>3, <1>4 DEF ObInv

LEMMA ObInvStep ==
  ASSUME ObInv, ObStep \/ UNCHANGED obVars
  PROVE  ObInv'
<1>1. CASE UNCHANGED obVars
  <2>1. Committed' = Committed /\ UNCHANGED <<order, event, relay, taken>>
    BY <1>1 DEF obVars, Committed
  <2>2. ObTypes' /\ CommittedOnce' /\ AttemptsTell'
    BY <2>1 DEF ObInv, ObTypes, CommittedOnce, AttemptsTell
  <2>3. InHand' /\ DispatchedIsTaken'
    BY <2>1 DEF ObInv, InHand, DispatchedIsTaken, Rec
  <2> QED BY <2>2, <2>3 DEF ObInv
<1>2. CASE ObStep
  BY <1>2, ObInvInsert, ObInvIndex, ObInvBackoff, ObInvDies, ObInvPoll, ObInvMarks DEF ObStep
<1> QED BY <1>1, <1>2

(* ---- the outbox as a retry queue ---- *)

\* One job moves: what that means for the function the mapping builds.
LEMMA JobMoves ==
  ASSUME NEW b \in Batch, NEW st, JobState(b)' = st,
         \A c \in Batch \ {b} : UNCHANGED JobState(c)
  PROVE  [c \in Batch |-> JobState(c)]' = [[c \in Batch |-> JobState(c)] EXCEPT ![b] = st]
  OBVIOUS

LEMMA JobsStay ==
  ASSUME \A c \in Batch : UNCHANGED JobState(c)
  PROVE  UNCHANGED [c \in Batch |-> JobState(c)]
  OBVIOUS

LEMMA OutboxInitRefines == ObInit => OutboxQueue!RQInit
  BY DEF ObInit, OutboxQueue!RQInit, Committed, JobState

LEMMA InsertRefines ==
  ASSUME ObInv, NEW b \in Batch, Insert(b)
  PROVE  OutboxQueue!Enqueue(b)
<1>1. ObTypes /\ CommittedOnce
  BY DEF ObInv
<1>2. b \notin Committed /\ Committed' = Committed \cup {b} /\ UNCHANGED <<event, taken>>
  BY <1>1, CommittedGrows DEF Insert, PublishTx, ObTypes
<1>3. event[b] = NewEvent
  BY <1>1, <1>2 DEF CommittedOnce
<1>4. /\ JobState(b) = "absent" /\ JobState(b)' = "queued"
      /\ \A c \in Batch \ {b} : JobState(c)' = JobState(c)
  BY <1>2, <1>3 DEF JobState, NewEvent
<1> QED BY <1>2, <1>4, JobMoves DEF OutboxQueue!Enqueue

LEMMA IndexRefines ==
  ASSUME ObInv, (\E b \in Batch : IndexWrite(b)) \/ RelayDispatch
  PROVE  OutboxQueue!Effects
<1>1. taken \subseteq taken' /\ UNCHANGED <<order, event>>
  BY ObInvIndex
<1>2. Committed' = Committed /\ \A b : UNCHANGED JobState(b)
  BY <1>1 DEF Committed, JobState
<1>3. taken' \subseteq Committed
  BY <1>2, ObInvIndex DEF ObInv, CommittedOnce
<1>4. Committed \subseteq Batch
  BY CommittedBatches DEF ObInv, ObTypes
<1>5. taken' = taken \cup taken' /\ \A b \in taken' : b \in Batch /\ JobState(b) # "absent"
  BY <1>1, <1>3, <1>4 DEF JobState
<1> QED BY <1>2, <1>5, JobsStay DEF OutboxQueue!Effects

LEMMA MarksRefine ==
  ASSUME ObInv, MarkPublished \/ MarkFailed
  PROVE  \/ \E b \in Batch : OutboxQueue!Done(b) \/ OutboxQueue!Drop(b)
         \/ UNCHANGED OutboxQueue!rqVars
<1>1. ObTypes /\ InHand /\ DispatchedIsTaken
  BY DEF ObInv
<1>2. /\ Rec.id \in Committed /\ Rec.id \in Batch
      /\ ~event[Rec.id].published /\ ~event[Rec.id].failed
  <2>1. relay.todo \in Seq(RelayRecord) /\ relay.todo # <<>>
    BY <1>1 DEF InHand, ObTypes, MarkPublished, MarkFailed
  <2>2. 1 \in 1..Len(relay.todo) /\ Rec = relay.todo[1]
    BY <2>1 DEF Rec
  <2> QED BY <1>1, <2>2, CommittedBatches DEF InHand, ObTypes
<1>a. PICK j \in Batch : j = Rec.id
  BY <1>2
<1>3. UNCHANGED <<order, taken>> /\ Committed' = Committed
  BY DEF MarkPublished, MarkFailed, Committed
<1>4. \A b \in Batch \ {j} : event'[b] = event[b] /\ UNCHANGED JobState(b)
  BY <1>1, <1>3, <1>a DEF MarkPublished, MarkFailed, ObTypes, JobState
<1>5. JobState(j) = "queued"
  BY <1>2, <1>a DEF JobState
<1>6. CASE MarkPublished
  <2>1. JobState(j)' = "done"
    BY <1>1, <1>2, <1>a, <1>3, <1>6 DEF JobState, MarkPublished, ObTypes, EventRow
  <2>2. j \in taken
    BY <1>1, <1>a, <1>6 DEF MarkPublished, DispatchedIsTaken
  <2>3. OutboxQueue!Done(j)
    BY <1>2, <1>a, <1>3, <1>4, <1>5, <2>1, <2>2, JobMoves DEF OutboxQueue!Done, OutboxQueue!Open
  <2> QED BY <1>2, <1>a, <2>3
<1>7. CASE MarkFailed
  <2>1. JobState(j)' \in {"dropped", "queued"}
    <3>1. event'[j] = AfterFailure(event[j], GivesUp(Rec)) /\ event[j] \in EventRow
      BY <1>1, <1>2, <1>a, <1>7 DEF MarkFailed, ObTypes
    <3>2. event'[j].published = event[j].published
      BY <3>1 DEF AfterFailure, EventRow
    <3> QED BY <1>2, <1>a, <1>3, <3>2 DEF JobState
  <2>2. CASE JobState(j)' = "dropped"
    <3>1. OutboxQueue!Drop(j)
      BY <1>2, <1>a, <1>3, <1>4, <1>5, <2>2, JobMoves DEF OutboxQueue!Drop, OutboxQueue!Open
    <3> QED BY <1>2, <1>a, <3>1
  <2>3. CASE JobState(j)' = "queued"
    <3>1. \A b \in Batch : UNCHANGED JobState(b)
      BY <1>4, <1>5, <2>3
    <3> QED BY <1>3, <3>1, JobsStay DEF OutboxQueue!rqVars
  <2> QED BY <2>1, <2>2, <2>3
<1> QED BY <1>6, <1>7

LEMMA ObStepRefines ==
  ASSUME ObInv, ObStep \/ UNCHANGED obVars
  PROVE  [OutboxQueue!RQNext]_(OutboxQueue!rqVars)
<1>1. CASE \E b \in Batch : Insert(b)
  BY <1>1, InsertRefines DEF OutboxQueue!RQNext
<1>2. CASE (\E b \in Batch : IndexWrite(b)) \/ RelayDispatch
  BY <1>2, IndexRefines DEF OutboxQueue!RQNext
<1>3. CASE MarkPublished \/ MarkFailed
  BY <1>3, MarksRefine DEF OutboxQueue!RQNext
<1>4. CASE \E b \in Batch : BackoffElapses(b)
  <2>1. /\ UNCHANGED <<order, taken>>
        /\ \A c \in Batch : event'[c].published = event[c].published
                            /\ event'[c].failed = event[c].failed
    BY <1>4 DEF BackoffElapses, ObInv, ObTypes, EventRow
  <2>2. \A c \in Batch : UNCHANGED JobState(c)
    BY <2>1 DEF JobState, Committed
  <2> QED BY <2>1, <2>2, JobsStay DEF OutboxQueue!rqVars
<1>5. CASE RelayPoll \/ MarkLost \/ RelayDies \/ UNCHANGED obVars
  <2>1. UNCHANGED <<order, event, taken>>
    BY <1>5 DEF RelayPoll, MarkLost, RelayDies, obVars
  <2>2. \A c \in Batch : UNCHANGED JobState(c)
    BY <2>1 DEF JobState, Committed
  <2> QED BY <2>1, <2>2, JobsStay DEF OutboxQueue!rqVars
<1> QED BY <1>1, <1>2, <1>3, <1>4, <1>5 DEF ObStep

(* ---- assets and the goroutines of ReportResults ---- *)

PlTypes ==
  /\ rep \in [Batch -> [pc: RepPC, fresh: SUBSET Asset]]
  /\ alerted \subseteq HighBatch
  /\ pipelineFaults \in 0..MaxPipelineFaults
  /\ asset \in [Asset -> {"absent", "live", "gone"}]
  /\ stale \subseteq Asset /\ gone \subseteq Asset
  /\ assetEvents \in [AssetEventKind -> [Asset -> Nat]]
  /\ vanished \in [Asset -> 0..EventCap]

\* A goroutine of ReportResults works for a committed batch; it notifies only
\* for a batch with a high result, and holds new assets only until their events.
ReportsPlaced ==
  \A b \in Batch :
    /\ ~At(b, "idle") => b \in Committed
    /\ At(b, "high") => b \in HighBatch
    /\ ~At(b, "events") => rep[b].fresh = {}

\* An asset is fresh in the hands of at most one goroutine, and only before its
\* asset_new event; an absent asset has none.
FreshOnce ==
  \A a \in Asset :
    /\ asset[a] = "absent" => assetEvents["new"][a] = 0
    /\ assetEvents["new"][a] <= 1
    /\ \A b \in Batch : a \in rep[b].fresh =>
         /\ asset[a] # "absent" /\ assetEvents["new"][a] = 0
         /\ \A c \in Batch : a \in rep[c].fresh => c = b

\* An event of a disappearance is either inserted, or held by the sweep, or lost.
Told(a) == assetEvents["disappeared"][a] + (IF a \in gone THEN 1 ELSE 0)
TellsAll ==
  \A a \in Asset :
    /\ Told(a) <= vanished[a]
    /\ pipelineFaults = 0 => Told(a) = vanished[a]

\* Without faults, what a report is past it has done, and every asset that is
\* known has its asset_new event or is about to get it.
OwedSoFar ==
  pipelineFaults = 0 =>
    /\ \A b \in Committed :
         /\ b \in HighBatch /\ ~At(b, "high") => b \in alerted
         /\ ~At(b, "high") /\ ~At(b, "assets") => \A a \in AssetOf[b] : asset[a] # "absent"
    /\ \A a \in Asset : asset[a] # "absent" =>
         assetEvents["new"][a] > 0 \/ \E c \in Batch : a \in rep[c].fresh

PlInv == ObInv /\ PlTypes /\ ReportsPlaced /\ FreshOnce /\ TellsAll /\ OwedSoFar

LEMMA PlInvInit == PlInit => PlInv
<1> SUFFICES ASSUME PlInit PROVE PlInv
  OBVIOUS
<1>1. ObInv
  BY ObInvInit DEF PlInit
<1>2. Committed = {}
  BY DEF PlInit, ObInit, Committed
<1>3. PlTypes
  BY PipelineAssumption, EventCapAssumption DEF PlInit, AeInit, PlTypes, RepPC, RepIdle, AssetEventKind
<1>4. ReportsPlaced /\ FreshOnce /\ TellsAll
  BY DEF PlInit, AeInit, ReportsPlaced, FreshOnce, TellsAll, Told, At, RepIdle, AssetEventKind
<1>5. OwedSoFar
  BY <1>2 DEF PlInit, AeInit, OwedSoFar
<1> QED BY <1>1, <1>3, <1>4, <1>5 DEF PlInv

\* Every step of the pipeline does to the outbox what ObStep says.
LEMMA OutboxPart ==
  ASSUME PlInv, [PlNext]_plVars
  PROVE  ObStep \/ UNCHANGED obVars
<1>1. \A b \in Batch : IndexNow(b) => IndexWrite(b)
  BY DEF PlInv, ReportsPlaced, At, IndexNow, IndexWrite, IndexOK, IndexError
<1>2. \A b \in Batch : Commit(b) => Insert(b)
  BY DEF Commit, Insert, PublishTx
<1>3. ServerDies => RelayDies
  BY DEF ServerDies, RelayDies
<1> QED BY <1>1, <1>2, <1>3
     DEF PlNext, plVars, ObStep, obVars, ReportStep, NotifyHigh, DeriveAssets, NewAssetEvents,
         AssetsLost, OutboxStep, RelayStep, EventDue, RestOfAssets


Rest == ReportsPlaced /\ FreshOnce /\ TellsAll /\ OwedSoFar

\* The steps of the outbox leave assets and reports alone.
LEMMA RestOutbox ==
  ASSUME PlInv, UNCHANGED <<aeVars, rep, alerted>>, UNCHANGED Committed, Fault \/ NoFault
  PROVE  PlTypes' /\ Rest'
<1>1. /\ UNCHANGED <<asset, stale, assetEvents, gone, vanished>>
      /\ pipelineFaults' \in 0..MaxPipelineFaults
      /\ pipelineFaults' = 0 => pipelineFaults = 0
  BY PipelineAssumption DEF aeVars, PlInv, PlTypes, Fault, NoFault
<1>2. PlTypes' /\ ReportsPlaced' /\ FreshOnce'
  BY <1>1 DEF PlInv, PlTypes, ReportsPlaced, FreshOnce, At
<1>3. TellsAll' /\ OwedSoFar'
  BY <1>1 DEF PlInv, TellsAll, Told, OwedSoFar, At
<1> QED BY <1>2, <1>3 DEF Rest

LEMMA RestCommit ==
  ASSUME PlInv, NEW b \in Batch, Commit(b)
  PROVE  PlTypes' /\ Rest'
<1>1. PlTypes /\ Rest /\ Committed \subseteq Batch
  BY CommittedBatches DEF PlInv, Rest, ObInv, ObTypes
<1>2. /\ b \notin Committed /\ Committed' = Committed \cup {b}
      /\ UNCHANGED <<asset, stale, assetEvents, gone, vanished, alerted, pipelineFaults>>
  BY CommittedGrows DEF Commit, PublishTx, PlInv, ObInv, ObTypes, aeVars, NoFault
<1>3. rep[b].fresh = {}
  BY <1>1, <1>2 DEF Rest, ReportsPlaced, At
<1>4. /\ rep' \in [Batch -> [pc: RepPC, fresh: SUBSET Asset]]
      /\ \A c \in Batch \ {b} : rep'[c] = rep[c]
      /\ \A c \in Batch : rep'[c].fresh = rep[c].fresh
      /\ rep'[b].pc = IF b \in HighBatch THEN "high" ELSE "assets"
  BY <1>1 DEF Commit, Goto, PlTypes, RepPC
<1>5. PlTypes'
  BY <1>1, <1>2, <1>4 DEF PlTypes
<1>6. ReportsPlaced'
  BY <1>1, <1>2, <1>3, <1>4 DEF Rest, ReportsPlaced, At
<1>7. FreshOnce' /\ TellsAll'
  BY <1>1, <1>2, <1>4 DEF Rest, FreshOnce, TellsAll, Told
<1>8. OwedSoFar'
  BY <1>1, <1>2, <1>4 DEF Rest, OwedSoFar, At
<1> QED BY <1>5, <1>6, <1>7, <1>8 DEF Rest

LEMMA RestNotifyHigh ==
  ASSUME PlInv, NEW b \in Batch, NotifyHigh(b)
  PROVE  PlTypes' /\ Rest'
<1>1. PlTypes /\ Rest /\ Committed \subseteq Batch
  BY CommittedBatches DEF PlInv, Rest, ObInv, ObTypes
<1>2. UNCHANGED <<order, asset, stale, assetEvents, gone, vanished>> /\ Committed' = Committed
  BY DEF NotifyHigh, obVars, aeVars, Committed
<1>3. /\ b \in HighBatch /\ b \in Committed /\ alerted' \subseteq HighBatch /\ alerted \subseteq alerted'
      /\ pipelineFaults' \in 0..MaxPipelineFaults
      /\ pipelineFaults' = 0 => pipelineFaults = 0 /\ b \in alerted'
  BY <1>1, PipelineAssumption DEF NotifyHigh, Rest, ReportsPlaced, At, PlTypes, Fault, NoFault
<1>4. /\ rep' \in [Batch -> [pc: RepPC, fresh: SUBSET Asset]]
      /\ \A c \in Batch \ {b} : rep'[c] = rep[c]
      /\ \A c \in Batch : rep'[c].fresh = rep[c].fresh
      /\ rep[b].pc = "high" /\ rep'[b].pc = "assets"
  BY <1>1 DEF NotifyHigh, At, Goto, PlTypes, RepPC
<1>5. PlTypes'
  BY <1>1, <1>2, <1>3, <1>4 DEF PlTypes
<1>6. ReportsPlaced'
  BY <1>1, <1>2, <1>3, <1>4 DEF Rest, ReportsPlaced, At
<1>7. FreshOnce' /\ TellsAll'
  BY <1>1, <1>2, <1>3, <1>4 DEF Rest, FreshOnce, TellsAll, Told
<1>8. OwedSoFar'
  BY <1>1, <1>2, <1>3, <1>4 DEF Rest, OwedSoFar, At
<1> QED BY <1>5, <1>6, <1>7, <1>8 DEF Rest

\* UpsertBulkReturning: what is new is fresh in this goroutine alone.
LEMMA RestDeriveAssets ==
  ASSUME PlInv, NEW b \in Batch, DeriveAssets(b)
  PROVE  PlTypes' /\ Rest'
<1> DEFINE new == IsNew(AssetOf[b])
<1>1. PlTypes /\ Rest /\ Committed \subseteq Batch
  BY CommittedBatches DEF PlInv, Rest, ObInv, ObTypes
<1>2. /\ UNCHANGED <<order, assetEvents, gone, vanished, alerted, pipelineFaults>>
      /\ Committed' = Committed
      /\ rep[b].pc = "assets" /\ rep[b].fresh = {} /\ b \in Committed
  BY <1>1 DEF DeriveAssets, obVars, Committed, NoFault, At, Rest, ReportsPlaced
<1>3. /\ AssetOf[b] \subseteq Asset /\ new \subseteq AssetOf[b]
      /\ \A a \in new : asset[a] = "absent"
      /\ \A a \in AssetOf[b] \ new : asset[a] # "absent"
  BY PipelineAssumption DEF IsNew
<1>4. /\ asset' \in [Asset -> {"absent", "live", "gone"}] /\ stale' \subseteq Asset
      /\ \A a \in AssetOf[b] : asset'[a] = "live"
      /\ \A a \in Asset \ AssetOf[b] : asset'[a] = asset[a]
  BY <1>1, <1>3 DEF DeriveAssets, UpsertAssets, PlTypes
<1>5. /\ rep' \in [Batch -> [pc: RepPC, fresh: SUBSET Asset]]
      /\ \A c \in Batch \ {b} : rep'[c] = rep[c]
      /\ rep'[b].fresh = new
      /\ rep'[b].pc = IF new = {} THEN "index" ELSE "events"
  <2>1. rep' = [rep EXCEPT ![b] = [pc |-> IF new = {} THEN "index" ELSE "events", fresh |-> new]]
    BY DEF DeriveAssets
  <2> HIDE DEF new
  <2> QED BY <1>1, <1>3, <2>1 DEF PlTypes, RepPC
<1> HIDE DEF new
<1>6. PlTypes'
  BY <1>1, <1>2, <1>4, <1>5 DEF PlTypes
<1>7. ReportsPlaced'
  BY <1>1, <1>2, <1>5 DEF Rest, ReportsPlaced, At
<1>8. FreshOnce'
  <2> SUFFICES ASSUME NEW a \in Asset
               PROVE  /\ asset'[a] = "absent" => assetEvents'["new"][a] = 0
                      /\ assetEvents'["new"][a] <= 1
                      /\ \A d \in Batch : a \in rep'[d].fresh =>
                           /\ asset'[a] # "absent" /\ assetEvents'["new"][a] = 0
                           /\ \A c \in Batch : a \in rep'[c].fresh => c = d
    BY DEF FreshOnce
  <2>1. CASE a \in new
    <3>1. \A c \in Batch : a \notin rep[c].fresh
      BY <1>1, <1>3, <2>1 DEF Rest, FreshOnce
    <3>2. assetEvents["new"][a] = 0 /\ asset'[a] = "live"
      BY <1>1, <1>3, <1>4, <2>1 DEF Rest, FreshOnce
    <3>3. \A c \in Batch : a \in rep'[c].fresh => c = b
      BY <1>5, <3>1
    <3> QED BY <1>2, <3>2, <3>3
  <2>2. CASE a \notin new
    <3>1. \A c \in Batch : a \in rep'[c].fresh => a \in rep[c].fresh
      BY <1>2, <1>5, <2>2
    <3>2. asset'[a] = "absent" => asset[a] = "absent"
      BY <1>3, <1>4
    <3>3. asset[a] # "absent" => asset'[a] # "absent"
      BY <1>3, <1>4
    <3> QED BY <1>1, <1>2, <3>1, <3>2, <3>3 DEF Rest, FreshOnce
  <2> QED BY <2>1, <2>2
<1>9. TellsAll'
  BY <1>1, <1>2 DEF Rest, TellsAll, Told
<1>10. OwedSoFar'
  <2> SUFFICES ASSUME pipelineFaults = 0 PROVE OwedSoFar'
    BY <1>2 DEF OwedSoFar
  <2>1. \A a \in Asset : asset'[a] # "absent" =>
          assetEvents'["new"][a] > 0 \/ \E c \in Batch : a \in rep'[c].fresh
    <3> SUFFICES ASSUME NEW a \in Asset, asset'[a] # "absent"
                 PROVE  assetEvents'["new"][a] > 0 \/ \E c \in Batch : a \in rep'[c].fresh
      OBVIOUS
    <3>1. CASE a \in new
      BY <1>5, <3>1
    <3>2. CASE a \notin new
      BY <1>1, <1>2, <1>3, <1>4, <1>5, <3>2 DEF Rest, OwedSoFar
    <3> QED BY <3>1, <3>2
  <2>2. \A c \in Committed :
          /\ c \in HighBatch /\ ~At(c, "high")' => c \in alerted
          /\ ~At(c, "high")' /\ ~At(c, "assets")' => \A a \in AssetOf[c] : asset'[a] # "absent"
    <3> SUFFICES ASSUME NEW c \in Committed
                 PROVE  /\ c \in HighBatch /\ rep'[c].pc # "high" => c \in alerted
                        /\ rep'[c].pc # "high" /\ rep'[c].pc # "assets" =>
                             \A a \in AssetOf[c] : asset'[a] # "absent"
      BY DEF At
    <3>1. c \in Batch /\ AssetOf[c] \subseteq Asset
      BY <1>1, PipelineAssumption
    <3>2. CASE c = b
      BY <1>1, <1>2, <1>4, <3>2 DEF Rest, OwedSoFar, At
    <3>3. CASE c # b
      BY <1>1, <1>2, <1>4, <1>5, <3>1, <3>3 DEF Rest, OwedSoFar, At
    <3> QED BY <3>2, <3>3
  <2> QED BY <1>2, <2>1, <2>2 DEF OwedSoFar
<1> QED BY <1>6, <1>7, <1>8, <1>9, <1>10 DEF Rest

LEMMA RestNewAssetEvents ==
  ASSUME PlInv, NEW b \in Batch, NewAssetEvents(b)
  PROVE  PlTypes' /\ Rest'
<1>1. PlTypes /\ Rest /\ Committed \subseteq Batch
  BY CommittedBatches DEF PlInv, Rest, ObInv, ObTypes
<1>2. /\ UNCHANGED <<order, asset, stale, gone, vanished, alerted, pipelineFaults>>
      /\ Committed' = Committed
      /\ rep[b].pc = "events" /\ rep[b].fresh \subseteq Asset /\ b \in Committed
  BY <1>1 DEF NewAssetEvents, obVars, Committed, NoFault, At, PlTypes, Rest, ReportsPlaced
<1>3. /\ assetEvents' \in [AssetEventKind -> [Asset -> Nat]]
      /\ assetEvents'["disappeared"] = assetEvents["disappeared"]
      /\ \A a \in rep[b].fresh : assetEvents'["new"][a] = assetEvents["new"][a] + 1
      /\ \A a \in Asset \ rep[b].fresh : assetEvents'["new"][a] = assetEvents["new"][a]
  BY <1>1, <1>2 DEF NewAssetEvents, InsertAssetEvents, Bumped, PlTypes, AssetEventKind
<1>4. /\ rep' \in [Batch -> [pc: RepPC, fresh: SUBSET Asset]]
      /\ \A c \in Batch \ {b} : rep'[c] = rep[c]
      /\ rep'[b].fresh = {} /\ rep'[b].pc = "index"
  BY <1>1 DEF NewAssetEvents, PlTypes, RepPC
<1>5. PlTypes'
  BY <1>1, <1>2, <1>3, <1>4 DEF PlTypes
<1>6. ReportsPlaced'
  BY <1>1, <1>2, <1>4 DEF Rest, ReportsPlaced, At
<1>7. FreshOnce'
  <2> SUFFICES ASSUME NEW a \in Asset
               PROVE  /\ asset'[a] = "absent" => assetEvents'["new"][a] = 0
                      /\ assetEvents'["new"][a] <= 1
                      /\ \A d \in Batch : a \in rep'[d].fresh =>
                           /\ asset'[a] # "absent" /\ assetEvents'["new"][a] = 0
                           /\ \A c \in Batch : a \in rep'[c].fresh => c = d
    BY DEF FreshOnce
  <2>1. CASE a \in rep[b].fresh
    <3>1. /\ asset[a] # "absent" /\ assetEvents["new"][a] = 0
          /\ \A c \in Batch : a \in rep[c].fresh => c = b
      BY <1>1, <2>1 DEF Rest, FreshOnce
    <3>2. \A c \in Batch : a \notin rep'[c].fresh
      BY <1>4, <3>1
    <3> QED BY <1>2, <1>3, <2>1, <3>1, <3>2
  <2>2. CASE a \notin rep[b].fresh
    <3>1. assetEvents'["new"][a] = assetEvents["new"][a] /\ asset'[a] = asset[a]
      BY <1>2, <1>3, <2>2
    <3>2. \A c \in Batch : a \in rep'[c].fresh => a \in rep[c].fresh
      BY <1>4, <2>2
    <3> QED BY <1>1, <3>1, <3>2 DEF Rest, FreshOnce
  <2> QED BY <2>1, <2>2
<1>8. TellsAll'
  BY <1>1, <1>2, <1>3 DEF Rest, TellsAll, Told
<1>9. OwedSoFar'
  <2> SUFFICES ASSUME pipelineFaults = 0 PROVE OwedSoFar'
    BY <1>2 DEF OwedSoFar
  <2>1. \A a \in Asset : asset'[a] # "absent" =>
          assetEvents'["new"][a] > 0 \/ \E c \in Batch : a \in rep'[c].fresh
    <3> SUFFICES ASSUME NEW a \in Asset, asset[a] # "absent"
                 PROVE  assetEvents'["new"][a] > 0 \/ \E c \in Batch : a \in rep'[c].fresh
      BY <1>2
    <3>1. assetEvents["new"][a] \in Nat
      BY <1>1 DEF PlTypes, AssetEventKind
    <3>2. CASE a \in rep[b].fresh
      BY <1>3, <3>1, <3>2
    <3>3. CASE a \notin rep[b].fresh
      BY <1>1, <1>3, <1>4, <3>3 DEF Rest, OwedSoFar
    <3> QED BY <3>2, <3>3
  <2>2. \A c \in Committed : c \in Batch /\ rep'[c].pc # "high" /\ rep'[c].pc # "assets" =>
          rep[c].pc # "high" /\ rep[c].pc # "assets"
    BY <1>2, <1>4
  <2>3. \A c \in Committed : rep'[c].pc # "high" => rep[c].pc # "high"
    BY <1>1, <1>2, <1>4
  <2> QED BY <1>1, <1>2, <2>1, <2>2, <2>3 DEF Rest, OwedSoFar, At
<1> QED BY <1>5, <1>6, <1>7, <1>8, <1>9 DEF Rest

\* After a failing statement nothing is promised any more but uniqueness.
LEMMA RestAssetsLost ==
  ASSUME PlInv, NEW b \in Batch, AssetsLost(b)
  PROVE  PlTypes' /\ Rest'
<1>1. PlTypes /\ Rest
  BY DEF PlInv, Rest
<1>2. /\ UNCHANGED <<order, asset, stale, assetEvents, gone, vanished, alerted>>
      /\ Committed' = Committed /\ b \in Committed
      /\ pipelineFaults' \in 0..MaxPipelineFaults /\ pipelineFaults' # 0
  BY <1>1, PipelineAssumption
     DEF AssetsLost, obVars, aeVars, Committed, Fault, At, PlTypes, Rest, ReportsPlaced
<1>3. /\ rep' \in [Batch -> [pc: RepPC, fresh: SUBSET Asset]]
      /\ \A c \in Batch \ {b} : rep'[c] = rep[c]
      /\ rep'[b].fresh = {} /\ rep'[b].pc = "index"
  BY <1>1 DEF AssetsLost, PlTypes, RepPC
<1>4. PlTypes' /\ ReportsPlaced'
  BY <1>1, <1>2, <1>3 DEF PlTypes, Rest, ReportsPlaced, At
<1>5. FreshOnce' /\ TellsAll' /\ OwedSoFar'
  BY <1>1, <1>2, <1>3 DEF Rest, FreshOnce, TellsAll, Told, OwedSoFar
<1> QED BY <1>4, <1>5 DEF Rest

LEMMA RestIndexNow ==
  ASSUME PlInv, NEW b \in Batch, IndexNow(b)
  PROVE  PlTypes' /\ Rest'
<1>1. PlTypes /\ Rest /\ Committed \subseteq Batch
  BY CommittedBatches DEF PlInv, Rest, ObInv, ObTypes
<1>2. /\ UNCHANGED <<order, asset, stale, assetEvents, gone, vanished, alerted, pipelineFaults>>
      /\ Committed' = Committed /\ b \in Committed
      /\ rep[b].pc = "index" /\ rep[b].fresh = {}
  BY <1>1 DEF IndexNow, aeVars, Committed, NoFault, At, Rest, ReportsPlaced
<1>3. /\ rep' \in [Batch -> [pc: RepPC, fresh: SUBSET Asset]]
      /\ \A c \in Batch \ {b} : rep'[c] = rep[c]
      /\ rep'[b].fresh = {} /\ rep'[b].pc = "idle"
  BY <1>1 DEF IndexNow, PlTypes, RepPC, RepIdle
<1>4. PlTypes' /\ ReportsPlaced'
  BY <1>1, <1>2, <1>3 DEF PlTypes, Rest, ReportsPlaced, At
<1>5. FreshOnce' /\ TellsAll'
  BY <1>1, <1>2, <1>3 DEF Rest, FreshOnce, TellsAll, Told
<1>6. OwedSoFar'
  <2>1. \A c \in Batch : rep'[c].fresh = rep[c].fresh
    BY <1>2, <1>3
  <2>2. \A c \in Batch : /\ rep'[c].pc # "high" => rep[c].pc # "high"
                         /\ rep'[c].pc # "assets" => rep[c].pc # "assets"
    BY <1>2, <1>3
  <2> QED BY <1>1, <1>2, <2>1, <2>2 DEF Rest, OwedSoFar, At
<1> QED BY <1>4, <1>5, <1>6 DEF Rest

\* The sweep of assets and the passing of time: no report moves.
AssetStep ==
  \/ \E a \in Asset : Ages(a) /\ NoFault /\ RestOfAssets
  \/ MarkDisappeared /\ NoFault /\ RestOfAssets
  \/ DisappearedLost /\ Fault /\ RestOfAssets
  \/ TellDisappeared /\ NoFault /\ RestOfAssets

LEMMA RestAssetStep ==
  ASSUME PlInv, AssetStep
  PROVE  PlTypes' /\ Rest'
<1>1. PlTypes /\ Rest
  BY DEF PlInv, Rest
<1>2. /\ UNCHANGED <<order, rep, alerted>> /\ Committed' = Committed
      /\ pipelineFaults' \in 0..MaxPipelineFaults
      /\ pipelineFaults' = 0 => pipelineFaults = 0
  BY <1>1, PipelineAssumption
     DEF AssetStep, RestOfAssets, obVars, Committed, Fault, NoFault, PlTypes
<1>3. /\ asset' \in [Asset -> {"absent", "live", "gone"}] /\ stale' \subseteq Asset
      /\ \A a \in Asset : asset'[a] = "absent" <=> asset[a] = "absent"
  BY <1>1 DEF AssetStep, Ages, MarkDisappeared, Disappearing, DisappearedLost, TellDisappeared, PlTypes
<1>4. /\ assetEvents' \in [AssetEventKind -> [Asset -> Nat]]
      /\ assetEvents'["new"] = assetEvents["new"]
  BY <1>1 DEF AssetStep, Ages, MarkDisappeared, DisappearedLost, TellDisappeared, PlTypes,
     InsertAssetEvents, Bumped, AssetEventKind
<1>5. ReportsPlaced' /\ FreshOnce' /\ OwedSoFar'
  <2>1. ReportsPlaced' /\ FreshOnce'
    BY <1>1, <1>2, <1>3, <1>4 DEF Rest, ReportsPlaced, FreshOnce, At
  <2>2. \A b \in Committed : AssetOf[b] \subseteq Asset
    BY PipelineAssumption, CommittedBatches DEF PlInv, ObInv, ObTypes
  <2>3. OwedSoFar'
    BY <1>1, <1>2, <1>3, <1>4, <2>2 DEF Rest, OwedSoFar, At
  <2> QED BY <2>1, <2>3
<1>6. gone' \subseteq Asset /\ vanished' \in [Asset -> 0..EventCap] /\ TellsAll'
  <2>1. CASE \E a \in Asset : Ages(a) /\ NoFault
    BY <1>1, <1>2, <2>1 DEF Ages, NoFault, PlTypes, Rest, TellsAll, Told
  <2>2. CASE MarkDisappeared /\ NoFault
    <3>1. /\ gone = {} /\ gone' = Disappearing /\ Disappearing \subseteq Asset
          /\ assetEvents' = assetEvents
          /\ \A a \in Asset : vanished'[a] = IF a \in Disappearing THEN vanished[a] + 1 ELSE vanished[a]
      BY <1>1, <2>2 DEF MarkDisappeared, Disappearing, PlTypes
    <3>2. \A a \in Disappearing : vanished[a] < EventCap
      BY <2>2 DEF MarkDisappeared, Disappearing
    <3>3. vanished' \in [Asset -> 0..EventCap]
      BY <1>1, <2>2, <3>1, <3>2, EventCapAssumption DEF MarkDisappeared, PlTypes
    <3>4. \A a \in Asset : assetEvents["disappeared"][a] \in Nat /\ vanished[a] \in Nat
      BY <1>1 DEF PlTypes, AssetEventKind
    <3> QED BY <1>1, <2>2, <3>1, <3>3, <3>4 DEF Rest, TellsAll, Told, NoFault
  <2>3. CASE DisappearedLost /\ Fault
    <3>1. \A a \in Asset : assetEvents["disappeared"][a] \in Nat /\ vanished[a] \in Nat
      BY <1>1 DEF PlTypes, AssetEventKind
    <3>2. pipelineFaults' # 0
      BY <1>1, <2>3 DEF Fault, PlTypes
    <3> QED BY <1>1, <2>3, <3>1, <3>2 DEF DisappearedLost, PlTypes, Rest, TellsAll, Told
  <2>4. CASE TellDisappeared /\ NoFault
    <3>1. /\ \A a \in gone : assetEvents'["disappeared"][a] = assetEvents["disappeared"][a] + 1
          /\ \A a \in Asset \ gone : assetEvents'["disappeared"][a] = assetEvents["disappeared"][a]
      BY <1>1, <2>4 DEF TellDisappeared, InsertAssetEvents, Bumped, PlTypes, AssetEventKind
    <3>2. \A a \in Asset : assetEvents["disappeared"][a] \in Nat /\ vanished[a] \in Nat
      BY <1>1 DEF PlTypes, AssetEventKind
    <3> QED BY <1>1, <2>4, <3>1, <3>2 DEF TellDisappeared, NoFault, PlTypes, Rest, TellsAll, Told
  <2> QED BY <2>1, <2>2, <2>3, <2>4 DEF AssetStep
<1>7. PlTypes'
  BY <1>1, <1>2, <1>3, <1>4, <1>6 DEF PlTypes
<1> QED BY <1>5, <1>6, <1>7 DEF Rest

LEMMA RestServerDies ==
  ASSUME PlInv, ServerDies
  PROVE  PlTypes' /\ Rest'
<1>1. PlTypes /\ Rest
  BY DEF PlInv, Rest
<1>2. /\ UNCHANGED <<asset, stale, assetEvents, vanished, alerted>> /\ gone' = {}
      /\ pipelineFaults' \in 0..MaxPipelineFaults /\ pipelineFaults' # 0
  BY <1>1, PipelineAssumption DEF ServerDies, Fault, PlTypes
<1>3. /\ rep' \in [Batch -> [pc: RepPC, fresh: SUBSET Asset]]
      /\ \A c \in Batch : rep'[c].pc = "idle" /\ rep'[c].fresh = {}
  BY DEF ServerDies, RepIdle, RepPC
<1>4. PlTypes' /\ ReportsPlaced'
  BY <1>1, <1>2, <1>3 DEF PlTypes, ReportsPlaced, At
<1>5. FreshOnce'
  BY <1>1, <1>2, <1>3 DEF Rest, FreshOnce
<1>6. TellsAll' /\ OwedSoFar'
  <2>1. \A a \in Asset : assetEvents["disappeared"][a] \in Nat /\ vanished[a] \in Nat
    BY <1>1 DEF PlTypes, AssetEventKind
  <2> QED BY <1>1, <1>2, <2>1 DEF Rest, TellsAll, Told, OwedSoFar
<1> QED BY <1>4, <1>5, <1>6 DEF Rest

LEMMA PlInvStep ==
  ASSUME PlInv, [PlNext]_plVars
  PROVE  PlInv'
<1>1. ObInv'
  BY OutboxPart, ObInvStep DEF PlInv
<1>2. PlTypes' /\ Rest'
  <2>1. CASE \E b \in Batch : ReportStep(b)
    BY <2>1, RestCommit, RestNotifyHigh, RestDeriveAssets, RestNewAssetEvents, RestAssetsLost,
       RestIndexNow DEF ReportStep
  <2>2. CASE AssetStep
    BY <2>2, RestAssetStep
  <2>3. CASE ServerDies
    BY <2>3, RestServerDies
  <2>4. CASE OutboxStep \/ (\E b \in Batch : EventDue(b)) \/ (MarkLost /\ Fault /\ RestOfOutbox)
    <3>1. UNCHANGED <<order, aeVars, rep, alerted>> /\ (Fault \/ NoFault)
      BY <2>4 DEF OutboxStep, RelayStep, RelayPoll, RelayDispatch, MarkPublished, MarkFailed,
         MarkLost, EventDue, BackoffElapses, RestOfOutbox
    <3> QED BY <3>1, RestOutbox DEF Committed
  <2>5. CASE UNCHANGED plVars
    BY <2>5, RestOutbox DEF plVars, obVars, Committed, NoFault
  <2> QED BY <2>1, <2>2, <2>3, <2>4, <2>5 DEF PlNext, AssetStep
<1> QED BY <1>1, <1>2 DEF PlInv, Rest

LEMMA PlInvInvariant == PlSpec => []PlInv
  BY PlInvInit, PlInvStep, PTL DEF PlSpec

(* ---- theorems ---- *)

\* The tables of the outbox and of the assets, and the locals of the relay and
\* of every goroutine of ReportResults, hold values of their types (outbox.go,
\* relay.go, asset/service.go, scan/service.go).
THEOREM PipelineTypes == PlSpec => []PlTypeOK
<1>1. PlInv => PlTypeOK
  <2> SUFFICES ASSUME PlInv PROVE PlTypeOK
    OBVIOUS
  <2>1. ObTypeOK
    BY DEF PlInv, ObInv, ObTypes, InHand, ObTypeOK
  <2>2. assetEvents \in [AssetEventKind -> [Asset -> 0..EventCap]]
    <3>1. \A a \in Asset : assetEvents["new"][a] \in 0..EventCap
      BY EventCapAssumption DEF PlInv, PlTypes, FreshOnce, AssetEventKind
    <3>2. \A a \in Asset : assetEvents["disappeared"][a] \in 0..EventCap
      BY EventCapAssumption DEF PlInv, PlTypes, TellsAll, Told, AssetEventKind
    <3>3. /\ assetEvents["new"] \in [Asset -> 0..EventCap]
          /\ assetEvents["disappeared"] \in [Asset -> 0..EventCap]
      BY <3>1, <3>2 DEF PlInv, PlTypes, AssetEventKind
    <3> QED BY <3>3 DEF PlInv, PlTypes, AssetEventKind
  <2> QED BY <2>1, <2>2 DEF PlInv, PlTypes, PlTypeOK, AeTypeOK
<1> QED BY <1>1, PlInvInvariant, PTL

\* However many reports upsert an asset at once, and wherever they crash, at
\* most one asset_new event is inserted for it (UpsertFromResults).
THEOREM NewAssetOnce == PlSpec => []NewAssetToldOnce
<1>1. PlInv => NewAssetToldOnce
  BY DEF PlInv, FreshOnce, NewAssetToldOnce
<1> QED BY <1>1, PlInvInvariant, PTL

\* The disappearance sweep never tells more disappearances than there were,
\* and without faults all of them (SweepDisappeared).
THEOREM DisappearancesCounted == PlSpec => []DisappearanceTold
<1>1. PlInv => DisappearanceTold
  <2> SUFFICES ASSUME PlInv, NEW a \in Asset
               PROVE  /\ assetEvents["disappeared"][a] <= vanished[a]
                      /\ pipelineFaults = 0 /\ a \notin gone =>
                           assetEvents["disappeared"][a] = vanished[a]
    BY DEF DisappearanceTold
  <2>1. assetEvents["disappeared"][a] \in Nat /\ vanished[a] \in Nat
    BY DEF PlInv, PlTypes, AssetEventKind
  <2> QED BY <2>1 DEF PlInv, TellsAll, Told
<1> QED BY <1>1, PlInvInvariant, PTL

\* Without faults a finished report has alerted its subscribers, and each of
\* its assets has its asset_new event or another report is about to insert it.
THEOREM ReportsOweNothing == PlSpec => []NothingOwed
<1>1. PlInv => NothingOwed
  <2> SUFFICES ASSUME PlInv, pipelineFaults = 0, NEW b \in Committed, At(b, "idle")
               PROVE  /\ b \in HighBatch => b \in alerted
                      /\ \A a \in AssetOf[b] :
                           assetEvents["new"][a] > 0 \/ \E c \in Batch : a \in rep[c].fresh
    BY DEF NothingOwed
  <2>1. AssetOf[b] \subseteq Asset
    BY PipelineAssumption, CommittedBatches DEF PlInv, ObInv, ObTypes
  <2> QED BY <2>1 DEF PlInv, OwedSoFar, At
<1> QED BY <1>1, PlInvInvariant, PTL

\* A row of the outbox is given up exactly when its attempts are used up, and
\* no published row is, whichever marks were lost (relay.go, MarkFailed).
THEOREM GivenUpOnlyAtTheLimit == PlSpec => []GivenUpAtTheLimit
<1>1. PlInv => GivenUpAtTheLimit
  BY CommittedBatches DEF PlInv, ObInv, ObTypes, AttemptsTell, GivenUpAtTheLimit
<1> QED BY <1>1, PlInvInvariant, PTL

\* outbox_events with its relay implements the retry queue, crashes and lost
\* marks included: a row is marked published only after the search engine has
\* carried out the bulk request of its batch (not: after it has taken every
\* document of it, for Index does not read the errors of single documents).
THEOREM OutboxImplementsQueue == PlSpec => OutboxQueue!RQSpec
<1>1. PlInit => OutboxQueue!RQInit
  BY OutboxInitRefines DEF PlInit
<1>2. PlInv /\ [PlNext]_plVars => [OutboxQueue!RQNext]_(OutboxQueue!rqVars)
  BY OutboxPart, ObStepRefines DEF PlInv
<1> QED BY <1>1, <1>2, PlInvInvariant, PTL DEF PlSpec, OutboxQueue!RQSpec
=============================================================================
