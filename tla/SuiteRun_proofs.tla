--------------------------- MODULE SuiteRun_proofs ---------------------------
(***************************************************************************)
(* Theorems about SuiteRun.  A task of the chain is created by a goroutine *)
(* that either inserted the run or won the compare-and-set of its step.    *)
(* The inductive invariant SInv says that there is at most one such        *)
(* goroutine, and that the step it is about to create has no task yet.     *)
(***************************************************************************)
EXTENDS SuiteRun, TLAPS

\* What is true of a goroutine's locals r whatever the others do.
Fits(r) ==
  /\ r.op = "run" => r.pc \in {"create", "write"}
  /\ r.pc \in {"suite", "list", "legacy", "advance", "create", "write"}
       => r.seen.status \notin TerminalRun
  /\ r.pc = "advance" =>
       HasNext(r.seen.step) /\ \E t \in Task : stepOf[t] = r.seen.step

\* The one goroutine that is creating a step.
Creates(w) ==
  wk[w].pc = "create" =>
    /\ Wanted(w) = run.step
    /\ \A t \in Task : stepOf[t] # run.step
    /\ \A v \in Worker \ {w} : wk[v].pc # "create"

\* Before RunSuite nothing of the run exists.
Fresh ==
  run.status = "absent" =>
    /\ run.step = 0
    /\ \A t \in Task : stepOf[t] = NoStep
    /\ \A w \in Worker : wk[w].pc = "idle"

\* Only rows that exist belong to a step.
StepsExist == \A t \in Task : status[t] = "absent" => stepOf[t] = NoStep

SInv ==
  /\ TypeOK
  /\ StepOnce
  /\ StepsInOrder
  /\ StepsExist
  /\ Fresh
  /\ \A w \in Worker : Fits(wk[w]) /\ Creates(w)

LEMMA RowFacts ==
  /\ Step \subseteq Nat /\ 0 \in Step /\ NoStep \notin Step
  /\ \A i \in Step : HasNext(i) => i + 1 \in Step
  BY LastStepAssumption, NoStepAssumption DEF Step, HasNext

LEMMA IdleOK == Idle \in WorkerState /\ Fits(Idle) /\ Idle.pc = "idle"
  BY RowFacts DEF Idle, WorkerState, PC, NoRun, RunRow, RunStatus, Fits

\* A goroutine that goes on with locals r.
LEMMA LocalsMove ==
  ASSUME TypeOK, NEW w \in Worker, NEW r \in WorkerState, Locals(w, r)
  PROVE  /\ wk' \in [Worker -> WorkerState]
         /\ wk'[w] = r
         /\ \A v \in Worker \ {w} : wk'[v] = wk[v]
  BY DEF TypeOK, Locals

LEMMA PcMove ==
  ASSUME NEW q \in WorkerState, NEW c \in PC, NEW r, r = [q EXCEPT !.pc = c]
  PROVE  r \in WorkerState /\ r.pc = c /\ r.op = q.op /\ r.seen = q.seen
  BY DEF WorkerState

LEMMA NextMove ==
  ASSUME NEW q \in WorkerState, NEW s \in RunStatus,
         NEW r, r = [q EXCEPT !.pc = "write", !.next = s]
  PROVE  r \in WorkerState /\ r.pc = "write" /\ r.op = q.op /\ r.seen = q.seen
  BY DEF WorkerState, PC

\* Steps of one goroutine that create nothing and leave the chain alone.
LEMMA QuietStep ==
  ASSUME SInv, NEW w \in Worker, NEW r \in WorkerState, Locals(w, r),
         Fits(r), r.pc # "create", UNCHANGED stepOf,
         LifeType', \A t \in Task : status'[t] = "absent" => status[t] = "absent",
         run' \in RunRow, run'.step = run.step, run'.status # "absent",
         suiteDeleted' \in BOOLEAN, faults' \in 0..MaxFaults
  PROVE  SInv'
<1>1. /\ wk' \in [Worker -> WorkerState]
      /\ wk'[w] = r
      /\ \A v \in Worker \ {w} : wk'[v] = wk[v]
  BY LocalsMove DEF SInv
<1>2. TypeOK'
  BY <1>1 DEF SInv, TypeOK
<1>3. StepOnce' /\ StepsInOrder' /\ StepsExist' /\ Fresh'
  BY DEF SInv, StepOnce, StepsInOrder, StepsExist, Fresh
<1>4. ASSUME NEW v \in Worker PROVE Fits(wk[v])'
  BY <1>1 DEF SInv, Fits
<1>5. ASSUME NEW v \in Worker PROVE Creates(v)'
  BY <1>1 DEF SInv, Creates, Wanted
<1> QED
  BY <1>2, <1>3, <1>4, <1>5 DEF SInv

\* What the actions of TaskLife do to the rows.
LEMMA LifeStep ==
  ASSUME LifeType
  PROVE  /\ \A t \in Task : Insert(t) \/ Cancel(t) \/ Delete(t) => LifeType'
         /\ \A w \in Worker, t \in Task : Begin(w, t) => LifeType'
         /\ \A w \in Worker, s \in Aggregated : Conclude(w, s) => LifeType'
         /\ \A W \in SUBSET Worker : Forget(W) => LifeType'
<1>1. ASSUME NEW t \in Task, Insert(t) \/ Cancel(t) \/ Delete(t) PROVE LifeType'
  BY <1>1 DEF Insert, Cancel, Delete, LifeType, TaskStatus, TerminalTask
<1>2. ASSUME NEW w \in Worker, NEW t \in Task, Begin(w, t) PROVE LifeType'
  BY <1>2 DEF Begin, LifeType
<1>3. ASSUME NEW w \in Worker, NEW s \in Aggregated, Conclude(w, s) PROVE LifeType'
  <2>1. s \in TaskStatus
    BY DEF Aggregated, TaskStatus, TerminalTask
  <2> QED
    BY <1>3, <2>1 DEF Conclude, LifeType
<1>4. ASSUME NEW W \in SUBSET Worker, Forget(W) PROVE LifeType'
  BY <1>4 DEF Forget, LifeType
<1> QED
  BY <1>1, <1>2, <1>3, <1>4

LEMMA SInvInit == Init => SInv
<1> SUFFICES ASSUME Init PROVE SInv
  OBVIOUS
<1>1. TypeOK
  <2>1. LifeType
    BY DEF Init, LifeInit, LifeType
  <2>2. run \in RunRow
    BY RowFacts DEF Init, NoRun, RunRow
  <2>3. faults \in 0..MaxFaults
    BY MaxFaultsAssumption DEF Init
  <2>4. wk \in [Worker -> WorkerState] /\ stepOf \in [Task -> Step \cup {NoStep}]
    BY IdleOK DEF Init
  <2> QED
    BY <2>1, <2>2, <2>3, <2>4 DEF Init, TypeOK
<1>2. StepOnce /\ StepsInOrder /\ StepsExist /\ Fresh
  BY RowFacts, IdleOK DEF Init, StepOnce, StepsInOrder, StepsExist, Fresh, NoRun
<1>3. \A w \in Worker : Fits(wk[w]) /\ Creates(w)
  BY IdleOK DEF Init, Creates
<1> QED
  BY <1>1, <1>2, <1>3 DEF SInv

-----------------------------------------------------------------------------
(* The actions that create nothing *)

\* Steps of w that read the run's state and go on with r.
LEMMA ReadStep ==
  ASSUME SInv, NEW w \in Worker, NEW r \in WorkerState, Locals(w, r), Fits(r),
         r.pc # "create", UNCHANGED <<life, run, suiteDeleted, stepOf>>,
         faults' \in 0..MaxFaults, run.status # "absent"
  PROVE  SInv'
<1>1. LifeType' /\ \A t \in Task : status'[t] = "absent" => status[t] = "absent"
  BY DEF SInv, TypeOK, LifeType, life
<1>2. run' \in RunRow /\ suiteDeleted' \in BOOLEAN /\ faults' \in 0..MaxFaults
  BY DEF SInv, TypeOK
<1> QED
  BY <1>1, <1>2, QuietStep

LEMMA ServeStep ==
  ASSUME SInv, NEW w \in Worker,
         \/ CreateFails(w) \/ RunRead(w) \/ SuiteRead(w) \/ List(w) \/ Legacy(w)
         \/ RunWrite(w) \/ (Advance(w) /\ run.step # wk[w].seen.step)
  PROVE  SInv'
<1>w. wk[w] \in WorkerState /\ Fits(wk[w]) /\ run \in RunRow
  BY DEF SInv, TypeOK
<1>0. faults \in 0..MaxFaults
  BY DEF SInv, TypeOK
<1>f. wk[w].pc # "idle" /\ run.status # "absent"
  BY DEF SInv, Fresh, CreateFails, RunRead, SuiteRead, List, Legacy, RunWrite, Advance
<1>r. ASSUME Return(w), UNCHANGED <<life, run, suiteDeleted, stepOf, faults>>
      PROVE  SInv'
  BY <1>r, <1>0, <1>f, IdleOK, ReadStep DEF Return
<1>n. ASSUME NEW s \in RunStatus, WriteNext(w, s),
             UNCHANGED <<life, run, suiteDeleted, stepOf, faults>>,
             wk[w].pc \in {"list", "legacy", "create"}
      PROVE  SInv'
  <2>0. PICK r : r = [wk[w] EXCEPT !.pc = "write", !.next = s]
    OBVIOUS
  <2>1. r \in WorkerState /\ r.pc = "write" /\ r.op = wk[w].op /\ r.seen = wk[w].seen
    BY <1>w, <2>0, NextMove
  <2>2. Locals(w, r)
    BY <1>n, <2>0 DEF WriteNext
  <2>3. Fits(r)
    BY <1>w, <1>n, <2>1 DEF Fits
  <2>4. r.pc # "create"
    BY <2>1
  <2> QED
    BY <1>n, <1>0, <1>f, <2>1, <2>2, <2>3, <2>4, ReadStep, Zenon
<1>p. ASSUME NEW c \in PC, Locals(w, [wk[w] EXCEPT !.pc = c]),
             UNCHANGED <<life, run, suiteDeleted, stepOf>>, faults' \in 0..MaxFaults,
             \/ c \in {"list", "legacy"} /\ wk[w].pc = "suite"
             \/ /\ c = "advance" /\ wk[w].pc = "list" /\ HasNext(wk[w].seen.step)
                /\ \E t \in Task : stepOf[t] = wk[w].seen.step
      PROVE  SInv'
  <2>0. PICK r : r = [wk[w] EXCEPT !.pc = c]
    OBVIOUS
  <2>1. r \in WorkerState /\ r.pc = c /\ r.op = wk[w].op /\ r.seen = wk[w].seen
    BY <1>w, <2>0, PcMove
  <2>2. Locals(w, r)
    BY <1>p, <2>0
  <2>3. Fits(r)
    BY <1>w, <1>p, <2>1 DEF Fits
  <2>4. r.pc # "create"
    BY <1>p, <2>1
  <2> QED
    BY <1>p, <1>f, <2>1, <2>2, <2>3, <2>4, ReadStep, Zenon
<1>1. CASE CreateFails(w)
  BY <1>1, <1>n DEF CreateFails, RunStatus, TerminalRun
<1>2. CASE RunRead(w)
  <2>1. CASE run.status \in TerminalRun
    BY <1>2, <2>1, <1>r DEF RunRead
  <2>2. CASE run.status \notin TerminalRun
    <3>0. PICK x \in RunRow : x = run
      BY <1>w
    <3>r. PICK r : r = [wk[w] EXCEPT !.pc = "suite", !.seen = x]
      OBVIOUS
    <3>1. r \in WorkerState /\ r.pc = "suite" /\ r.op = wk[w].op /\ r.seen = x
      BY <1>w, <3>r DEF WorkerState, PC
    <3>2. Locals(w, r)
      BY <1>2, <2>2, <3>0, <3>r DEF RunRead
    <3>3. Fits(r)
      BY <1>w, <1>2, <2>2, <3>0, <3>1 DEF Fits, RunRead
    <3>4. r.pc # "create" /\ UNCHANGED <<life, run, suiteDeleted, stepOf, faults>>
      BY <1>2, <3>1 DEF RunRead
    <3> QED
      BY <1>0, <1>f, <3>1, <3>2, <3>3, <3>4, ReadStep, Zenon
  <2> QED
    BY <2>1, <2>2
<1>3. CASE SuiteRead(w)
  <2>1. \E c \in {"list", "legacy"} : Locals(w, [wk[w] EXCEPT !.pc = c])
    BY <1>3 DEF SuiteRead
  <2>2. faults' \in 0..MaxFaults
    BY <1>3, <1>0, MaxFaultsAssumption DEF SuiteRead
  <2> QED
    BY <1>3, <2>1, <2>2, <1>p DEF SuiteRead, PC
<1>4. CASE List(w)
  <2> DEFINE T == TasksOf({wk[w].seen.step})
  <2>1. EndOf(T) \in RunStatus /\ Progress(T) \in RunStatus /\ "completed" \in RunStatus
    BY DEF EndOf, Progress, RunStatus, TerminalRun
  <2>2. T # {} => \E t \in Task : stepOf[t] = wk[w].seen.step
    BY DEF TasksOf
  <2> HIDE DEF T
  <2>3. \/ Return(w)
        \/ \E s \in RunStatus : WriteNext(w, s)
        \/ T # {} /\ HasNext(wk[w].seen.step)
             /\ Locals(w, [wk[w] EXCEPT !.pc = "advance"])
    BY <1>4, <2>1 DEF List, WriteIfNew, T
  <2> QED
    BY <1>4, <1>0, <2>2, <2>3, <1>r, <1>n, <1>p DEF List, PC
<1>5. CASE Legacy(w)
  <2>1. \A T : EndOf(T) \in RunStatus /\ Progress(T) \in RunStatus
    BY DEF EndOf, Progress, RunStatus, TerminalRun
  <2>2. "completed" \in RunStatus
    BY DEF RunStatus, TerminalRun
  <2>3. Return(w) \/ \E s \in RunStatus : WriteNext(w, s)
    BY <1>5, <2>1, <2>2 DEF Legacy, WriteIfNew
  <2> QED
    BY <1>5, <2>3, <1>r, <1>n DEF Legacy
<1>6. CASE RunWrite(w)
  <2>1. wk[w].next \in RunStatus
    BY <1>w DEF WorkerState
  <2>2. run' \in RunRow /\ run'.step = run.step /\ run'.status # "absent"
    BY <1>6, <1>w, <2>1 DEF RunWrite, RunRow, RunStatus, TerminalRun
  <2>3. LifeType' /\ \A t \in Task : status'[t] = "absent" => status[t] = "absent"
    BY <1>6 DEF RunWrite, SInv, TypeOK, LifeType, life
  <2>4. suiteDeleted' \in BOOLEAN /\ faults' \in 0..MaxFaults /\ UNCHANGED stepOf
    BY <1>6 DEF RunWrite, SInv, TypeOK
  <2>5. Locals(w, Idle)
    BY <1>6 DEF RunWrite, Return
  <2> QED
    BY <2>2, <2>3, <2>4, <2>5, IdleOK, QuietStep
<1>7. CASE Advance(w) /\ run.step # wk[w].seen.step
  BY <1>7, <1>r DEF Advance
<1> QED
  BY <1>1, <1>2, <1>3, <1>4, <1>5, <1>6, <1>7

-----------------------------------------------------------------------------
(* The actions of a task's aggregation, of users, and crashes *)

LEMMA AggStep ==
  ASSUME SInv, NEW w \in Worker,
         \/ \E t \in Task : AggBegin(w, t)
         \/ AggConclude(w) \/ AggNoChange(w)
  PROVE  SInv'
<1>w. wk[w] \in WorkerState /\ Fits(wk[w]) /\ run \in RunRow /\ LifeType
  BY DEF SInv, TypeOK
<1>1. ASSUME NEW r \in WorkerState, Locals(w, r), Fits(r), r.pc # "create",
             UNCHANGED <<run, suiteDeleted, stepOf, faults>>, run.status # "absent",
             LifeType', \A t \in Task : status'[t] = "absent" => status[t] = "absent"
      PROVE  SInv'
  <2>1. run' \in RunRow /\ suiteDeleted' \in BOOLEAN /\ faults' \in 0..MaxFaults
    BY <1>1 DEF SInv, TypeOK
  <2> QED
    BY <1>1, <2>1, QuietStep
<1>2. ASSUME NEW t \in Task, AggBegin(w, t) PROVE SInv'
  <2>0. PICK r : r = [Idle EXCEPT !.op = "agg", !.pc = "task", !.was = status[t]]
    OBVIOUS
  <2>1. status[t] \in TaskStatus \cup {"absent"}
    BY <1>w DEF LifeType
  <2>2. /\ r \in WorkerState
        /\ r.pc = "task" /\ r.op = "agg"
    BY <2>0, <2>1, IdleOK DEF WorkerState, PC
  <2>3. Locals(w, r) /\ UNCHANGED <<run, suiteDeleted, stepOf, faults>>
    BY <1>2, <2>0 DEF AggBegin
  <2>4. Fits(r) /\ r.pc # "create"
    BY <2>2 DEF Fits
  <2>5. run.status # "absent"
    BY <1>2 DEF AggBegin, SInv, Fresh
  <2>6. LifeType' /\ \A u \in Task : status'[u] = "absent" => status[u] = "absent"
    BY <1>2, <1>w, LifeStep DEF AggBegin, Begin
  <2> QED
    BY <1>1, <2>2, <2>3, <2>4, <2>5, <2>6
<1>3. CASE AggConclude(w)
  <2>1. run.status # "absent"
    BY <1>3 DEF AggConclude, SInv, Fresh
  <2>2. PICK s \in Aggregated : Conclude(w, s)
    BY <1>3 DEF AggConclude
  <2>3. LifeType' /\ \A u \in Task : status'[u] = "absent" => status[u] = "absent"
    BY <1>w, <2>2, LifeStep DEF Conclude, Aggregated, LifeType
  <2>4. CASE Return(w)
    BY <1>1, <1>3, <2>1, <2>3, <2>4, IdleOK DEF Return, AggConclude
  <2>5. CASE Locals(w, [wk[w] EXCEPT !.pc = "read"])
    <3>0. PICK r : r = [wk[w] EXCEPT !.pc = "read"]
      OBVIOUS
    <3>1. r \in WorkerState /\ r.pc = "read" /\ r.op = wk[w].op
      BY <1>w, <3>0, PcMove DEF PC
    <3>2. Fits(r) /\ r.pc # "create"
      BY <1>w, <1>3, <3>1 DEF Fits, AggConclude
    <3> QED
      BY <1>1, <1>3, <2>1, <2>3, <2>5, <3>0, <3>1, <3>2 DEF AggConclude
  <2> QED
    BY <1>3, <2>4, <2>5 DEF AggConclude
<1>4. CASE AggNoChange(w)
  <2>1. run.status # "absent"
    BY <1>4 DEF AggNoChange, SInv, Fresh
  <2>2. LifeType' /\ UNCHANGED status
    BY <1>4, <1>w, LifeStep DEF AggNoChange, Forget
  <2> QED
    BY <1>1, <1>4, <2>1, <2>2, IdleOK DEF AggNoChange, Return
<1> QED
  BY <1>2, <1>3, <1>4

\* Users leave the goroutines alone, and the steps of the tasks.
LEMMA UserStep ==
  ASSUME SInv, \/ \E t \in Task : CancelTask(t) \/ DeleteTask(t)
               \/ DeleteSuite \/ UNCHANGED vars
  PROVE  SInv'
<1>1. /\ UNCHANGED <<run, stepOf, wk, faults>>
      /\ suiteDeleted' \in BOOLEAN
  BY DEF CancelTask, DeleteTask, DeleteSuite, vars, SInv, TypeOK
<1>2. LifeType' /\ \A t \in Task : status'[t] = "absent" => status[t] = "absent"
  <2>1. LifeType
    BY DEF SInv, TypeOK
  <2>2. ASSUME NEW t \in Task, CancelTask(t) \/ DeleteTask(t)
        PROVE  LifeType' /\ \A u \in Task : status'[u] = "absent" => status[u] = "absent"
    BY <2>1, <2>2, LifeStep DEF CancelTask, DeleteTask, Cancel, Delete, LifeType
  <2>3. CASE UNCHANGED life
    BY <2>1, <2>3 DEF life, LifeType
  <2> QED
    BY <2>2, <2>3 DEF DeleteSuite, vars, life
<1>3. TypeOK'
  BY <1>1, <1>2 DEF SInv, TypeOK
<1>4. StepOnce' /\ StepsInOrder' /\ StepsExist' /\ Fresh'
  BY <1>1, <1>2 DEF SInv, StepOnce, StepsInOrder, StepsExist, Fresh
<1>5. \A w \in Worker : Fits(wk[w])' /\ Creates(w)'
  BY <1>1 DEF SInv, Fits, Creates, Wanted
<1> QED
  BY <1>3, <1>4, <1>5 DEF SInv

LEMMA StopStep ==
  ASSUME SInv, NEW W \in SUBSET Worker, Stop(W)
  PROVE  SInv'
<1>1. wk' \in [Worker -> WorkerState]
      /\ \A v \in Worker : wk'[v] = Idle \/ wk'[v] = wk[v]
  BY IdleOK DEF Stop, SInv, TypeOK
<1>2. LifeType' /\ UNCHANGED <<status, run, suiteDeleted, stepOf>>
  BY LifeStep DEF Stop, Forget, SInv, TypeOK
<1>3. faults' \in 0..MaxFaults
  BY MaxFaultsAssumption DEF Stop, SInv, TypeOK
<1>4. TypeOK'
  BY <1>1, <1>2, <1>3 DEF SInv, TypeOK
<1>5. StepOnce' /\ StepsInOrder' /\ StepsExist'
  BY <1>2 DEF SInv, StepOnce, StepsInOrder, StepsExist
<1>6. Fresh'
  BY <1>1, <1>2, IdleOK DEF SInv, Fresh
<1>7. ASSUME NEW v \in Worker PROVE Fits(wk[v])' /\ Creates(v)'
  <2>1. Fits(wk[v])'
    BY <1>1, <1>2, IdleOK DEF SInv, Fits
  <2>2. Creates(v)'
    BY <1>1, <1>2, IdleOK DEF SInv, Creates, Wanted
  <2> QED
    BY <2>1, <2>2
<1> QED
  BY <1>4, <1>5, <1>6, <1>7 DEF SInv

-----------------------------------------------------------------------------
(* The actions that create *)

LEMMA RunSuiteStep ==
  ASSUME SInv, NEW w \in Worker, RunSuite(w)
  PROVE  SInv'
<1>0. PICK r : r = [Idle EXCEPT !.op = "run", !.pc = "create"]
  OBVIOUS
<1>1. /\ r \in WorkerState /\ r.op = "run" /\ r.pc = "create"
      /\ r.seen.status = "absent"
  BY <1>0, IdleOK DEF WorkerState, PC, Idle, NoRun
<1>2. /\ wk' \in [Worker -> WorkerState]
      /\ wk'[w] = r
      /\ \A v \in Worker \ {w} : wk'[v] = wk[v]
  BY <1>0, <1>1, LocalsMove DEF RunSuite, SInv
<1>3. /\ run' \in RunRow /\ run'.status = "pending" /\ run'.step = 0
      /\ UNCHANGED <<status, deleted, reading, suiteDeleted, stepOf, faults>>
  BY RowFacts DEF RunSuite, RunRow, RunStatus, life
<1>4. /\ \A t \in Task : stepOf[t] = NoStep
      /\ \A v \in Worker : wk[v].pc = "idle"
  BY DEF RunSuite, SInv, Fresh
<1>5. TypeOK'
  BY <1>2, <1>3 DEF SInv, TypeOK, LifeType
<1>6. StepOnce' /\ StepsInOrder' /\ StepsExist' /\ Fresh'
  BY <1>3, <1>4, RowFacts DEF SInv, StepOnce, StepsInOrder, StepsExist, Fresh, Step
<1>7. ASSUME NEW v \in Worker PROVE Fits(wk[v])' /\ Creates(v)'
  <2>1. CASE v = w
    BY <1>1, <1>2, <1>3, <1>4, <2>1, RowFacts DEF Fits, Creates, Wanted, TerminalRun
  <2>2. CASE v # w
    BY <1>2, <1>3, <1>4, <2>2 DEF SInv, Fits, Creates
  <2> QED
    BY <2>1, <2>2
<1> QED
  BY <1>5, <1>6, <1>7 DEF SInv

\* The task of the step that was missing: its creator is the only one.
LEMMA CreateStepStep ==
  ASSUME SInv, NEW w \in Worker, CreateStep(w)
  PROVE  SInv'
<1>w. wk[w] \in WorkerState /\ Fits(wk[w]) /\ run \in RunRow /\ LifeType
  BY DEF SInv, TypeOK
<1>1. PICK t \in Task : Insert(t) /\ stepOf' = [stepOf EXCEPT ![t] = Wanted(w)]
  BY DEF CreateStep
<1>2. /\ Wanted(w) = run.step
      /\ \A u \in Task : stepOf[u] # run.step
      /\ \A v \in Worker \ {w} : wk[v].pc # "create"
      /\ run.status # "absent"
  BY DEF CreateStep, SInv, Creates, Fresh
<1>3. stepOf[t] = NoStep /\ run.step \in Step
  BY <1>w, <1>1 DEF Insert, SInv, StepsExist, RunRow
<1>4. /\ stepOf' \in [Task -> Step \cup {NoStep}]
      /\ stepOf'[t] = run.step
      /\ \A u \in Task \ {t} : stepOf'[u] = stepOf[u]
  BY <1>1, <1>2, <1>3 DEF SInv, TypeOK
<1>5. PICK r \in WorkerState : Locals(w, r) /\ Fits(r) /\ r.pc # "create"
  <2>1. CASE Return(w)
    BY <2>1, IdleOK DEF Return
  <2>2. CASE WriteNext(w, "running")
    <3>1. PICK s \in RunStatus : s = "running"
      BY DEF RunStatus
    <3>0. PICK r : r = [wk[w] EXCEPT !.pc = "write", !.next = s]
      OBVIOUS
    <3>2. r \in WorkerState /\ r.pc = "write" /\ r.op = wk[w].op /\ r.seen = wk[w].seen
      BY <1>w, <3>0 DEF WorkerState, PC
    <3>3. Fits(r)
      BY <1>w, <3>2 DEF Fits, CreateStep
    <3> QED
      BY <2>2, <3>0, <3>1, <3>2, <3>3 DEF WriteNext
  <2> QED
    BY <2>1, <2>2 DEF CreateStep
<1>6. /\ wk' \in [Worker -> WorkerState]
      /\ wk'[w] = r
      /\ \A v \in Worker \ {w} : wk'[v] = wk[v]
  BY <1>5, LocalsMove DEF SInv
<1>7. TypeOK'
  <2>1. LifeType'
    BY <1>w, <1>1, LifeStep
  <2> QED
    BY <1>4, <1>6, <2>1 DEF CreateStep, SInv, TypeOK
<1>8. StepOnce'
  BY <1>2, <1>4 DEF SInv, StepOnce
<1>9. StepsInOrder'
  <2>1. run' = run
    BY DEF CreateStep
  <2>2. ASSUME NEW u \in Task, stepOf'[u] # NoStep PROVE stepOf'[u] <= run.step
    <3>1. CASE u = t
      <4>1. run.step \in Nat /\ stepOf'[u] = run.step
        BY <1>3, <1>4, <3>1, RowFacts
      <4> QED
        BY <4>1
    <3>2. CASE u # t
      BY <1>4, <2>2, <3>2 DEF SInv, StepsInOrder
    <3> QED
      BY <3>1, <3>2
  <2>3. ASSUME NEW i \in Step, i < run.step PROVE \E u \in Task : stepOf'[u] = i
    <3>1. PICK u \in Task : stepOf[u] = i
      BY <2>3 DEF SInv, StepsInOrder
    <3> QED
      BY <1>3, <1>4, <3>1, RowFacts
  <2> QED
    BY <2>1, <2>2, <2>3 DEF StepsInOrder
<1>10. StepsExist'
  BY <1>w, <1>1, <1>4 DEF Insert, SInv, StepsExist, LifeType
<1>11. Fresh'
  BY <1>2 DEF CreateStep, Fresh
<1>12. ASSUME NEW v \in Worker PROVE Fits(wk[v])'
  <2>1. \A i \in Step : (\E u \in Task : stepOf[u] = i) => \E u \in Task : stepOf'[u] = i
    BY <1>3, <1>4, RowFacts
  <2>2. \E x \in WorkerState : wk'[v] = x /\ Fits(x) /\ x.seen.step \in Step
    BY <1>5, <1>6 DEF SInv, TypeOK, WorkerState, RunRow
  <2> QED
    BY <2>1, <2>2 DEF Fits
<1>13. ASSUME NEW v \in Worker PROVE Creates(v)'
  BY <1>2, <1>5, <1>6 DEF Creates
<1> QED
  BY <1>7, <1>8, <1>9, <1>10, <1>11, <1>12, <1>13 DEF SInv

\* The compare-and-set that wins: nobody else is creating, for the step it
\* leaves behind has a task.
LEMMA AdvanceStep ==
  ASSUME SInv, NEW w \in Worker, Advance(w), run.step = wk[w].seen.step
  PROVE  SInv'
<1>w. wk[w] \in WorkerState /\ Fits(wk[w]) /\ run \in RunRow
  BY DEF SInv, TypeOK
<1>0. PICK r : r = [wk[w] EXCEPT !.pc = "create"]
  OBVIOUS
<1>1. r \in WorkerState /\ r.pc = "create" /\ r.op = wk[w].op /\ r.seen = wk[w].seen
  BY <1>w, <1>0, PcMove DEF PC
<1>2. /\ wk' \in [Worker -> WorkerState]
      /\ wk'[w] = r
      /\ \A v \in Worker \ {w} : wk'[v] = wk[v]
  BY <1>0, <1>1, LocalsMove DEF Advance, SInv
<1>3. /\ HasNext(run.step)
      /\ \E t \in Task : stepOf[t] = run.step
      /\ wk[w].op # "run" /\ run.status # "absent"
      /\ wk[w].seen.status \notin TerminalRun
  BY <1>w DEF Advance, Fits, SInv, Fresh
<1>4. \A v \in Worker : wk[v].pc # "create"
  BY <1>3 DEF SInv, Creates
<1>5. run.step \in Nat /\ run.step + 1 \in Step
  BY <1>w, <1>3, RowFacts DEF RunRow
<1>6. /\ run' \in RunRow /\ run'.step = run.step + 1 /\ run'.status = run.status
      /\ UNCHANGED <<status, deleted, reading, suiteDeleted, stepOf, faults>>
  BY <1>w, <1>5 DEF Advance, RunRow, life
<1>7. TypeOK'
  BY <1>2, <1>6 DEF SInv, TypeOK, LifeType
<1>8. StepOnce' /\ StepsExist' /\ Fresh'
  BY <1>3, <1>6 DEF SInv, StepOnce, StepsExist, Fresh
<1>9. StepsInOrder' /\ \A t \in Task : stepOf[t] # run.step + 1
  <2>1. ASSUME NEW t \in Task, stepOf[t] # NoStep
        PROVE  stepOf[t] \in Nat /\ stepOf[t] <= run.step
    BY <2>1, RowFacts DEF SInv, TypeOK, StepsInOrder
  <2>2. ASSUME NEW i \in Step, i < run.step + 1 PROVE \E t \in Task : stepOf[t] = i
    <3>1. i \in Nat /\ (i < run.step \/ i = run.step)
      BY <1>5, <2>2, RowFacts
    <3> QED
      BY <1>3, <3>1 DEF SInv, StepsInOrder
  <2>3. \A t \in Task : stepOf[t] # NoStep => stepOf[t] <= run.step + 1
    BY <1>5, <2>1
  <2>4. ASSUME NEW t \in Task PROVE stepOf[t] # run.step + 1
    <3>1. CASE stepOf[t] = NoStep
      BY <1>5, <3>1, RowFacts
    <3>2. CASE stepOf[t] # NoStep
      BY <1>5, <2>1, <3>2
    <3> QED
      BY <3>1, <3>2
  <2> QED
    BY <1>6, <2>2, <2>3, <2>4 DEF StepsInOrder
<1>10. ASSUME NEW v \in Worker PROVE Fits(wk[v])'
  BY <1>1, <1>2, <1>3, <1>6 DEF SInv, Fits
<1>11. ASSUME NEW v \in Worker PROVE Creates(v)'
  <2>1. CASE v = w
    <3>1. Wanted(w)' = run.step + 1
      BY <1>1, <1>2, <1>3 DEF Wanted
    <3> QED
      BY <1>2, <1>4, <1>6, <1>9, <2>1, <3>1 DEF Creates
  <2>2. CASE v # w
    BY <1>2, <1>4, <2>2 DEF Creates
  <2> QED
    BY <2>1, <2>2
<1> QED
  BY <1>7, <1>8, <1>9, <1>10, <1>11 DEF SInv

LEMMA SInvStep == SInv /\ [Next]_vars => SInv'
<1> SUFFICES ASSUME SInv, [Next]_vars PROVE SInv'
  OBVIOUS
<1>1. ASSUME NEW w \in Worker, RunSuite(w) PROVE SInv'
  BY <1>1, RunSuiteStep
<1>2. ASSUME NEW w \in Worker, Serve(w) PROVE SInv'
  <2>1. CASE CreateStep(w)
    BY <2>1, CreateStepStep
  <2>2. CASE Advance(w)
    BY <2>2, AdvanceStep, ServeStep
  <2>3. CASE AggConclude(w) \/ AggNoChange(w)
    BY <2>3, AggStep
  <2>4. CASE \/ CreateFails(w) \/ RunRead(w) \/ SuiteRead(w) \/ List(w)
             \/ Legacy(w) \/ RunWrite(w)
    BY <2>4, ServeStep
  <2> QED
    BY <1>2, <2>1, <2>2, <2>3, <2>4 DEF Serve
<1>3. ASSUME NEW w \in Worker, NEW t \in Task, AggBegin(w, t) PROVE SInv'
  BY <1>3, AggStep
<1>4. ASSUME NEW w \in Worker, Fail(w) PROVE SInv'
  BY <1>4, StopStep DEF Fail
<1>5. CASE ServerCrash
  BY <1>5, StopStep DEF ServerCrash
<1>6. CASE \/ \E t \in Task : CancelTask(t) \/ DeleteTask(t)
           \/ DeleteSuite \/ UNCHANGED vars
  BY <1>6, UserStep
<1> QED
  BY <1>1, <1>2, <1>3, <1>4, <1>5, <1>6 DEF Next

-----------------------------------------------------------------------------
(* The theorems *)

\* The inductive invariant holds in every reachable state.
THEOREM Invariant == Spec => []SInv
  BY SInvInit, SInvStep, PTL DEF Spec

\* Every variable keeps its type; in particular current_step never leaves the
\* suite's kinds, the case aggregateSuiteRunStatus guards against.
THEOREM TypeCorrect == Spec => []TypeOK
<1>1. SInv => TypeOK
  BY DEF SInv
<1> QED
  BY <1>1, Invariant, PTL

\* However many aggregations race and whatever they read before, the
\* compare-and-set of AdvanceCurrentStep lets each step get one task.
THEOREM StepCreatedOnce == Spec => []StepOnce
<1>1. SInv => StepOnce
  BY DEF SInv
<1> QED
  BY <1>1, Invariant, PTL

\* The chain has no hole and does not run ahead of current_step.
THEOREM ChainInOrder == Spec => []StepsInOrder
<1>1. SInv => StepsInOrder
  BY DEF SInv
<1> QED
  BY <1>1, Invariant, PTL

\* A run that has ended changes only through a goroutine that had read it
\* before it ended.
THEOREM EndedRunStays == Spec => EndedStaysEnded
<1>1. SInv /\ [Next]_vars =>
        [run.status \in TerminalRun /\ (\A w \in Worker : ~Handling(w))
           => run' = run /\ stepOf' = stepOf]_vars
  <2> SUFFICES ASSUME SInv, [Next]_vars, run.status \in TerminalRun,
                      \A w \in Worker : ~Handling(w)
               PROVE  run' = run /\ stepOf' = stepOf
    OBVIOUS
  <2>1. \A w \in Worker : wk[w].pc \notin {"suite", "list", "legacy", "advance",
                                           "create", "write"}
    BY DEF SInv, Fits, Handling
  <2>2. ASSUME NEW w \in Worker, RunSuite(w) PROVE FALSE
    BY <2>2 DEF RunSuite, TerminalRun
  <2>3. ASSUME NEW w \in Worker, Serve(w) PROVE run' = run /\ stepOf' = stepOf
    <3>1. AggConclude(w) \/ AggNoChange(w) \/ RunRead(w)
      BY <2>1, <2>3 DEF Serve, CreateStep, CreateFails, SuiteRead, List, Legacy,
                        Advance, RunWrite
    <3> QED
      BY <3>1 DEF AggConclude, AggNoChange, RunRead
  <2>4. ASSUME NEW w \in Worker, Fail(w) PROVE run' = run /\ stepOf' = stepOf
    BY <2>4 DEF Fail, Stop
  <2>5. ASSUME NEW w \in Worker, NEW t \in Task, AggBegin(w, t)
        PROVE  run' = run /\ stepOf' = stepOf
    BY <2>5 DEF AggBegin
  <2>6. CASE \/ \E t \in Task : CancelTask(t) \/ DeleteTask(t)
             \/ DeleteSuite \/ ServerCrash \/ UNCHANGED vars
    BY <2>6 DEF CancelTask, DeleteTask, DeleteSuite, ServerCrash, Stop, vars
  <2> QED
    BY <2>2, <2>3, <2>4, <2>5, <2>6 DEF Next
<1> QED
  BY <1>1, Invariant, PTL DEF Spec, EndedStaysEnded

\* The rows of the run's tasks live the life TaskLife describes, which
\* ScanTasks implements: SuiteRun assumes nothing else of them.
THEOREM RunOnLifeRows == Spec => LifeSpec
<1>1. Init => LifeInit
  BY DEF Init
<1>2. [Next]_vars => [LifeNext]_life
  <2> SUFFICES ASSUME [Next]_vars PROVE LifeNext \/ UNCHANGED life
    BY DEF life
  <2>1. ASSUME NEW w \in Worker, RunSuite(w) \/ Serve(w) \/ Fail(w)
        PROVE  LifeNext \/ UNCHANGED life
    <3>1. CASE CreateStep(w)
      BY <3>1 DEF CreateStep, LifeNext
    <3>2. CASE AggConclude(w)
      BY <3>2 DEF AggConclude, LifeNext
    <3>3. CASE AggNoChange(w) \/ Fail(w)
      BY <3>3 DEF AggNoChange, Fail, Stop, LifeNext
    <3>4. CASE \/ RunSuite(w) \/ CreateFails(w) \/ RunRead(w) \/ SuiteRead(w)
               \/ List(w) \/ Legacy(w) \/ Advance(w) \/ RunWrite(w)
      BY <3>4 DEF RunSuite, CreateFails, RunRead, SuiteRead, List, Legacy,
                  Advance, RunWrite
    <3> QED
      BY <2>1, <3>1, <3>2, <3>3, <3>4 DEF Serve
  <2>2. ASSUME NEW w \in Worker, NEW t \in Task, AggBegin(w, t)
        PROVE  LifeNext \/ UNCHANGED life
    BY <2>2 DEF AggBegin, LifeNext
  <2>3. ASSUME NEW t \in Task, CancelTask(t) \/ DeleteTask(t)
        PROVE  LifeNext \/ UNCHANGED life
    BY <2>3 DEF CancelTask, DeleteTask, LifeNext
  <2>4. CASE DeleteSuite \/ ServerCrash \/ UNCHANGED vars
    BY <2>4 DEF DeleteSuite, ServerCrash, Stop, LifeNext, vars, life
  <2> QED
    BY <2>1, <2>2, <2>3, <2>4 DEF Next
<1> QED
  BY <1>1, <1>2, PTL DEF Spec, LifeSpec
=============================================================================
