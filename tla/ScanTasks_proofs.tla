-------------------------- MODULE ScanTasks_proofs --------------------------
(***************************************************************************)
(* What MCScanTasks checks on small instances, proved for any number of    *)
(* tasks, nodes, request goroutines and faults.                            *)
(***************************************************************************)
EXTENDS ScanTasks, TLAPS

-----------------------------------------------------------------------------
(* Type correctness *)

LEMMA IdleType == Idle \in WorkerState
  BY DEF Idle, WorkerState, Op, PC

LEMMA AggregateType == \A t : AggregateOf(t) \in TaskStatus
  BY DEF AggregateOf, TaskStatus, TerminalTask

\* What the step of one goroutine w, with new locals r, leaves well typed.
LEMMA LocalsType ==
  ASSUME TypeOK, NEW w \in Worker, NEW r \in WorkerState,
         Locals(w, r)
  PROVE  wk' \in [Worker -> WorkerState]
  BY DEF TypeOK, Locals

\* The fields the loops over assignments change.
LEMMA LoopType ==
  ASSUME NEW r \in WorkerState, NEW b \in SUBSET Pair, NEW c \in PC,
         NEW o \in SUBSET Pair, NEW d \in SUBSET Task
  PROVE  /\ [r EXCEPT !.batch = b, !.pc = c, !.out = o, !.todo = d] \in WorkerState
         /\ [r EXCEPT !.batch = b, !.pc = c, !.todo = d] \in WorkerState
  BY DEF WorkerState

LEMMA FieldTypes ==
  ASSUME NEW r \in WorkerState
  PROVE  /\ r.pc \in PC /\ r.batch \in SUBSET Pair /\ r.out \in SUBSET Pair
         /\ r.todo \in SUBSET Task
  BY DEF WorkerState

LEMMA LeaveType ==
  ASSUME TypeOK, NEW w \in Worker, NEW t, Leave(w, t), wk[w].pc # "idle"
  PROVE  wk' \in [Worker -> WorkerState]
  <1> DEFINE r == [wk[w] EXCEPT !.pc = "agg", !.todo = @ \ {t},
                                !.task = NoTask, !.seen = "absent",
                                !.next = "absent"]
  <1>1. wk[w] \in WorkerState
    BY DEF TypeOK
  <1>2. r \in WorkerState
    BY <1>1 DEF WorkerState, PC
  <1> QED
    BY <1>2, LocalsType DEF Leave

LEMMA TypeInit == Init => TypeOK
  BY IdleType, MaxFaultsAssumption
  DEF Init, TypeOK, TaskStatus, AssignmentStatus, JobState

LEMMA TypeStep == TypeOK /\ [Next]_vars => TypeOK'
<1> SUFFICES ASSUME TypeOK, [Next]_vars PROVE TypeOK'
  OBVIOUS
<1> USE IdleType, MaxFaultsAssumption
<1>h. \A h \in Handler : h \in Worker
  BY DEF Worker
<1>s. Sweeper \in Worker
  BY DEF Worker
<1>w. \A w \in Worker : wk[w] \in WorkerState
  BY DEF TypeOK
<1>1. ASSUME NEW h \in Handler, NEW t \in Task, CreateTask(h, t) PROVE TypeOK'
  <2>1. [Idle EXCEPT !.op = "create", !.pc = "dispatch", !.task = t] \in WorkerState
    BY DEF Idle, WorkerState, Op, PC
  <2> QED
    BY <1>1, <1>h, <2>1 DEF CreateTask, TypeOK, TaskStatus, Locals
<1>2. ASSUME NEW h \in Handler, NEW t \in Task, CancelRead(h, t) PROVE TypeOK'
  <2>1. [Idle EXCEPT !.op = "cancel", !.pc = "cas", !.task = t] \in WorkerState
    BY DEF Idle, WorkerState, Op, PC
  <2> QED
    BY <1>2, <1>h, <2>1 DEF CancelRead, TypeOK, Locals
<1>3. ASSUME NEW h \in Handler, NEW n \in Node, PullForNode(h, n) PROVE TypeOK'
  <2> DEFINE mine == {p \in Pair : p[2] = n /\ asg[p] = "assigned"}
  <2>1. [Idle EXCEPT !.op = "pull", !.pc = "resolve", !.batch = mine] \in WorkerState
    BY DEF Idle, WorkerState, Op, PC
  <2> QED
    BY <1>3, <1>h, <2>1 DEF PullForNode, TypeOK, AssignmentStatus, Locals
<1>4. ASSUME NEW h \in Handler, NEW p \in Pair, NEW s \in {"running"} \cup SettledAssignment,
             Send(h, p, s)
      PROVE  TypeOK'
  <2>1. [Idle EXCEPT !.op = "progress", !.pc = "update", !.batch = {p}, !.report = s]
          \in WorkerState
    BY DEF Idle, WorkerState, Op, PC, AssignmentStatus
  <2> QED
    BY <1>4, <1>h, <2>1 DEF Send, TypeOK, JobState, Locals
<1>5. ASSUME NEW h \in Handler, Dispatch(h) PROVE TypeOK'
  BY <1>5, <1>h DEF Dispatch, TypeOK, AssignmentStatus, Locals
<1>6. ASSUME NEW h \in Handler, CancelCAS(h) PROVE TypeOK'
  BY <1>6, <1>h DEF CancelCAS, TypeOK, TaskStatus, TerminalTask, Locals
<1>7. ASSUME NEW h \in Handler, Resolve(h) PROVE TypeOK'
  <2>1. PICK p \in wk[h].batch, found \in BOOLEAN :
          Locals(h, [wk[h] EXCEPT !.batch = @ \ {p},
                                  !.pc = IF wk[h].batch = {p} THEN "agg" ELSE @,
                                  !.out = IF found THEN @ \cup {p} ELSE @,
                                  !.todo = IF found THEN @ \cup {p[1]} ELSE @])
    BY <1>7 DEF Resolve
  <2> DEFINE b == wk[h].batch \ {p}
             c == IF wk[h].batch = {p} THEN "agg" ELSE wk[h].pc
             o == IF found THEN wk[h].out \cup {p} ELSE wk[h].out
             d == IF found THEN wk[h].todo \cup {p[1]} ELSE wk[h].todo
  <2>2. wk[h] \in WorkerState /\ "agg" \in PC
    BY <1>h, <1>w DEF PC
  <2>3. p \in Pair /\ p[1] \in Task
    BY <2>2, FieldTypes DEF Pair
  <2>4. b \in SUBSET Pair /\ c \in PC /\ o \in SUBSET Pair /\ d \in SUBSET Task
    BY <2>2, <2>3, FieldTypes
  <2>5. Locals(h, [wk[h] EXCEPT !.batch = b, !.pc = c, !.out = o, !.todo = d])
    BY <2>1
  <2> HIDE DEF b, c, o, d
  <2>6. [wk[h] EXCEPT !.batch = b, !.pc = c, !.out = o, !.todo = d] \in WorkerState
    BY <2>2, <2>4, LoopType
  <2> QED
    BY <1>7, <1>h, <2>5, <2>6, LocalsType DEF Resolve, TypeOK
<1>8. ASSUME NEW h \in Handler, PullReply(h) PROVE TypeOK'
  BY <1>8, <1>h DEF PullReply, TypeOK, JobState, Locals
<1>9. ASSUME NEW h \in Handler, UpdateProgress(h) PROVE TypeOK'
  <2>1. PICK p \in wk[h].batch :
          \/ /\ asg' = [asg EXCEPT ![p] = wk[h].report]
             /\ aged' \in {aged, aged \ {p}}
             /\ Locals(h, [wk[h] EXCEPT !.pc = "agg", !.todo = {p[1]}])
             /\ job' = job
          \/ /\ job' = [job EXCEPT ![p] = IF @ = "wait" THEN "over" ELSE @]
             /\ Locals(h, Idle)
             /\ UNCHANGED <<asg, aged>>
    BY <1>9 DEF UpdateProgress
  <2>2. p \in Pair /\ p[1] \in Task
    BY <1>h, <1>w DEF WorkerState, Pair
  <2>3. [wk[h] EXCEPT !.pc = "agg", !.todo = {p[1]}] \in WorkerState
    BY <2>2, <1>h, <1>w DEF WorkerState, PC
  <2>4. wk[h].report \in AssignmentStatus \cup {"none"}
    BY <1>h, <1>w DEF WorkerState
  <2> QED
    BY <1>9, <1>h, <2>1, <2>2, <2>3, <2>4 DEF UpdateProgress, TypeOK, JobState, Locals
<1>10. ASSUME NEW h \in Handler, ProgressReply(h) PROVE TypeOK'
  BY <1>10, <1>h DEF ProgressReply, TypeOK, JobState, Locals
<1>11. ASSUME NEW w \in Worker, AggRead(w) PROVE TypeOK'
  <2>1. PICK t \in wk[w].todo :
          \/ Locals(w, [wk[w] EXCEPT !.pc = "list", !.task = t, !.seen = status[t]])
          \/ Leave(w, t)
    BY <1>11 DEF AggRead
  <2>2. t \in Task
    BY <1>w DEF WorkerState
  <2>3. [wk[w] EXCEPT !.pc = "list", !.task = t, !.seen = status[t]] \in WorkerState
    BY <2>2, <1>w DEF WorkerState, PC, TypeOK
  <2>4. wk' \in [Worker -> WorkerState]
    BY <1>11, <2>1, <2>3, LeaveType, LocalsType DEF AggRead
  <2> QED
    BY <1>11, <2>4 DEF AggRead, TypeOK
<1>12. ASSUME NEW w \in Worker, AggList(w) PROVE TypeOK'
  <2> DEFINE t == wk[w].task
  <2>1. [wk[w] EXCEPT !.pc = "write", !.next = AggregateOf(t)] \in WorkerState
    <3>1. AggregateOf(t) \in TaskStatus
      BY AggregateType
    <3> QED
      BY <3>1, <1>w DEF WorkerState, PC
  <2>2. wk' \in [Worker -> WorkerState]
    BY <1>12, <2>1, LeaveType, LocalsType DEF AggList
  <2> QED
    BY <1>12, <2>2 DEF AggList, TypeOK
<1>13. ASSUME NEW w \in Worker, AggWrite(w) PROVE TypeOK'
  <2>1. wk' \in [Worker -> WorkerState]
    BY <1>13, LeaveType DEF AggWrite
  <2>2. wk[w].next \in TaskStatus \cup {"absent"}
    BY <1>w DEF WorkerState
  <2> QED
    BY <1>13, <2>1, <2>2 DEF AggWrite, TypeOK
<1>14. ASSUME NEW w \in Worker, AggFail(w) PROVE TypeOK'
  <2>1. wk' \in [Worker -> WorkerState]
    BY <1>14, LeaveType DEF AggFail
  <2> QED
    BY <1>14, <2>1 DEF AggFail, TypeOK
<1>15. CASE SweepList
  <2>1. [Idle EXCEPT !.op = "sweep", !.pc = "mark", !.batch = Stale] \in WorkerState
    BY DEF Idle, WorkerState, Op, PC, Stale, TypeOK
  <2> QED
    BY <1>15, <1>s, <2>1 DEF SweepList, TypeOK, Locals
<1>16. CASE SweepEnd
  BY <1>16, <1>s DEF SweepEnd, TypeOK, Locals
<1>17. ASSUME NEW p \in Pair, SweepMark(p) \/ SweepSkip(p) PROVE TypeOK'
  <2>1. p[1] \in Task
    BY DEF Pair
  <2>2. PICK touched \in SUBSET Task : SweepNext(p, touched)
    BY <1>17, <2>1 DEF SweepMark, SweepSkip
  <2> DEFINE rest == wk[Sweeper].batch \ {p}
             c == IF rest = {} THEN "agg" ELSE "mark"
             d == wk[Sweeper].todo \cup touched
  <2>3. Locals(Sweeper, [wk[Sweeper] EXCEPT !.batch = rest, !.pc = c, !.todo = d])
    BY <2>2 DEF SweepNext
  <2>5. wk[Sweeper] \in WorkerState
    BY <1>s, <1>w
  <2>6. rest \in SUBSET Pair /\ c \in PC /\ d \in SUBSET Task
    BY <2>5, FieldTypes DEF PC
  <2> HIDE DEF rest, c, d
  <2>7. [wk[Sweeper] EXCEPT !.batch = rest, !.pc = c, !.todo = d] \in WorkerState
    BY <2>5, <2>6, LoopType, FieldTypes
  <2>4. wk' \in [Worker -> WorkerState]
    BY <2>3, <2>7, <1>s, LocalsType
  <2> QED
    BY <1>17, <2>4 DEF SweepMark, SweepSkip, TypeOK, AssignmentStatus, SettledAssignment
<1>18. ASSUME NEW p \in Pair, Age(p) PROVE TypeOK'
  BY <1>18 DEF Age, TypeOK
<1>19. ASSUME NEW p \in Pair, AgentDrop(p) PROVE TypeOK'
  BY <1>19 DEF AgentDrop, TypeOK, JobState
<1>20. ASSUME NEW t \in Task, DeleteTask(t) PROVE TypeOK'
  BY <1>20 DEF DeleteTask, TypeOK
<1>21. CASE ServerCrash
  BY <1>21 DEF ServerCrash, TypeOK, JobState
<1>22. CASE UNCHANGED vars
  BY <1>22 DEF vars, TypeOK
<1> QED
  BY <1>1, <1>2, <1>3, <1>4, <1>5, <1>6, <1>7, <1>8, <1>9, <1>10, <1>11,
     <1>12, <1>13, <1>14, <1>15, <1>16, <1>17, <1>18, <1>19, <1>20, <1>21, <1>22
     DEF Next, HandlerStep, Aggregate, SweepStep, ReportRunning, ReportFinal

\* Every reachable state has the types TypeOK gives.
THEOREM TypeCorrect == Spec => []TypeOK
  BY TypeInit, TypeStep, PTL DEF Spec

-----------------------------------------------------------------------------
(* The inductive invariant *)

Taken(p) == asg[p] \notin {"none", "assigned"}

\* Rows are inserted once: a task that a goroutine still has to dispatch has
\* none, and no second goroutine dispatches it.
DispatchedOnce ==
  /\ \A t \in Task : status[t] = "absent" => Rows(t) = {} /\ t \notin deleted
  /\ \A h \in Handler : wk[h].pc = "dispatch" =>
       /\ status[wk[h].task] # "absent" /\ wk[h].task \in Task
       /\ Rows(wk[h].task) = {}
       /\ \A g \in Handler \ {h} :
            wk[g].pc = "dispatch" => wk[g].task # wk[h].task

\* Of goroutine w: only rows that were pulled are in its batch or its reply,
\* what it reports is never an earlier status, and what it is about to write of
\* a task is true of the task's rows.
LocalsOK(w) ==
  /\ \A p \in wk[w].batch \cup wk[w].out : Taken(p)
  /\ wk[w].pc = "update" => wk[w].report \in {"running"} \cup SettledAssignment
  /\ wk[w].pc = "write" =>
       /\ Rows(wk[w].task) # {} /\ wk[w].next # "absent"
       /\ Justified(wk[w].task, wk[w].next)

WorkTaken ==
  /\ \A w \in Worker : LocalsOK(w)
  /\ \A p \in Pair : job[p] # "none" => Taken(p)

IInv ==
  /\ TypeOK
  /\ DispatchedOnce
  /\ WorkTaken
  /\ StatusJustified
  /\ HandedToOne

LEMMA InvInit == Init => IInv
  <1> SUFFICES ASSUME Init PROVE IInv
    OBVIOUS
  <1>1. TypeOK
    BY TypeInit
  <1>2. \A t : Rows(t) = {}
    BY DEF Init, Rows
  <1>3. \A w \in Worker : wk[w] = Idle
    BY DEF Init
  <1>4. \A h \in Handler : h \in Worker
    BY DEF Worker
  <1>5. DispatchedOnce
    BY <1>2, <1>3, <1>4 DEF Init, DispatchedOnce, Idle
  <1>6. WorkTaken
    BY <1>3 DEF Init, WorkTaken, LocalsOK, Idle
  <1>7. StatusJustified
    BY DEF Init, StatusJustified, Justified
  <1>8. HandedToOne
    BY <1>3, <1>4 DEF HandedToOne, Idle
  <1> QED
    BY <1>1, <1>5, <1>6, <1>7, <1>8 DEF IInv

-----------------------------------------------------------------------------
(* How a step changes rows *)

\* The only ways an existing row changes.
Grows(p) ==
  \/ asg'[p] = asg[p]
  \/ asg[p] = "assigned" /\ asg'[p] = "pulled"
  \/ /\ Taken(p) /\ asg[p] \notin SettledAssignment
     /\ asg'[p] \in {"running"} \cup SettledAssignment
  \/ asg[p] \in SettledAssignment /\ asg'[p] = "failed"

LEMMA RowsGrow ==
  ASSUME IInv, [Next]_vars
  PROVE  (\A p \in Pair : Grows(p)) \/ (\E h \in Handler : Dispatch(h))
<1> USE DEF IInv
<1>1. CASE UNCHANGED asg
  BY <1>1 DEF Grows
<1>2. ASSUME NEW h \in Handler, NEW n \in Node, PullForNode(h, n)
      PROVE  \A p \in Pair : Grows(p)
  BY <1>2 DEF PullForNode, Grows
<1>3. ASSUME NEW h \in Handler, UpdateProgress(h)
      PROVE  \A p \in Pair : Grows(p)
  <2>1. h \in Worker
    BY DEF Worker
  <2>2. LocalsOK(h)
    BY <2>1 DEF WorkTaken
  <2> QED
    BY <1>3, <2>1, <2>2 DEF UpdateProgress, LocalsOK, Grows, TypeOK
<1>4. ASSUME NEW q \in Pair, SweepMark(q)
      PROVE  \A p \in Pair : Grows(p)
  <2>1. LocalsOK(Sweeper)
    BY DEF WorkTaken, Worker
  <2>2. Taken(q)
    BY <1>4, <2>1 DEF SweepMark, LocalsOK
  <2> QED
    BY <1>4, <2>2 DEF SweepMark, Grows, TypeOK, SettledAssignment
<1>5. \/ UNCHANGED asg
      \/ \E h \in Handler, n \in Node : PullForNode(h, n)
      \/ \E h \in Handler : UpdateProgress(h)
      \/ \E q \in Pair : SweepMark(q)
      \/ \E h \in Handler : Dispatch(h)
  BY DEF Next, vars, HandlerStep, Aggregate, SweepStep, ReportRunning, ReportFinal,
         CreateTask, CancelRead, CancelCAS, Resolve, PullReply, Send, ProgressReply,
         AggRead, AggList, AggWrite, AggFail, SweepList, SweepEnd, SweepSkip, Age,
         AgentDrop, DeleteTask, ServerCrash
<1> QED
  BY <1>1, <1>2, <1>3, <1>4, <1>5

LEMMA GrowthKeepsRows ==
  ASSUME \A p \in Pair : Grows(p), NEW t
  PROVE  /\ Rows(t)' = Rows(t)
         /\ \A s : Justified(t, s) => Justified(t, s)'
<1>1. Rows(t)' = Rows(t)
  BY DEF Grows, Rows, Taken, SettledAssignment
<1>2. \A p \in Pair : /\ asg[p] # "assigned" => asg'[p] # "assigned"
                      /\ asg[p] \in SettledAssignment => asg'[p] \in SettledAssignment
                      /\ asg[p] = "failed" => asg'[p] = "failed"
  BY DEF Grows, Taken, SettledAssignment
<1>3. Rows(t) \subseteq Pair
  BY DEF Rows
<1> QED
  BY <1>1, <1>2, <1>3 DEF Justified

\* Dispatch writes only rows of a task that had none.
LEMMA DispatchRows ==
  ASSUME IInv, NEW h \in Handler, Dispatch(h)
  PROVE  /\ \A p \in Pair : asg'[p] = asg[p] \/ (p[1] = wk[h].task /\ asg[p] = "none")
         /\ \A p \in Pair : p[1] # wk[h].task => asg'[p] = asg[p]
<1>1. Rows(wk[h].task) = {}
  BY DEF Dispatch, IInv, DispatchedOnce
<1>2. \A p \in Pair : p[1] = wk[h].task => asg[p] = "none"
  BY <1>1 DEF Rows
<1>3. PICK N \in SUBSET Node :
        asg' = [p \in Pair |-> IF p[1] = wk[h].task /\ p[2] \in N
                               THEN "assigned" ELSE asg[p]]
  BY DEF Dispatch
<1> QED
  BY <1>2, <1>3

\* What is justified of a task with rows stays so.
LEMMA JustifiedStays ==
  ASSUME IInv, [Next]_vars, NEW t, Rows(t) # {}
  PROVE  Rows(t)' # {} /\ \A s : Justified(t, s) => Justified(t, s)'
<1>1. CASE \A p \in Pair : Grows(p)
  BY <1>1, GrowthKeepsRows
<1>2. ASSUME NEW h \in Handler, Dispatch(h)
      PROVE  Rows(t)' # {} /\ \A s : Justified(t, s) => Justified(t, s)'
  <2>1. t # wk[h].task
    BY <1>2 DEF Dispatch, IInv, DispatchedOnce
  <2>2. \A p \in Pair : p[1] = t => asg'[p] = asg[p]
    BY <1>2, <2>1, DispatchRows
  <2>3. Rows(t)' = Rows(t) /\ \A p \in Rows(t) : p \in Pair /\ p[1] = t
    BY <2>2 DEF Rows
  <2> QED
    BY <2>2, <2>3 DEF Justified
<1> QED
  BY <1>1, <1>2, RowsGrow

LEMMA AggregateJustified ==
  ASSUME TypeOK, NEW t, Rows(t) # {}
  PROVE  AggregateOf(t) # "absent" /\ Justified(t, AggregateOf(t))
<1>1. \A p \in Rows(t) :
        asg[p] \in {"assigned", "pulled", "running"} \cup SettledAssignment
  BY DEF Rows, TypeOK, AssignmentStatus
<1> QED
  BY <1>1 DEF AggregateOf, Justified, SettledAssignment

LEMMA TakenStays ==
  ASSUME IInv, [Next]_vars, NEW p \in Pair, Taken(p)
  PROVE  Taken(p)'
<1>1. CASE \A q \in Pair : Grows(q)
  BY <1>1 DEF Grows, Taken, SettledAssignment
<1>2. ASSUME NEW h \in Handler, Dispatch(h) PROVE Taken(p)'
  BY <1>2, DispatchRows DEF Taken
<1> QED
  BY <1>1, <1>2, RowsGrow

-----------------------------------------------------------------------------
(* How a step changes the locals of a goroutine *)

\* It takes up a new call ...
Starts(w) ==
  \/ wk'[w].pc = "cas" /\ wk'[w].batch = {} /\ wk'[w].out = {}
  \/ \E t \in Task : w \in Handler /\ CreateTask(w, t)
  \/ \E n \in Node : w \in Handler /\ PullForNode(w, n)
  \/ \E p \in Pair, s \in {"running"} \cup SettledAssignment :
       w \in Handler /\ Send(w, p, s) /\ job[p] # "none"
  \/ w = Sweeper /\ SweepList

\* ... or goes on with the one it has.
Continues(w) ==
  /\ wk'[w].op = wk[w].op
  /\ wk'[w].batch \cup wk'[w].out \subseteq wk[w].batch \cup wk[w].out
  /\ \/ wk'[w].pc \in {"resolve", "mark", "agg", "list"}
     \/ /\ wk'[w].pc = "write" /\ wk'[w].task = wk[w].task
        /\ Rows(wk[w].task) # {} /\ wk'[w].next = AggregateOf(wk[w].task)
        /\ asg' = asg

LEMMA LocalsMove ==
  ASSUME TypeOK, [Next]_vars, NEW v \in Worker
  PROVE  wk'[v] = wk[v] \/ wk'[v] = Idle \/ Starts(v) \/ Continues(v)
<1> DEFINE Goal == wk'[v] = wk[v] \/ wk'[v] = Idle \/ Starts(v) \/ Continues(v)
<1>h. Handler \subseteq Worker /\ Sweeper \in Worker
  BY DEF Worker
<1>t. wk \in [Worker -> WorkerState]
  BY DEF TypeOK
<1>r. wk[v] \in WorkerState
  BY <1>t
<1>o. ASSUME NEW w \in Worker, NEW r, Locals(w, r), v # w PROVE Goal
  BY <1>o, <1>t DEF Locals
<1>n. ASSUME NEW r, Locals(v, r) PROVE wk'[v] = r
  BY <1>n, <1>t DEF Locals
<1>a. ASSUME NEW d, NEW t, NEW s,
             \/ wk'[v] = [wk[v] EXCEPT !.pc = "agg", !.todo = d]
             \/ wk'[v] = [wk[v] EXCEPT !.pc = "list", !.task = t, !.seen = s]
      PROVE  Goal
  <2>1. /\ wk'[v].op = wk[v].op /\ wk'[v].batch = wk[v].batch
        /\ wk'[v].out = wk[v].out /\ wk'[v].pc \in {"agg", "list"}
    BY <1>a, <1>r DEF WorkerState
  <2> QED
    BY <2>1 DEF Continues
<1>1. CASE wk' = wk
  BY <1>1
<1>2. CASE wk' = [w \in Worker |-> Idle]
  BY <1>2
<1>3. ASSUME NEW w \in Worker, Locals(w, Idle) PROVE Goal
  BY <1>3, <1>n, <1>o
<1>4. ASSUME NEW h \in Handler, NEW t \in Task, CreateTask(h, t) PROVE Goal
  BY <1>4, <1>o, <1>h DEF CreateTask, Starts
<1>5. ASSUME NEW h \in Handler, NEW t \in Task, CancelRead(h, t) PROVE Goal
  <2>1. CASE v = h
    BY <1>5, <2>1, <1>n DEF CancelRead, Starts, Idle
  <2> QED
    BY <1>5, <2>1, <1>o, <1>h DEF CancelRead
<1>6. ASSUME NEW h \in Handler, NEW n \in Node, PullForNode(h, n) PROVE Goal
  BY <1>6, <1>o, <1>h DEF PullForNode, Starts
<1>7. ASSUME NEW h \in Handler, NEW p \in Pair,
             ReportRunning(h, p) \/ ReportFinal(h, p)
      PROVE  Goal
  <2>1. PICK s \in {"running"} \cup SettledAssignment : Send(h, p, s)
    BY <1>7 DEF ReportRunning, ReportFinal
  <2>2. job[p] # "none"
    BY <1>7 DEF ReportRunning, ReportFinal
  <2> QED
    BY <2>1, <2>2, <1>o, <1>h DEF Send, Starts
<1>8. ASSUME NEW h \in Handler, Resolve(h) PROVE Goal
  <2>1. PICK p \in wk[h].batch, found \in BOOLEAN :
          Locals(h, [wk[h] EXCEPT !.batch = @ \ {p},
                                  !.pc = IF wk[h].batch = {p} THEN "agg" ELSE @,
                                  !.out = IF found THEN @ \cup {p} ELSE @,
                                  !.todo = IF found THEN @ \cup {p[1]} ELSE @])
    BY <1>8 DEF Resolve
  <2> DEFINE b == wk[h].batch \ {p}
             c == IF wk[h].batch = {p} THEN "agg" ELSE wk[h].pc
             o == IF found THEN wk[h].out \cup {p} ELSE wk[h].out
             d == IF found THEN wk[h].todo \cup {p[1]} ELSE wk[h].todo
  <2>2. Locals(h, [wk[h] EXCEPT !.batch = b, !.pc = c, !.out = o, !.todo = d])
    BY <2>1
  <2>3. c \in {"resolve", "agg"} /\ b \cup o \subseteq wk[h].batch \cup wk[h].out
    BY <1>8 DEF Resolve
  <2>5. b \in SUBSET Pair /\ c \in PC
    BY <1>t, <1>h, <2>3, FieldTypes DEF PC
  <2> HIDE DEF b, c, o, d
  <2>4. CASE v = h
    <3>1. wk'[v] = [wk[v] EXCEPT !.batch = b, !.pc = c, !.out = o, !.todo = d]
      BY <2>2, <2>4, <1>n, Zenon
    <3> DEFINE q == [wk[v] EXCEPT !.batch = b, !.pc = c]
    <3>2. q \in WorkerState
      BY <1>r, <2>4, <2>5 DEF WorkerState
    <3>5. q.op = wk[v].op /\ q.batch = b /\ q.pc = c
      BY <1>r DEF WorkerState
    <3>3. wk'[v] = [q EXCEPT !.out = o, !.todo = d]
      BY <3>1
    <3> HIDE DEF q
    <3>4. /\ wk'[v].op = q.op /\ wk'[v].batch = q.batch
          /\ wk'[v].pc = q.pc /\ wk'[v].out = o
      BY <3>2, <3>3 DEF WorkerState
    <3> QED
      BY <2>3, <2>4, <3>4, <3>5 DEF Continues
  <2> QED
    BY <2>2, <2>4, <1>o, <1>h
<1>9. ASSUME NEW h \in Handler, UpdateProgress(h) PROVE Goal
  <2>1. PICK p \in wk[h].batch :
          Locals(h, [wk[h] EXCEPT !.pc = "agg", !.todo = {p[1]}]) \/ Locals(h, Idle)
    BY <1>9 DEF UpdateProgress
  <2>2. CASE v = h
    <3>1. wk'[v] \in {[wk[v] EXCEPT !.pc = "agg", !.todo = {p[1]}], Idle}
      BY <2>1, <2>2, <1>n
    <3> QED
      BY <3>1, <1>a
  <2> QED
    BY <2>1, <2>2, <1>o, <1>h
<1>10. ASSUME NEW w \in Worker, NEW t, Leave(w, t) PROVE Goal
  <2> DEFINE d == wk[w].todo \ {t}
  <2>1. Locals(w, [wk[w] EXCEPT !.pc = "agg", !.todo = d, !.task = NoTask,
                                !.seen = "absent", !.next = "absent"])
    BY <1>10 DEF Leave
  <2> HIDE DEF d
  <2>2. CASE v = w
    <3>1. wk'[v] = [wk[v] EXCEPT !.pc = "agg", !.todo = d, !.task = NoTask,
                                 !.seen = "absent", !.next = "absent"]
      BY <2>1, <2>2, <1>n, Zenon
    <3>2. /\ wk'[v].op = wk[v].op /\ wk'[v].batch = wk[v].batch
          /\ wk'[v].out = wk[v].out /\ wk'[v].pc = "agg"
      BY <3>1, <1>r DEF WorkerState
    <3> QED
      BY <3>2 DEF Continues
  <2> QED
    BY <2>1, <2>2, <1>o
<1>11. ASSUME NEW w \in Worker, AggRead(w) PROVE Goal
  <2>1. PICK t \in wk[w].todo :
          \/ Locals(w, [wk[w] EXCEPT !.pc = "list", !.task = t, !.seen = status[t]])
          \/ Leave(w, t)
    BY <1>11 DEF AggRead
  <2>2. CASE v = w /\ ~Leave(w, t)
    <3>1. wk'[v] = [wk[v] EXCEPT !.pc = "list", !.task = t, !.seen = status[t]]
      BY <2>1, <2>2, <1>n
    <3> QED
      BY <3>1, <1>a
  <2> QED
    BY <2>1, <2>2, <1>o, <1>10
<1>12. ASSUME NEW w \in Worker, AggList(w) PROVE Goal
  <2> DEFINE t == wk[w].task
             x == AggregateOf(t)
  <2>1. \/ /\ Locals(w, [wk[w] EXCEPT !.pc = "write", !.next = x])
           /\ Rows(t) # {} /\ asg' = asg
        \/ Leave(w, t)
    BY <1>12 DEF AggList
  <2>2. CASE v = w /\ ~Leave(w, t)
    <3> HIDE DEF x
    <3>2. wk'[v] = [wk[v] EXCEPT !.pc = "write", !.next = x]
      BY <2>1, <2>2, <1>n
    <3>1. /\ wk'[v].op = wk[v].op /\ wk'[v].batch = wk[v].batch
          /\ wk'[v].out = wk[v].out /\ wk'[v].pc = "write"
          /\ wk'[v].task = wk[v].task /\ wk'[v].next = x
      BY <3>2, <1>r DEF WorkerState
    <3> USE DEF x
    <3> QED
      BY <2>1, <2>2, <3>1 DEF Continues
  <2> HIDE DEF x
  <2> QED
    BY <2>1, <2>2, <1>o, <1>10
<1>13. ASSUME NEW w \in Worker, AggWrite(w) \/ AggFail(w) PROVE Goal
  BY <1>13, <1>10 DEF AggWrite, AggFail
<1>14. CASE SweepList
  BY <1>14, <1>o, <1>h DEF SweepList, Starts
<1>15. ASSUME NEW p \in Pair, NEW touched, SweepNext(p, touched) PROVE Goal
  <2> DEFINE b == wk[Sweeper].batch \ {p}
             c == IF b = {} THEN "agg" ELSE "mark"
             d == wk[Sweeper].todo \cup touched
  <2>1. Locals(Sweeper, [wk[Sweeper] EXCEPT !.batch = b, !.pc = c, !.todo = d])
    BY <1>15 DEF SweepNext
  <2>2. c \in {"agg", "mark"} /\ b \subseteq wk[Sweeper].batch
    OBVIOUS
  <2> HIDE DEF b, c, d
  <2>3. CASE v = Sweeper
    <3>1. wk'[v] = [wk[v] EXCEPT !.batch = b, !.pc = c, !.todo = d]
      BY <2>1, <2>3, <1>n, Zenon
    <3>2. /\ wk'[v].op = wk[v].op /\ wk'[v].batch = b
          /\ wk'[v].pc = c /\ wk'[v].out = wk[v].out
      BY <3>1, <1>r DEF WorkerState
    <3> QED
      BY <2>2, <2>3, <3>2 DEF Continues
  <2> QED
    BY <2>1, <2>3, <1>o, <1>h
<1>16. \/ wk' = wk \/ wk' = [w \in Worker |-> Idle]
       \/ \E w \in Worker : \/ Locals(w, Idle) \/ AggRead(w) \/ AggList(w)
                            \/ AggWrite(w) \/ AggFail(w)
       \/ \E h \in Handler :
            \/ \E t \in Task : CreateTask(h, t) \/ CancelRead(h, t)
            \/ \E n \in Node : PullForNode(h, n)
            \/ \E p \in Pair : ReportRunning(h, p) \/ ReportFinal(h, p)
            \/ Resolve(h) \/ UpdateProgress(h)
       \/ SweepList
       \/ \E p \in Pair : \E touched : SweepNext(p, touched)
  <2>1. ASSUME NEW h \in Handler,
               Dispatch(h) \/ CancelCAS(h) \/ PullReply(h) \/ ProgressReply(h)
        PROVE  \E w \in Worker : Locals(w, Idle)
    BY <2>1, <1>h DEF Dispatch, CancelCAS, PullReply, ProgressReply
  <2>2. ASSUME NEW p \in Pair, SweepMark(p) \/ SweepSkip(p)
        PROVE  \E touched : SweepNext(p, touched)
    BY <2>2 DEF SweepMark, SweepSkip
  <2>3. SweepEnd => \E w \in Worker : Locals(w, Idle)
    BY <1>h DEF SweepEnd
  <2>4. /\ ServerCrash => wk' = [w \in Worker |-> Idle]
        /\ UNCHANGED vars => wk' = wk
        /\ \A p \in Pair : Age(p) \/ AgentDrop(p) => wk' = wk
        /\ \A t \in Task : DeleteTask(t) => wk' = wk
    BY DEF ServerCrash, vars, Age, AgentDrop, DeleteTask
  <2> QED
    BY <2>1, <2>2, <2>3, <2>4 DEF Next, HandlerStep, Aggregate, SweepStep
<1> QED
  BY <1>1, <1>2, <1>3, <1>4, <1>5, <1>6, <1>7, <1>8, <1>9, <1>11, <1>12, <1>13,
     <1>14, <1>15, <1>16

-----------------------------------------------------------------------------
(* Each part of the invariant is preserved *)

LEMMA StatusStep == IInv /\ [Next]_vars => StatusJustified'
<1> SUFFICES ASSUME IInv, [Next]_vars, NEW t \in Task, NEW s, s = status'[t]
             PROVE  Justified(t, s)'
  BY DEF StatusJustified, Justified
<1>1. Justified(t, status[t])
  BY DEF IInv, StatusJustified
<1>2. ASSUME NEW h \in Handler, Dispatch(h) PROVE Justified(t, s)'
  <2>1. status' = status
    BY <1>2 DEF Dispatch
  <2>2. CASE t = wk[h].task
    <3>1. Rows(t) = {}
      BY <1>2, <2>2 DEF Dispatch, IInv, DispatchedOnce
    <3>2. status[t] \notin {"running", "completed", "failed"}
      BY <1>1, <3>1 DEF Justified
    <3> QED
      BY <2>1, <3>2 DEF Justified
  <2>3. CASE t # wk[h].task
    <3>1. \A p \in Pair : p[1] = t => asg'[p] = asg[p]
      BY <1>2, <2>3, DispatchRows
    <3>2. Rows(t)' = Rows(t) /\ \A p \in Rows(t) : p \in Pair /\ p[1] = t
      BY <3>1 DEF Rows
    <3> QED
      BY <1>1, <2>1, <3>1, <3>2 DEF Justified
  <2> QED
    BY <2>2, <2>3
<1>3. CASE \A p \in Pair : Grows(p)
  <2>1. Justified(t, s) => Justified(t, s)'
    BY <1>3, GrowthKeepsRows
  <2>2. ASSUME NEW w \in Worker, AggWrite(w) PROVE Justified(t, s)
    <3>1. LocalsOK(w)
      BY DEF IInv, WorkTaken
    <3> QED
      BY <1>1, <2>2, <3>1 DEF AggWrite, LocalsOK, IInv, TypeOK
  <2>3. \/ status'[t] \in {status[t], "pending", "canceled"}
        \/ \E w \in Worker : AggWrite(w)
    BY DEF Next, vars, HandlerStep, Aggregate, SweepStep, ReportRunning, ReportFinal,
           CreateTask, Dispatch, CancelRead, CancelCAS, PullForNode, Resolve, PullReply,
           Send, UpdateProgress, ProgressReply, AggRead, AggList, AggFail, SweepList,
           SweepEnd, SweepMark, SweepSkip, Age, AgentDrop, DeleteTask, ServerCrash,
           IInv, TypeOK
  <2>4. Justified(t, "pending") /\ Justified(t, "canceled")
    BY DEF Justified
  <2>5. Justified(t, s)
    BY <1>1, <2>2, <2>3, <2>4
  <2> QED
    BY <2>1, <2>5
<1> QED
  BY <1>2, <1>3, RowsGrow


LEMMA JobMove ==
  ASSUME TypeOK, [Next]_vars, NEW p \in Pair
  PROVE  \/ job'[p] = job[p]
         \/ job[p] # "none" /\ job'[p] \notin {"none", "start"}
         \/ \E h \in Handler : PullReply(h) /\ p \in wk[h].out /\ job'[p] = "start"
<1>1. ASSUME NEW h \in Handler, PullReply(h)
      PROVE  job'[p] = job[p] \/ (p \in wk[h].out /\ job'[p] = "start")
  BY <1>1 DEF PullReply
<1>2. ASSUME NEW h \in Handler, NEW q \in Pair, ReportRunning(h, q) \/ ReportFinal(h, q)
      PROVE  job'[p] = job[p] \/ (job[p] # "none" /\ job'[p] = "wait")
  BY <1>2 DEF ReportRunning, ReportFinal, Send, TypeOK
<1>3. ASSUME NEW h \in Handler, UpdateProgress(h)
      PROVE  job'[p] = job[p] \/ (job[p] = "wait" /\ job'[p] = "over")
  BY <1>3 DEF UpdateProgress, TypeOK
<1>4. ASSUME NEW h \in Handler, ProgressReply(h)
      PROVE  job'[p] = job[p] \/ (job[p] = "wait" /\ job'[p] \in {"exec", "over"})
  BY <1>4 DEF ProgressReply
<1>5. ASSUME NEW q \in Pair, AgentDrop(q)
      PROVE  job'[p] = job[p] \/ (job[p] # "none" /\ job'[p] = "over")
  BY <1>5 DEF AgentDrop, TypeOK
<1>6. ServerCrash => job'[p] = job[p] \/ (job[p] # "none" /\ job'[p] = "over")
  BY DEF ServerCrash
<1>7. \/ job' = job \/ ServerCrash
      \/ \E h \in Handler : PullReply(h) \/ UpdateProgress(h) \/ ProgressReply(h)
      \/ \E h \in Handler, q \in Pair : ReportRunning(h, q) \/ ReportFinal(h, q)
      \/ \E q \in Pair : AgentDrop(q)
  BY DEF Next, vars, HandlerStep, Aggregate, SweepStep, CreateTask, Dispatch,
         CancelRead, CancelCAS, PullForNode, Resolve, AggRead, AggList, AggWrite,
         AggFail, SweepList, SweepEnd, SweepMark, SweepSkip, Age, DeleteTask
<1> QED
  BY <1>1, <1>2, <1>3, <1>4, <1>5, <1>6, <1>7

LEMMA WorkStep == IInv /\ [Next]_vars => WorkTaken'
<1> SUFFICES ASSUME IInv, [Next]_vars PROVE WorkTaken'
  OBVIOUS
<1>t. TypeOK /\ \A w \in Worker : LocalsOK(w)
  BY DEF IInv, WorkTaken
<1>1. ASSUME NEW v \in Worker PROVE LocalsOK(v)'
  <2>1. CASE wk'[v] = wk[v]
    <3>1. \A p \in wk[v].batch \cup wk[v].out : p \in Pair /\ Taken(p)
      BY <1>t, FieldTypes DEF LocalsOK, TypeOK
    <3>2. \A p \in wk'[v].batch \cup wk'[v].out : Taken(p)'
      BY <2>1, <3>1, TakenStays
    <3>3. ASSUME wk[v].pc = "write", NEW t, NEW s, t = wk[v].task, s = wk[v].next
          PROVE  Rows(t)' # {} /\ s # "absent" /\ Justified(t, s)'
      BY <3>3, JustifiedStays, <1>t DEF LocalsOK
    <3> QED
      BY <2>1, <3>2, <3>3, <1>t DEF LocalsOK, Justified, Rows
  <2>2. CASE wk'[v] = Idle
    BY <2>2 DEF LocalsOK, Idle
  <2>3. CASE Starts(v)
    <3>1. CASE wk'[v].pc = "cas" /\ wk'[v].batch = {} /\ wk'[v].out = {}
      BY <3>1 DEF LocalsOK
    <3>2. ASSUME NEW t \in Task, CreateTask(v, t), v \in Handler PROVE LocalsOK(v)'
      <4>1. wk'[v] = [Idle EXCEPT !.op = "create", !.pc = "dispatch", !.task = t]
        BY <3>2, <1>t DEF CreateTask, Locals, TypeOK
      <4>2. wk'[v].pc = "dispatch" /\ wk'[v].batch = {} /\ wk'[v].out = {}
        BY <4>1 DEF Idle
      <4> QED
        BY <4>2 DEF LocalsOK
    <3>3. ASSUME NEW n \in Node, PullForNode(v, n), v \in Handler PROVE LocalsOK(v)'
      <4> DEFINE mine == {p \in Pair : p[2] = n /\ asg[p] = "assigned"}
      <4>1. wk'[v] = [Idle EXCEPT !.op = "pull", !.pc = "resolve", !.batch = mine]
        BY <3>3, <1>t DEF PullForNode, Locals, TypeOK
      <4>2. wk'[v].pc = "resolve" /\ wk'[v].batch = mine /\ wk'[v].out = {}
        BY <4>1 DEF Idle
      <4>3. \A p \in mine : asg'[p] = "pulled"
        BY <3>3 DEF PullForNode
      <4> QED
        BY <4>2, <4>3 DEF LocalsOK, Taken
    <3>4. ASSUME NEW p \in Pair, NEW s \in {"running"} \cup SettledAssignment,
                 Send(v, p, s), job[p] # "none"
          PROVE  LocalsOK(v)'
      <4>1. wk'[v] = [Idle EXCEPT !.op = "progress", !.pc = "update",
                                  !.batch = {p}, !.report = s]
        BY <3>4, <1>t DEF Send, Locals, TypeOK
      <4>2. /\ wk'[v].pc = "update" /\ wk'[v].batch = {p} /\ wk'[v].out = {}
            /\ wk'[v].report = s
        BY <4>1 DEF Idle
      <4>3. Taken(p)'
        BY <3>4, TakenStays DEF IInv, WorkTaken
      <4> QED
        BY <4>2, <4>3 DEF LocalsOK, SettledAssignment
    <3>5. CASE v = Sweeper /\ SweepList
      <4>1. wk'[v] = [Idle EXCEPT !.op = "sweep", !.pc = "mark", !.batch = Stale]
        BY <3>5, <1>t DEF SweepList, Locals, TypeOK
      <4>2. wk'[v].pc = "mark" /\ wk'[v].batch = Stale /\ wk'[v].out = {}
        BY <4>1 DEF Idle
      <4>3. \A p \in Stale : Taken(p)'
        BY <3>5 DEF Stale, Taken, SweepList
      <4> QED
        BY <4>2, <4>3 DEF LocalsOK
    <3> QED
      BY <2>3, <3>1, <3>2, <3>3, <3>4, <3>5 DEF Starts
  <2>4. CASE Continues(v)
    <3>1. \A p \in wk[v].batch \cup wk[v].out : p \in Pair /\ Taken(p)
      BY <1>t, FieldTypes DEF LocalsOK, TypeOK
    <3>2. \A p \in wk'[v].batch \cup wk'[v].out : Taken(p)'
      BY <2>4, <3>1, TakenStays DEF Continues
    <3>3. ASSUME wk'[v].pc = "write", NEW t, NEW s, t = wk'[v].task, s = wk'[v].next
          PROVE  Rows(t)' # {} /\ s # "absent" /\ Justified(t, s)'
      <4>1. t = wk[v].task /\ s = AggregateOf(t) /\ Rows(t) # {}
        BY <2>4, <3>3 DEF Continues
      <4> QED
        BY <4>1, <1>t, AggregateJustified, JustifiedStays
    <3>4. wk'[v].pc # "update"
      BY <2>4 DEF Continues
    <3> QED
      BY <3>2, <3>3, <3>4 DEF LocalsOK, Justified, Rows
  <2> QED
    BY <2>1, <2>2, <2>3, <2>4, <1>t, LocalsMove
<1>2. ASSUME NEW p \in Pair, job'[p] # "none" PROVE Taken(p)'
  <2>1. Taken(p)
    <3>1. CASE job[p] # "none"
      BY <3>1 DEF IInv, WorkTaken
    <3>2. ASSUME NEW h \in Handler, p \in wk[h].out PROVE Taken(p)
      BY <3>2, <1>t DEF LocalsOK, Worker
    <3> QED
      BY <1>2, <1>t, <3>1, <3>2, JobMove
  <2> QED
    BY <2>1, TakenStays
<1> QED
  BY <1>1, <1>2 DEF WorkTaken

\* A PullTasks call that has p in its batch or its reply.
Holds(h, p) == wk[h].op = "pull" /\ p \in wk[h].batch \cup wk[h].out

LEMMA HoldsMove ==
  ASSUME TypeOK, [Next]_vars, NEW h \in Handler, NEW p, Holds(h, p)'
  PROVE  \/ Holds(h, p)
         \/ /\ asg[p] = "assigned" /\ asg'[p] = "pulled" /\ job' = job /\ p \in Pair
            /\ \A g \in Handler \ {h} : wk'[g] = wk[g]
<1>h. h \in Worker /\ h # Sweeper /\ \A g \in Handler : g \in Worker
  BY SweeperAssumption DEF Worker
<1>1. CASE wk'[h] = wk[h] \/ wk'[h] = Idle \/ Continues(h)
  BY <1>1 DEF Holds, Idle, Continues
<1>2. CASE wk'[h].batch = {} /\ wk'[h].out = {}
  BY <1>2 DEF Holds
<1>3. ASSUME NEW t \in Task, CreateTask(h, t) PROVE ~Holds(h, p)'
  <2>1. wk'[h] = [Idle EXCEPT !.op = "create", !.pc = "dispatch", !.task = t]
    BY <1>3, <1>h DEF CreateTask, Locals, TypeOK
  <2>2. wk'[h].op = "create"
    BY <2>1 DEF Idle
  <2> QED
    BY <2>2 DEF Holds
<1>4. ASSUME NEW q \in Pair, NEW s, Send(h, q, s) PROVE ~Holds(h, p)'
  <2>1. wk'[h] = [Idle EXCEPT !.op = "progress", !.pc = "update", !.batch = {q},
                              !.report = s]
    BY <1>4, <1>h DEF Send, Locals, TypeOK
  <2>2. wk'[h].op = "progress"
    BY <2>1 DEF Idle
  <2> QED
    BY <2>2 DEF Holds
<1>5. ASSUME NEW n \in Node, PullForNode(h, n)
      PROVE  /\ asg[p] = "assigned" /\ asg'[p] = "pulled" /\ job' = job /\ p \in Pair
             /\ \A g \in Handler \ {h} : wk'[g] = wk[g]
  <2> DEFINE mine == {r \in Pair : r[2] = n /\ asg[r] = "assigned"}
  <2>1. wk' = [wk EXCEPT ![h] = [Idle EXCEPT !.op = "pull", !.pc = "resolve",
                                             !.batch = mine]]
    BY <1>5 DEF PullForNode, Locals
  <2>2. wk'[h] = [Idle EXCEPT !.op = "pull", !.pc = "resolve", !.batch = mine]
    BY <2>1, <1>h DEF TypeOK
  <2>3. wk'[h].batch = mine /\ wk'[h].out = {}
    BY <2>2 DEF Idle
  <2>4. p \in mine
    BY <2>3 DEF Holds
  <2>5. asg'[p] = "pulled" /\ job' = job
    BY <1>5, <2>4 DEF PullForNode
  <2>6. \A g \in Handler \ {h} : wk'[g] = wk[g]
    BY <2>1, <1>h DEF TypeOK
  <2> QED
    BY <2>4, <2>5, <2>6
<1> QED
  BY <1>h, <1>1, <1>2, <1>3, <1>4, <1>5, LocalsMove DEF Starts

LEMMA HandedStep == IInv /\ [Next]_vars => HandedToOne'
<1> SUFFICES ASSUME IInv, [Next]_vars, NEW h \in Handler, NEW p, Holds(h, p)'
             PROVE  /\ job'[p] = "none" /\ asg'[p] \notin {"none", "assigned"}
                    /\ \A g \in Handler \ {h} : ~Holds(g, p)'
  BY DEF HandedToOne, Holds
<1>t. TypeOK
  BY DEF IInv
<1>i. \A g \in Handler : Holds(g, p) =>
        /\ job[p] = "none" /\ asg[p] \notin {"none", "assigned"}
        /\ \A f \in Handler \ {g} : ~Holds(f, p)
  BY DEF IInv, HandedToOne, Holds
<1>1. CASE Holds(h, p)
  <2>1. p \in Pair
    <3>1. wk[h] \in WorkerState
      BY <1>t DEF TypeOK, Worker
    <3> QED
      BY <1>1, <3>1, FieldTypes DEF Holds
  <2>2. asg'[p] \notin {"none", "assigned"}
    BY <1>1, <1>i, <2>1, TakenStays DEF Taken
  <2>3. job'[p] = "none"
    <3>1. ASSUME NEW g \in Handler, PullReply(g), p \in wk[g].out PROVE FALSE
      <4>1. Holds(g, p)
        BY <3>1 DEF PullReply, Holds
      <4>2. g = h
        BY <1>1, <1>i, <4>1
      <4>3. wk'[h] = Idle
        BY <3>1, <4>2, <1>t DEF PullReply, Locals, TypeOK, Worker
      <4> QED
        BY <4>3 DEF Holds, Idle
    <3> QED
      BY <1>1, <1>i, <1>t, <2>1, <3>1, JobMove
  <2>4. ASSUME NEW g \in Handler \ {h}, Holds(g, p)' PROVE FALSE
    BY <1>1, <1>i, <1>t, <2>4, HoldsMove
  <2> QED
    BY <2>2, <2>3, <2>4
<1>2. CASE ~Holds(h, p)
  <2>1. /\ asg[p] = "assigned" /\ asg'[p] = "pulled" /\ job' = job /\ p \in Pair
        /\ \A g \in Handler \ {h} : wk'[g] = wk[g]
    BY <1>2, <1>t, HoldsMove
  <2>2. job[p] = "none"
    BY <2>1 DEF IInv, WorkTaken, Taken
  <2>3. \A g \in Handler \ {h} : ~Holds(g, p)'
    BY <2>1, <1>i DEF Holds
  <2> QED
    BY <2>1, <2>2, <2>3
<1> QED
  BY <1>1, <1>2

LEMMA DispatchMove ==
  ASSUME TypeOK, [Next]_vars, NEW h \in Handler, wk'[h].pc = "dispatch"
  PROVE  \/ wk'[h] = wk[h]
         \/ \E t \in Task : CreateTask(h, t) /\ wk'[h].task = t
<1>h. h \in Worker /\ h # Sweeper
  BY SweeperAssumption DEF Worker
<1>1. wk'[h] # Idle /\ ~Continues(h)
  BY DEF Idle, Continues
<1>2. ASSUME NEW t \in Task, CreateTask(h, t) PROVE wk'[h].task = t
  <2>1. wk'[h] = [Idle EXCEPT !.op = "create", !.pc = "dispatch", !.task = t]
    BY <1>2, <1>h DEF CreateTask, Locals, TypeOK
  <2> QED
    BY <2>1 DEF Idle
<1>3. ASSUME NEW n \in Node, PullForNode(h, n) PROVE FALSE
  <2> DEFINE mine == {r \in Pair : r[2] = n /\ asg[r] = "assigned"}
  <2>1. wk'[h] = [Idle EXCEPT !.op = "pull", !.pc = "resolve", !.batch = mine]
    BY <1>3, <1>h DEF PullForNode, Locals, TypeOK
  <2>2. wk'[h].pc = "resolve"
    BY <2>1 DEF Idle
  <2> QED
    BY <2>2
<1>4. ASSUME NEW q \in Pair, NEW s, Send(h, q, s) PROVE FALSE
  <2>1. wk'[h] = [Idle EXCEPT !.op = "progress", !.pc = "update", !.batch = {q},
                              !.report = s]
    BY <1>4, <1>h DEF Send, Locals, TypeOK
  <2>2. wk'[h].pc = "update"
    BY <2>1 DEF Idle
  <2> QED
    BY <2>2
<1> QED
  BY <1>h, <1>1, <1>2, <1>3, <1>4, LocalsMove DEF Starts

LEMMA StatusNeverAbsent ==
  ASSUME IInv, [Next]_vars, NEW t \in Task
  PROVE  /\ status[t] # "absent" => status'[t] # "absent"
         /\ t \in deleted' => t \in deleted \/ status[t] # "absent"
<1>1. ASSUME NEW w \in Worker, AggWrite(w)
      PROVE  status[t] # "absent" => status'[t] # "absent"
  <2>1. LocalsOK(w)
    BY DEF IInv, WorkTaken
  <2> QED
    BY <1>1, <2>1 DEF AggWrite, LocalsOK, IInv, TypeOK
<1>2. status'[t] \in {status[t], "pending", "canceled"} \/ \E w \in Worker : AggWrite(w)
  BY DEF Next, vars, HandlerStep, Aggregate, SweepStep, ReportRunning, ReportFinal,
         CreateTask, Dispatch, CancelRead, CancelCAS, PullForNode, Resolve, PullReply,
         Send, UpdateProgress, ProgressReply, AggRead, AggList, AggFail, SweepList,
         SweepEnd, SweepMark, SweepSkip, Age, AgentDrop, DeleteTask, ServerCrash,
         IInv, TypeOK
<1>3. deleted' = deleted \/ \E u \in Task : DeleteTask(u)
  BY DEF Next, vars, HandlerStep, Aggregate, SweepStep, ReportRunning, ReportFinal,
         CreateTask, Dispatch, CancelRead, CancelCAS, PullForNode, Resolve, PullReply,
         Send, UpdateProgress, ProgressReply, AggRead, AggList, AggWrite, AggFail,
         SweepList, SweepEnd, SweepMark, SweepSkip, Age, AgentDrop, ServerCrash
<1> QED
  BY <1>1, <1>2, <1>3 DEF DeleteTask, Visible

LEMMA DispatchedStep == IInv /\ [Next]_vars => DispatchedOnce'
<1> SUFFICES ASSUME IInv, [Next]_vars PROVE DispatchedOnce'
  OBVIOUS
<1>t. TypeOK /\ DispatchedOnce /\ \A h \in Handler : h \in Worker
  BY DEF IInv, Worker
\* Rows appear only for the task of the goroutine that dispatches it.
<1>1. ASSUME NEW t, Rows(t) = {}, Rows(t)' # {}
      PROVE  \E h \in Handler : Dispatch(h) /\ t = wk[h].task
  <2>1. ASSUME NEW h \in Handler, Dispatch(h), t # wk[h].task PROVE FALSE
    BY <1>1, <2>1, DispatchRows DEF Rows
  <2> QED
    BY <1>1, <2>1, RowsGrow, GrowthKeepsRows
<1>2. ASSUME NEW t \in Task, status'[t] = "absent"
      PROVE  Rows(t)' = {} /\ t \notin deleted'
  <2>1. status[t] = "absent" /\ Rows(t) = {} /\ t \notin deleted'
    BY <1>2, <1>t, StatusNeverAbsent DEF DispatchedOnce
  <2> QED
    BY <2>1, <1>1, <1>t DEF DispatchedOnce, Dispatch
<1>3. ASSUME NEW h \in Handler, wk'[h].pc = "dispatch"
      PROVE  /\ status'[wk'[h].task] # "absent" /\ wk'[h].task \in Task
             /\ \A t : t = wk'[h].task => Rows(t)' = {}
             /\ \A g \in Handler \ {h} :
                  wk'[g].pc = "dispatch" => wk'[g].task # wk'[h].task
  <2>1. CASE wk'[h] = wk[h]
    <3>1. ~Dispatch(h)
      BY <1>3, <1>t, <2>1 DEF Dispatch, Locals, TypeOK, Idle
    <3>2. /\ status[wk[h].task] # "absent" /\ wk[h].task \in Task
          /\ Rows(wk[h].task) = {}
      BY <1>3, <1>t, <2>1 DEF DispatchedOnce
    <3>3. ASSUME NEW g \in Handler \ {h}, wk[g].pc = "dispatch"
          PROVE  wk[g].task # wk[h].task
      BY <1>3, <1>t, <2>1, <3>3 DEF DispatchedOnce
    <3>4. \A t : t = wk[h].task => Rows(t)' = {}
      BY <1>1, <3>1, <3>2, <3>3 DEF Dispatch
    <3>5. ASSUME NEW g \in Handler \ {h}, wk'[g].pc = "dispatch"
          PROVE  wk'[g].task # wk[h].task
      <4>1. CASE wk'[g] = wk[g]
        BY <3>3, <3>5, <4>1
      <4>2. ASSUME NEW t \in Task, CreateTask(g, t), wk'[g].task = t
            PROVE  wk'[g].task # wk[h].task
        BY <3>2, <4>2 DEF CreateTask
      <4> QED
        BY <1>t, <3>5, <4>1, <4>2, DispatchMove
    <3> QED
      BY <2>1, <3>2, <3>4, <3>5, StatusNeverAbsent
  <2>2. ASSUME NEW t \in Task, CreateTask(h, t), wk'[h].task = t
        PROVE  /\ status'[wk'[h].task] # "absent" /\ wk'[h].task \in Task
               /\ \A u : u = wk'[h].task => Rows(u)' = {}
               /\ \A g \in Handler \ {h} :
                    wk'[g].pc = "dispatch" => wk'[g].task # wk'[h].task
    <3>1. status'[t] = "pending" /\ status[t] = "absent" /\ asg' = asg
      BY <2>2, <1>t DEF CreateTask, TypeOK
    <3>2. Rows(t)' = {}
      BY <3>1, <1>t DEF DispatchedOnce, Rows
    <3>3. ASSUME NEW g \in Handler \ {h}, wk'[g].pc = "dispatch"
          PROVE  wk'[g].task # t
      <4>1. wk'[g] = wk[g]
        BY <2>2, <1>t DEF CreateTask, Locals, TypeOK
      <4> QED
        BY <3>1, <3>3, <4>1, <1>t DEF DispatchedOnce
    <3> QED
      BY <2>2, <3>1, <3>2, <3>3
  <2> QED
    BY <1>3, <1>t, <2>1, <2>2, DispatchMove
<1> QED
  BY <1>2, <1>3 DEF DispatchedOnce, Rows

-----------------------------------------------------------------------------
(* The theorems *)

THEOREM Invariant == Spec => []IInv
<1>1. IInv /\ [Next]_vars => IInv'
  BY TypeStep, DispatchedStep, WorkStep, StatusStep, HandedStep DEF IInv
<1> QED
  BY InvInit, <1>1, PTL DEF Spec

\* What a task's status says of its assignments is true, although it is decided
\* on a list that was read before the write (aggregateTaskStatus).
THEOREM StatusIsJustified == Spec => []StatusJustified
  BY Invariant, PTL DEF IInv

\* No assignment is in the hands of two PullTasks calls or of a call and an
\* agent goroutine (PullForNode).
THEOREM HandedOutOnce == Spec => []HandedToOne
  BY Invariant, PTL DEF IInv

\* Assignments only move forward (UpdateStatusByNode, SweepStaleAssignments).
THEOREM AssignmentsMoveForward == Spec => AssignmentForward
<1>1. IInv /\ [Next]_vars =>
        [\A p \in Pair : /\ Rank(asg[p]) <= Rank(asg'[p])
                         /\ asg[p] = "failed" => asg'[p] = "failed"]_vars
  <2> SUFFICES ASSUME IInv, [Next]_vars, NEW p \in Pair
               PROVE  /\ Rank(asg[p]) <= Rank(asg'[p])
                      /\ asg[p] = "failed" => asg'[p] = "failed"
    OBVIOUS
  <2>1. asg[p] \in AssignmentStatus \cup {"none"}
    BY DEF IInv, TypeOK
  <2>2. CASE Grows(p)
    BY <2>1, <2>2 DEF Grows, Taken, Rank, AssignmentStatus, SettledAssignment
  <2>3. ASSUME NEW h \in Handler, Dispatch(h)
        PROVE  /\ Rank(asg[p]) <= Rank(asg'[p])
               /\ asg[p] = "failed" => asg'[p] = "failed"
    <3>1. asg'[p] = asg[p] \/ (asg[p] = "none" /\ asg'[p] = "assigned")
      BY <2>3, DispatchRows DEF Dispatch
    <3> QED
      BY <2>1, <3>1 DEF Rank, AssignmentStatus, SettledAssignment
  <2> QED
    BY <2>2, <2>3, RowsGrow
<1> QED
  BY Invariant, <1>1, PTL DEF Spec, AssignmentForward

\* The status of a soft-deleted task never changes again.
THEOREM DeletedStaysFrozen == Spec => DeletedFrozen
<1>1. IInv /\ [Next]_vars =>
        [\A t \in deleted : t \in deleted' /\ status'[t] = status[t]]_vars
  <2> SUFFICES ASSUME IInv, [Next]_vars, NEW t \in deleted
               PROVE  t \in deleted' /\ status'[t] = status[t]
    OBVIOUS
  <2>t. TypeOK /\ t \in Task /\ status[t] # "absent"
    BY DEF IInv, TypeOK, DispatchedOnce
  <2> QED
    BY <2>t DEF Next, vars, HandlerStep, Aggregate, SweepStep, ReportRunning,
         ReportFinal, CreateTask, Dispatch, CancelRead, CancelCAS, PullForNode,
         Resolve, PullReply, Send, UpdateProgress, ProgressReply, AggRead, AggList,
         AggWrite, AggFail, SweepList, SweepEnd, SweepMark, SweepSkip, Age,
         AgentDrop, DeleteTask, ServerCrash, TypeOK, Visible
<1> QED
  BY Invariant, <1>1, PTL DEF Spec, DeletedFrozen

\* A terminal task changes only through an aggregation already under way.
THEOREM TerminalIsFinalOnceQuiet == Spec => TerminalOnceQuiet
<1>1. IInv /\ [Next]_vars =>
        [\A t \in Task :
           status[t] \in TerminalTask /\ (\A w \in Worker : ~Deciding(w, t))
             => status'[t] = status[t]]_vars
  <2> SUFFICES ASSUME IInv, [Next]_vars, NEW t \in Task, status[t] \in TerminalTask,
                      \A w \in Worker : ~Deciding(w, t)
               PROVE  status'[t] = status[t]
    OBVIOUS
  <2>1. ASSUME NEW w \in Worker, AggWrite(w) PROVE status'[t] = status[t]
    BY <2>1 DEF AggWrite, Deciding, IInv, TypeOK
  <2>2. ASSUME NEW h \in Handler, CancelCAS(h) PROVE status'[t] = status[t]
    BY <2>2 DEF CancelCAS, TerminalTask, IInv, TypeOK
  <2>3. ASSUME NEW h \in Handler, NEW u \in Task, CreateTask(h, u)
        PROVE  status'[t] = status[t]
    BY <2>3 DEF CreateTask, TerminalTask, IInv, TypeOK
  <2>4. \/ status' = status
        \/ \E w \in Worker : AggWrite(w)
        \/ \E h \in Handler : CancelCAS(h) \/ \E u \in Task : CreateTask(h, u)
    BY DEF Next, vars, HandlerStep, Aggregate, SweepStep, ReportRunning,
         ReportFinal, Dispatch, CancelRead, PullForNode,
         Resolve, PullReply, Send, UpdateProgress, ProgressReply, AggRead, AggList,
         AggFail, SweepList, SweepEnd, SweepMark, SweepSkip, Age,
         AgentDrop, DeleteTask, ServerCrash
  <2> QED
    BY <2>1, <2>2, <2>3, <2>4
<1> QED
  BY Invariant, <1>1, PTL DEF Spec, TerminalOnceQuiet

-----------------------------------------------------------------------------
(* The at-most-once work queue *)

\* The phase of a row moves as the queue allows.
LEMMA PhaseMove ==
  ASSUME IInv, [Next]_vars, NEW p \in Pair
  PROVE  Grows(p) => \/ PhaseOf(asg'[p]) = PhaseOf(asg[p])
                     \/ PhaseOf(asg[p]) = "queued" /\ asg'[p] = "pulled"
                     \/ PhaseOf(asg[p]) = "claimed" /\ PhaseOf(asg'[p]) = "settled"
<1>1. asg[p] \in AssignmentStatus \cup {"none"}
  BY DEF IInv, TypeOK
<1> QED
  BY <1>1 DEF Grows, Taken, PhaseOf, AssignmentStatus, SettledAssignment

\* Every step of the detailed system is a step of the queue or none.
LEMMA QueueStep == IInv /\ [Next]_vars => [Queue!QueueNext]_(Queue!queueVars)
<1> SUFFICES ASSUME IInv, [Next]_vars
             PROVE  [Queue!QueueNext]_(Queue!queueVars)
  OBVIOUS
<1> DEFINE ph == [p \in Pair |-> PhaseOf(asg[p])]
           st == {p \in Pair : job[p] # "none"}
<1>t. TypeOK /\ WorkTaken
  BY DEF IInv
<1>1. ASSUME asg' = asg, st' = st PROVE UNCHANGED Queue!queueVars
  BY <1>1 DEF Queue!queueVars
<1>2. ASSUME NEW h \in Handler, Dispatch(h) PROVE \E S \in SUBSET Pair : Queue!Offer(S)
  <2>1. PICK N \in SUBSET Node :
          asg' = [p \in Pair |-> IF p[1] = wk[h].task /\ p[2] \in N
                                 THEN "assigned" ELSE asg[p]]
    BY <1>2 DEF Dispatch
  <2> DEFINE S == {p \in Pair : p[1] = wk[h].task /\ p[2] \in N}
  <2>2. \A p \in S : asg[p] = "none"
    BY <1>2 DEF IInv, DispatchedOnce, Dispatch, Rows
  <2>3. S \subseteq {p \in Pair : ph[p] = "none"}
    BY <2>2 DEF PhaseOf
  <2>4. ph' = [p \in Pair |-> IF p \in S THEN "queued" ELSE ph[p]]
    BY <2>1 DEF PhaseOf
  <2>5. st' = st
    BY <1>2 DEF Dispatch
  <2> QED
    BY <2>3, <2>4, <2>5 DEF Queue!Offer, Queue!Move
<1>3. ASSUME NEW h \in Handler, NEW n \in Node, PullForNode(h, n)
      PROVE  \E S \in SUBSET Pair : Queue!Claim(S)
  <2> DEFINE S == {p \in Pair : p[2] = n /\ asg[p] = "assigned"}
  <2>1. S \subseteq {p \in Pair : ph[p] = "queued"}
    BY DEF PhaseOf
  <2>2. ph' = [p \in Pair |-> IF p \in S THEN "claimed" ELSE ph[p]]
    BY <1>3 DEF PullForNode, PhaseOf
  <2>3. st' = st
    BY <1>3 DEF PullForNode
  <2> QED
    BY <2>1, <2>2, <2>3 DEF Queue!Claim, Queue!Move
<1>4. ASSUME NEW p \in Pair, Grows(p), \A q \in Pair \ {p} : asg'[q] = asg[q],
             st' = st, asg' \in [Pair -> AssignmentStatus \cup {"none"}],
             asg'[p] # "pulled"
      PROVE  Queue!Settle(p) \/ UNCHANGED Queue!queueVars
  <2>1. CASE PhaseOf(asg'[p]) = PhaseOf(asg[p])
    <3>1. ph' = ph
      BY <1>4, <2>1
    <3> QED
      BY <1>4, <3>1 DEF Queue!queueVars
  <2>2. CASE PhaseOf(asg[p]) = "claimed" /\ PhaseOf(asg'[p]) = "settled"
    <3>1. ph' = [q \in Pair |-> IF q \in {p} THEN "settled" ELSE ph[q]]
      BY <1>4, <2>2
    <3> QED
      BY <1>4, <2>2, <3>1 DEF Queue!Settle, Queue!Move
  <2> QED
    BY <1>4, <2>1, <2>2, PhaseMove
<1>5. ASSUME NEW h \in Handler, PullReply(h), job' # job
      PROVE  \E S \in SUBSET Pair : Queue!Start(S)
  <2> DEFINE S == wk[h].out
  <2>1. \A p \in S : p \in Pair /\ job[p] = "none" /\ Taken(p)
    <3>1. h \in Worker /\ wk[h] \in WorkerState
      BY <1>t DEF TypeOK, Worker
    <3> QED
      BY <1>5, <1>t, <3>1, FieldTypes
      DEF PullReply, IInv, HandedToOne, WorkTaken, LocalsOK
  <2>2. S \subseteq {p \in Pair \ st : ph[p] \in {"claimed", "settled"}}
    <3>1. \A p \in S : PhaseOf(asg[p]) \in {"claimed", "settled"}
      BY <2>1 DEF Taken, PhaseOf
    <3> QED
      BY <2>1, <3>1
  <2>3. st' = st \cup S /\ ph' = ph
    BY <1>5, <2>1 DEF PullReply
  <2>4. S \in SUBSET Pair
    BY <2>1
  <2> QED
    BY <2>2, <2>3, <2>4 DEF Queue!Start
<1>6. (\A h \in Handler : ~(PullReply(h) /\ job' # job)) => st' = st
  <2> SUFFICES ASSUME \A h \in Handler : ~(PullReply(h) /\ job' # job), NEW p \in Pair
               PROVE  job'[p] = "none" <=> job[p] = "none"
    OBVIOUS
  <2> QED
    BY <1>t, JobMove
<1>7. ASSUME NEW h \in Handler, UpdateProgress(h)
      PROVE  (\E p \in Pair : Queue!Settle(p)) \/ UNCHANGED Queue!queueVars
  <2>1. h \in Worker /\ wk[h] \in WorkerState /\ LocalsOK(h) /\ wk[h].pc = "update"
    BY <1>7, <1>t DEF UpdateProgress, TypeOK, WorkTaken, Worker
  <2>2. PICK p \in wk[h].batch :
          \/ /\ asg[p] \notin SettledAssignment
             /\ asg' = [asg EXCEPT ![p] = wk[h].report] /\ job' = job
          \/ /\ job' = [job EXCEPT ![p] = IF @ = "wait" THEN "over" ELSE @]
             /\ UNCHANGED asg
    BY <1>7 DEF UpdateProgress
  <2>3. p \in Pair /\ Taken(p) /\ wk[h].report \in {"running"} \cup SettledAssignment
    BY <2>1, FieldTypes DEF LocalsOK
  <2>4. CASE /\ asg[p] \notin SettledAssignment
             /\ asg' = [asg EXCEPT ![p] = wk[h].report] /\ job' = job
    <3>1. Grows(p) /\ asg'[p] # "pulled" /\ \A q \in Pair \ {p} : asg'[q] = asg[q]
      BY <1>t, <2>3, <2>4 DEF Grows, TypeOK, SettledAssignment
    <3>2. asg' \in [Pair -> AssignmentStatus \cup {"none"}]
      BY TypeStep, <1>t DEF TypeOK
    <3>3. st' = st
      BY <2>4
    <3> HIDE DEF st
    <3> QED
      BY <1>4, <2>3, <3>1, <3>2, <3>3
  <2>5. CASE /\ job' = [job EXCEPT ![p] = IF @ = "wait" THEN "over" ELSE @]
             /\ UNCHANGED asg
    <3>1. \A q \in Pair : job'[q] = "none" <=> job[q] = "none"
      BY <1>t, <2>3, <2>5 DEF TypeOK
    <3>2. st' = st
      BY <3>1
    <3> QED
      BY <1>1, <2>5, <3>2
  <2> QED
    BY <2>2, <2>4, <2>5
<1>8. ASSUME NEW p \in Pair, SweepMark(p)
      PROVE  Queue!Settle(p) \/ UNCHANGED Queue!queueVars
  <2>1. LocalsOK(Sweeper)
    BY <1>t DEF WorkTaken, Worker
  <2>2. Taken(p) /\ asg' = [asg EXCEPT ![p] = "failed"] /\ job' = job
    BY <1>8, <2>1 DEF SweepMark, LocalsOK
  <2>3. Grows(p) /\ asg'[p] # "pulled" /\ \A q \in Pair \ {p} : asg'[q] = asg[q]
    BY <1>t, <2>2 DEF Grows, TypeOK, SettledAssignment
  <2>4. asg' \in [Pair -> AssignmentStatus \cup {"none"}]
    BY TypeStep, <1>t DEF TypeOK
  <2>5. st' = st
    BY <2>2
  <2> HIDE DEF st
  <2> QED
    BY <1>4, <2>3, <2>4, <2>5
<1>9. \/ UNCHANGED asg
      \/ \E h \in Handler, n \in Node : PullForNode(h, n)
      \/ \E h \in Handler : UpdateProgress(h)
      \/ \E q \in Pair : SweepMark(q)
      \/ \E h \in Handler : Dispatch(h)
  BY DEF Next, vars, HandlerStep, Aggregate, SweepStep, ReportRunning, ReportFinal,
         CreateTask, CancelRead, CancelCAS, Resolve, PullReply, Send, ProgressReply,
         AggRead, AggList, AggWrite, AggFail, SweepList, SweepEnd, SweepSkip, Age,
         AgentDrop, DeleteTask, ServerCrash
<1> HIDE DEF ph, st
<1>10. CASE UNCHANGED asg
  BY <1>1, <1>5, <1>6, <1>10 DEF Queue!QueueNext
<1> QED
  BY <1>2, <1>3, <1>7, <1>8, <1>9, <1>10 DEF Queue!QueueNext

\* The scan-task core implements the at-most-once work queue.
THEOREM QueueImplemented == Spec => ImplementsQueue
<1>1. Init => Queue!QueueInit
  BY DEF Init, Queue!QueueInit, PhaseOf
<1> QED
  BY Invariant, <1>1, QueueStep, PTL DEF Spec, ImplementsQueue, Queue!QueueSpec

-----------------------------------------------------------------------------
(***************************************************************************)
(* ScanTasks implements TaskLife, the view of a task row SuiteRun is built *)
(* on.  An aggregation that has read its task and not yet left it is the   *)
(* abstract reading[w]; every other statement is no abstract step.         *)
(***************************************************************************)

Reads == [w \in Worker |-> IF wk[w].pc \in {"list", "write"}
                           THEN wk[w].task ELSE NoTask]

\* An aggregation has a task in hand, and what it writes was decided.
ReadOK(r) ==
  /\ r.pc \in {"list", "write"} => r.task \in Task
  /\ r.pc = "write" => r.next \in Life!Aggregated

RInv == IInv /\ \A w \in Worker : ReadOK(wk[w])

LEMMA AggregateDecides == \A t : AggregateOf(t) \in Life!Aggregated
  BY DEF AggregateOf, Life!Aggregated

\* Goroutine w goes on with r.
LEMMA ReadMove ==
  ASSUME TypeOK, NEW w \in Worker, NEW r, Locals(w, r)
  PROVE  /\ wk'[w] = r
         /\ \A v \in Worker \ {w} : wk'[v] = wk[v]
  BY DEF TypeOK, Locals

\* It is at no aggregation, before and after.
LEMMA QuietRead ==
  ASSUME RInv, NEW w \in Worker, NEW r, Locals(w, r),
         wk[w].pc \notin {"list", "write"}, r.pc \notin {"list", "write"}
  PROVE  Reads' = Reads /\ \A v \in Worker : ReadOK(wk'[v])
<1>1. /\ wk'[w] = r
      /\ \A v \in Worker \ {w} : wk'[v] = wk[v]
  BY ReadMove DEF RInv, IInv
<1> QED
  BY <1>1 DEF RInv, Reads, ReadOK

\* It leaves the aggregation it is at.
LEMMA LeaveRead ==
  ASSUME RInv, NEW w \in Worker, NEW t, Leave(w, t)
  PROVE  /\ Reads' = [v \in Worker |-> IF v \in {w} THEN NoTask ELSE Reads[v]]
         /\ \A v \in Worker : ReadOK(wk'[v])
<1> DEFINE d == wk[w].todo \ {t}
<1>0. PICK r : r = [wk[w] EXCEPT !.pc = "agg", !.todo = d, !.task = NoTask,
                                 !.seen = "absent", !.next = "absent"]
  OBVIOUS
<1>1. Locals(w, r)
  BY <1>0 DEF Leave
<1> HIDE DEF d
<1>2. r.pc = "agg"
  BY <1>0 DEF RInv, IInv, TypeOK, WorkerState
<1>3. /\ wk'[w] = r
      /\ \A v \in Worker \ {w} : wk'[v] = wk[v]
  BY <1>1, ReadMove DEF RInv, IInv
<1> QED
  BY <1>2, <1>3 DEF RInv, Reads, ReadOK

\* The steps of goroutines that are not statements of an aggregation.
LEMMA OtherRead ==
  ASSUME RInv,
         \/ \E h \in Handler : HandlerStep(h)
         \/ SweepStep
  PROVE  Reads' = Reads /\ \A v \in Worker : ReadOK(wk'[v])
<1>h. Handler \subseteq Worker /\ Sweeper \in Worker
  BY DEF Worker
<1>w. \A w \in Worker : wk[w] \in WorkerState
  BY DEF RInv, IInv, TypeOK
<1>1. ASSUME NEW h \in Handler, NEW t \in Task, CreateTask(h, t) \/ CancelRead(h, t)
      PROVE  Reads' = Reads /\ \A v \in Worker : ReadOK(wk'[v])
  <2>1. PICK o, c :
          /\ Locals(h, [Idle EXCEPT !.op = o, !.pc = c, !.task = t])
          /\ c \in {"dispatch", "cas"}
    BY <1>1 DEF CreateTask, CancelRead
  <2>2. PICK r : r = [Idle EXCEPT !.op = o, !.pc = c, !.task = t]
    OBVIOUS
  <2>3. r.pc = c
    BY <2>2, IdleType DEF WorkerState
  <2> QED
    BY <1>1, <1>h, <2>1, <2>2, <2>3, QuietRead DEF CreateTask, CancelRead
<1>2. ASSUME NEW h \in Handler, NEW n \in Node, PullForNode(h, n)
      PROVE  Reads' = Reads /\ \A v \in Worker : ReadOK(wk'[v])
  <2>1. PICK b : Locals(h, [Idle EXCEPT !.op = "pull", !.pc = "resolve", !.batch = b])
    BY <1>2 DEF PullForNode
  <2>2. PICK r : r = [Idle EXCEPT !.op = "pull", !.pc = "resolve", !.batch = b]
    OBVIOUS
  <2>3. r.pc = "resolve"
    BY <2>2, IdleType DEF WorkerState
  <2> QED
    BY <1>2, <1>h, <2>1, <2>2, <2>3, QuietRead DEF PullForNode
<1>3. ASSUME NEW h \in Handler, NEW p \in Pair, ReportRunning(h, p) \/ ReportFinal(h, p)
      PROVE  Reads' = Reads /\ \A v \in Worker : ReadOK(wk'[v])
  <2>1. PICK s : Send(h, p, s)
    BY <1>3 DEF ReportRunning, ReportFinal
  <2>2. PICK r : r = [Idle EXCEPT !.op = "progress", !.pc = "update",
                                  !.batch = {p}, !.report = s]
    OBVIOUS
  <2>3. r.pc = "update" /\ Locals(h, r)
    BY <2>1, <2>2, IdleType DEF Send, WorkerState
  <2> QED
    BY <2>1, <1>h, <2>3, QuietRead DEF Send
<1>4. ASSUME NEW h \in Handler,
             Dispatch(h) \/ CancelCAS(h) \/ PullReply(h) \/ ProgressReply(h)
      PROVE  Reads' = Reads /\ \A v \in Worker : ReadOK(wk'[v])
  BY <1>4, <1>h, QuietRead DEF Dispatch, CancelCAS, PullReply, ProgressReply, Idle
<1>5. ASSUME NEW h \in Handler, Resolve(h)
      PROVE  Reads' = Reads /\ \A v \in Worker : ReadOK(wk'[v])
  <2>1. PICK b, c, o, d :
          /\ Locals(h, [wk[h] EXCEPT !.batch = b, !.pc = c, !.out = o, !.todo = d])
          /\ c \in {"resolve", "agg"}
    BY <1>5 DEF Resolve
  <2>2. PICK r : r = [wk[h] EXCEPT !.batch = b, !.pc = c, !.out = o, !.todo = d]
    OBVIOUS
  <2>3. r.pc = c
    BY <1>h, <1>w, <2>2 DEF WorkerState
  <2> QED
    BY <1>5, <1>h, <2>1, <2>2, <2>3, QuietRead DEF Resolve
<1>6. ASSUME NEW h \in Handler, UpdateProgress(h)
      PROVE  Reads' = Reads /\ \A v \in Worker : ReadOK(wk'[v])
  <2>1. PICK d : Locals(h, [wk[h] EXCEPT !.pc = "agg", !.todo = d]) \/ Locals(h, Idle)
    BY <1>6 DEF UpdateProgress
  <2>2. PICK r : r = [wk[h] EXCEPT !.pc = "agg", !.todo = d]
    OBVIOUS
  <2>3. r.pc = "agg" /\ Idle.pc = "idle"
    BY <1>h, <1>w, <2>2 DEF WorkerState, Idle
  <2> QED
    BY <1>6, <1>h, <2>1, <2>2, <2>3, QuietRead DEF UpdateProgress
<1>7. CASE SweepList \/ SweepEnd
  <2>1. PICK r : r = [Idle EXCEPT !.op = "sweep", !.pc = "mark", !.batch = Stale]
    OBVIOUS
  <2>2. r.pc = "mark" /\ Idle.pc = "idle"
    BY <2>1, IdleType DEF WorkerState, Idle
  <2>3. Locals(Sweeper, r) \/ Locals(Sweeper, Idle)
    BY <1>7, <2>1 DEF SweepList, SweepEnd
  <2> QED
    BY <1>7, <1>h, <2>2, <2>3, QuietRead DEF SweepList, SweepEnd
<1>8. ASSUME NEW p \in Pair, SweepMark(p) \/ SweepSkip(p)
      PROVE  Reads' = Reads /\ \A v \in Worker : ReadOK(wk'[v])
  <2>1. PICK touched : SweepNext(p, touched)
    BY <1>8 DEF SweepMark, SweepSkip
  <2>2. PICK b, c, d :
          /\ Locals(Sweeper, [wk[Sweeper] EXCEPT !.batch = b, !.pc = c, !.todo = d])
          /\ c \in {"mark", "agg"}
    BY <2>1 DEF SweepNext
  <2>3. PICK r : r = [wk[Sweeper] EXCEPT !.batch = b, !.pc = c, !.todo = d]
    OBVIOUS
  <2>4. r.pc = c
    BY <1>h, <1>w, <2>3 DEF WorkerState
  <2> QED
    BY <1>8, <1>h, <2>2, <2>3, <2>4, QuietRead DEF SweepMark, SweepSkip
<1> QED
  BY <1>1, <1>2, <1>3, <1>4, <1>5, <1>6, <1>7, <1>8 DEF HandlerStep, SweepStep

\* What the steps do to the rows: a step of the abstract life, or none.
LEMMA LifeStep ==
  ASSUME RInv, [Next]_vars
  PROVE  [Life!LifeNext]_(Life!life) /\ \A v \in Worker : ReadOK(wk'[v])
<1> DEFINE Goal == [Life!LifeNext]_(Life!life) /\ \A v \in Worker : ReadOK(wk'[v])
<1>t. /\ TypeOK /\ NoTask \notin Task
      /\ \A w \in Worker : wk[w] \in WorkerState /\ ReadOK(wk[w])
  BY NoTaskAssumption DEF RInv, IInv, TypeOK
<1>u. ASSUME UNCHANGED <<status, deleted>>, Reads' = Reads,
             \A v \in Worker : ReadOK(wk'[v])
      PROVE  Goal
  BY <1>u DEF Life!life, Reads
<1>f. ASSUME NEW w \in Worker, NEW t, Leave(w, t), UNCHANGED <<status, deleted>>
      PROVE  Goal
  <2>1. Life!Forget({w})
    BY <1>f, LeaveRead DEF Life!Forget, Reads
  <2> QED
    BY <1>f, <2>1, LeaveRead DEF Life!LifeNext
<1>1. ASSUME NEW h \in Handler, HandlerStep(h) PROVE Goal
  <2>1. Reads' = Reads /\ \A v \in Worker : ReadOK(wk'[v])
    BY <1>1, OtherRead
  <2>2. ASSUME NEW t \in Task, CreateTask(h, t) PROVE Life!Insert(t)
    BY <2>1, <2>2 DEF CreateTask, Life!Insert, Reads
  <2>3. CASE CancelCAS(h)
    <3>1. CASE /\ wk[h].task \in Task /\ Visible(wk[h].task)
               /\ status[wk[h].task] \in {"pending", "running"}
      <4>1. Life!Cancel(wk[h].task)
        BY <2>1, <2>3, <3>1 DEF CancelCAS, Life!Cancel, Life!Open, Life!Visible,
                                Life!TerminalTask, Visible, Reads
      <4> QED
        BY <2>1, <3>1, <4>1 DEF Life!LifeNext
    <3>2. CASE ~(/\ wk[h].task \in Task /\ Visible(wk[h].task)
                 /\ status[wk[h].task] \in {"pending", "running"})
      <4>1. status' = status /\ deleted' = deleted
        BY <1>t, <2>3, <3>2 DEF CancelCAS, TypeOK
      <4> QED
        BY <1>u, <2>1, <4>1
    <3> QED
      BY <3>1, <3>2
  <2>4. \/ UNCHANGED <<status, deleted>>
        \/ CancelCAS(h) \/ \E t \in Task : CreateTask(h, t)
    BY <1>1 DEF HandlerStep, CancelRead, PullForNode, ReportRunning, ReportFinal, Send,
                Dispatch, Resolve, PullReply, UpdateProgress, ProgressReply
  <2> QED
    BY <1>u, <2>1, <2>2, <2>3, <2>4 DEF Life!LifeNext
<1>2. CASE SweepStep
  <2>1. UNCHANGED <<status, deleted>>
    BY <1>2 DEF SweepStep, SweepList, SweepEnd, SweepMark, SweepSkip
  <2> QED
    BY <1>2, <1>u, <2>1, OtherRead
<1>3. ASSUME NEW w \in Worker, AggRead(w) PROVE Goal
  <2>1. PICK t \in wk[w].todo :
          IF Visible(t) /\ status[t] \notin TerminalTask
          THEN Locals(w, [wk[w] EXCEPT !.pc = "list", !.task = t, !.seen = status[t]])
          ELSE Leave(w, t)
    BY <1>3 DEF AggRead
  <2>2. CASE Leave(w, t)
    BY <1>3, <1>f, <2>2 DEF AggRead
  <2>3. CASE ~Leave(w, t)
    <3>0. PICK r : r = [wk[w] EXCEPT !.pc = "list", !.task = t, !.seen = status[t]]
      OBVIOUS
    <3>1. r.pc = "list" /\ r.task = t
      BY <1>t, <3>0 DEF WorkerState
    <3>2. /\ wk'[w] = r
          /\ \A v \in Worker \ {w} : wk'[v] = wk[v]
      BY <1>t, <2>1, <2>3, <3>0, ReadMove
    <3>3. t \in Task
      BY <1>t, FieldTypes
    <3>4. Reads' = [Reads EXCEPT ![w] = t] /\ Reads[w] = NoTask
      BY <1>3, <3>1, <3>2 DEF Reads, AggRead
    <3>5. Life!Begin(w, t)
      BY <1>3, <2>1, <2>3, <3>4 DEF AggRead, Life!Begin, Life!Open, Life!Visible,
                                    Life!TerminalTask, Visible, TerminalTask, Reads
    <3>6. \A v \in Worker : ReadOK(wk'[v])
      BY <1>t, <3>1, <3>2, <3>3 DEF ReadOK
    <3> QED
      BY <3>3, <3>5, <3>6 DEF Life!LifeNext
  <2> QED
    BY <2>2, <2>3
<1>4. ASSUME NEW w \in Worker, AggList(w) PROVE Goal
  <2> DEFINE x == AggregateOf(wk[w].task)
  <2>1. CASE Leave(w, wk[w].task)
    BY <1>4, <1>f, <2>1 DEF AggList
  <2>2. CASE Locals(w, [wk[w] EXCEPT !.pc = "write", !.next = x])
    <3>x. x \in Life!Aggregated
      BY AggregateDecides
    <3> HIDE DEF x
    <3>0. PICK r : r = [wk[w] EXCEPT !.pc = "write", !.next = x]
      OBVIOUS
    <3>1. r.pc = "write" /\ r.task = wk[w].task /\ r.next = x
      BY <1>t, <3>0 DEF WorkerState
    <3>2. /\ wk'[w] = r
          /\ \A v \in Worker \ {w} : wk'[v] = wk[v]
      BY <1>t, <2>2, <3>0, ReadMove
    <3>3. Reads' = Reads /\ \A v \in Worker : ReadOK(wk'[v])
      BY <1>4, <1>t, <3>x, <3>1, <3>2 DEF Reads, ReadOK, AggList
    <3> QED
      BY <1>4, <1>u, <3>3 DEF AggList
  <2> QED
    BY <1>4, <2>1, <2>2 DEF AggList
<1>5. ASSUME NEW w \in Worker, AggWrite(w) PROVE Goal
  <2>1. /\ Leave(w, wk[w].task) /\ deleted' = deleted /\ wk[w].pc = "write"
        /\ status' = [status EXCEPT ![wk[w].task] =
                        IF wk[w].task \in deleted THEN @ ELSE wk[w].next]
    BY <1>5 DEF AggWrite
  <2>2. wk[w].task \in Task /\ wk[w].next \in Life!Aggregated /\ Reads[w] = wk[w].task
    BY <1>t, <2>1 DEF ReadOK, Reads
  <2>3. /\ Reads' = [v \in Worker |-> IF v \in {w} THEN NoTask ELSE Reads[v]]
        /\ \A v \in Worker : ReadOK(wk'[v])
    BY <2>1, LeaveRead
  <2>4. Reads' = [Reads EXCEPT ![w] = NoTask]
    BY <2>3 DEF Reads
  <2>5. PICK s \in Life!Aggregated : s = wk[w].next
    BY <2>2
  <2>6. Life!Conclude(w, s)
    BY <1>t, <2>1, <2>2, <2>4, <2>5 DEF Life!Conclude, Reads
  <2> QED
    BY <2>3, <2>6 DEF Life!LifeNext
<1>6. ASSUME NEW w \in Worker, AggFail(w) PROVE Goal
  BY <1>6, <1>f DEF AggFail
<1>7. ASSUME NEW t \in Task, DeleteTask(t) PROVE Goal
  <2>1. Reads' = Reads /\ \A v \in Worker : ReadOK(wk'[v])
    BY <1>7, <1>t DEF DeleteTask, Reads
  <2>2. Life!Delete(t)
    BY <1>7, <2>1 DEF DeleteTask, Life!Delete, Life!Visible, Visible, Reads
  <2> QED
    BY <2>1, <2>2 DEF Life!LifeNext
<1>8. CASE ServerCrash
  <2>1. \A v \in Worker : wk'[v].pc = "idle"
    BY <1>8 DEF ServerCrash, Idle
  <2>2. Reads' = [w \in Worker |-> NoTask] /\ \A v \in Worker : ReadOK(wk'[v])
    BY <2>1 DEF Reads, ReadOK
  <2>3. Life!Forget(Worker)
    BY <1>8, <2>2 DEF ServerCrash, Life!Forget, Reads
  <2> QED
    BY <2>2, <2>3 DEF Life!LifeNext
<1>9. CASE UNCHANGED vars \/ \E p \in Pair : Age(p) \/ AgentDrop(p)
  <2>1. UNCHANGED <<status, deleted, wk>>
    BY <1>9 DEF vars, Age, AgentDrop
  <2> QED
    BY <1>t, <1>u, <2>1 DEF Reads
<1> QED
  BY <1>1, <1>2, <1>3, <1>4, <1>5, <1>6, <1>7, <1>8, <1>9 DEF Next, Aggregate

\* The scan-task core implements the life of a task row.
THEOREM LifeImplemented == Spec => ImplementsLife
<1>1. Init => Life!LifeInit /\ \A w \in Worker : ReadOK(wk[w])
  BY DEF Init, Life!LifeInit, Idle, ReadOK
<1> DEFINE AllOK == \A w \in Worker : ReadOK(wk[w])
<1>2. IInv /\ AllOK /\ [Next]_vars => AllOK' /\ [Life!LifeNext]_(Life!life)
  <2> SUFFICES ASSUME IInv /\ AllOK, [Next]_vars
               PROVE  AllOK' /\ [Life!LifeNext]_(Life!life)
    OBVIOUS
  <2> QED
    BY LifeStep DEF RInv
<1>3. Init => AllOK
  BY <1>1
<1> HIDE DEF AllOK
<1> QED
  BY <1>1, <1>2, <1>3, Invariant, PTL DEF Spec, ImplementsLife, Life!LifeSpec
=============================================================================
