----------------------------- MODULE ScanTasks -----------------------------
(***************************************************************************)
(* The scan-task core of RedMatrix: rows of scan_tasks and of              *)
(* scan_task_assignments, the server goroutines that read and write them   *)
(* (internal/scan/service.go, internal/scan/repo, internal/scan/sweeper),  *)
(* and the agent goroutines that execute assignments                       *)
(* (internal/agent/tasks/loop.go).                                         *)
(*                                                                         *)
(* One SQL statement is one step.  Everything a goroutine keeps between    *)
(* two statements (the task row it read, the list it aggregated, the       *)
(* assignments it pulled) is in its record wk[w], so that two goroutines   *)
(* interleave exactly where the code lets them.                            *)
(***************************************************************************)
EXTENDS Naturals, FiniteSets

CONSTANTS
  Task,       \* ids of task rows
  Node,       \* ids of registered scan nodes
  Handler,    \* goroutines serving RPCs: the bound on concurrent requests
  Sweeper,    \* the one goroutine of sweeper.Run
  NoTask,     \* "no task in hand"
  MaxFaults   \* bound on server crashes and failing SQL statements

ASSUME SweeperAssumption == Sweeper \notin Handler
ASSUME NoTaskAssumption == NoTask \notin Task
ASSUME MaxFaultsAssumption == MaxFaults \in Nat

Worker == Handler \cup {Sweeper}

\* UNIQUE (task_id, node_id): an assignment is named by its pair.
Pair == Task \X Node

TerminalTask == {"completed", "failed", "canceled"}
TaskStatus == {"pending", "running"} \cup TerminalTask
SettledAssignment == {"completed", "failed"}
AssignmentStatus == {"assigned", "pulled", "running"} \cup SettledAssignment

VARIABLES
  status,   \* status[t]: scan_tasks.status, "absent" before the INSERT
  deleted,  \* tasks whose deleted_at is set
  asg,      \* asg[p]: scan_task_assignments.status, "none" without a row
  aged,     \* assignments whose started_at/pulled_at is before the cutoff
  job,      \* job[p]: the agent's goroutine for p (execTask)
  wk,       \* wk[w]: the locals of server goroutine w
  faults    \* crashes and SQL errors so far

vars == <<status, deleted, asg, aged, job, wk, faults>>

(***************************************************************************)
(* A goroutine: op is the entry point it runs, pc the next statement,      *)
(* batch the assignments it still has to visit (or the one it reports on), *)
(* out what its PullTasks reply will carry, todo the tasks it still has to *)
(* aggregate, and task/seen/next the locals of aggregateTaskStatus.        *)
(***************************************************************************)
Op == {"none", "create", "cancel", "pull", "progress", "sweep"}
PC == {"idle", "dispatch", "cas", "resolve", "update", "mark",
       "agg", "list", "write"}

WorkerState ==
  [op: Op, pc: PC, batch: SUBSET Pair, out: SUBSET Pair, todo: SUBSET Task,
   task: Task \cup {NoTask}, seen: TaskStatus \cup {"absent"},
   next: TaskStatus \cup {"absent"}, report: AssignmentStatus \cup {"none"}]

Idle ==
  [op |-> "none", pc |-> "idle", batch |-> {}, out |-> {}, todo |-> {},
   task |-> NoTask, seen |-> "absent", next |-> "absent", report |-> "none"]

JobState == {"none", "start", "wait", "exec", "over"}

TypeOK ==
  /\ status \in [Task -> TaskStatus \cup {"absent"}]
  /\ deleted \in SUBSET Task
  /\ asg \in [Pair -> AssignmentStatus \cup {"none"}]
  /\ aged \in SUBSET Pair
  /\ job \in [Pair -> JobState]
  /\ wk \in [Worker -> WorkerState]
  /\ faults \in 0..MaxFaults

Init ==
  /\ status = [t \in Task |-> "absent"]
  /\ deleted = {}
  /\ asg = [p \in Pair |-> "none"]
  /\ aged = {}
  /\ job = [p \in Pair |-> "none"]
  /\ wk = [w \in Worker |-> Idle]
  /\ faults = 0

-----------------------------------------------------------------------------
(* Reads *)

\* GetByID finds the row: inserted and not soft-deleted.
Visible(t) == status[t] # "absent" /\ t \notin deleted

\* Mutant: the query forgets its task_id condition.
RowsOfAnyTask(t) == {p \in Pair : asg[p] # "none"}

\* ListByTask.
Rows(t) == {p \in Pair : p[1] = t /\ asg[p] # "none"}

\* Mutant: an assigned row no longer clears allTerminal.
AggregateIgnoringAssigned(t) ==
  LET has(S) == \E p \in Rows(t) : asg[p] \in S
  IN  IF has({"pulled", "running"}) THEN "running"
      ELSE IF has({"failed"}) THEN "failed"
      ELSE "completed"

\* The switch of aggregateTaskStatus over the listed rows, in its order.
AggregateOf(t) ==
  LET has(S) == \E p \in Rows(t) : asg[p] \in S
  IN  IF has({"pulled", "running"}) THEN "running"
      ELSE IF has({"assigned"}) THEN "pending"
      ELSE IF has({"failed"}) THEN "failed"
      ELSE "completed"

-----------------------------------------------------------------------------
\* Goroutine w goes on with locals r.
Locals(w, r) == wk' = [wk EXCEPT ![w] = r]

(* CreateTask, CancelTask, DeleteTask *)

\* CreateTask up to the INSERT of the row (status pending).
CreateTask(h, t) ==
  /\ wk[h].pc = "idle"
  /\ status[t] = "absent"
  /\ status' = [status EXCEPT ![t] = "pending"]
  /\ Locals(h, [Idle EXCEPT !.op = "create", !.pc = "dispatch",
                            !.task = t])
  /\ UNCHANGED <<deleted, asg, aged, job, faults>>

\* dispatch: one bulk INSERT for the nodes that are allowed, online and got a
\* shard; N is any set, for the whitelist and the heartbeats decide it.  The
\* empty set inserts nothing and is no error.
Dispatch(h) ==
  /\ wk[h].pc = "dispatch"
  /\ \E N \in SUBSET Node :
       asg' = [p \in Pair |-> IF p[1] = wk[h].task /\ p[2] \in N
                              THEN "assigned" ELSE asg[p]]
  /\ Locals(h, Idle)
  /\ UNCHANGED <<status, deleted, aged, job, faults>>

\* CancelTask, first statement: GetByID and CanCancel.
CancelRead(h, t) ==
  /\ wk[h].pc = "idle"
  /\ Visible(t) /\ status[t] \in {"pending", "running"}
  /\ Locals(h, [Idle EXCEPT !.op = "cancel", !.pc = "cas",
                            !.task = t])
  /\ UNCHANGED <<status, deleted, asg, aged, job, faults>>

\* Mutant: UpdateStatus instead of the compare-and-set.
CancelAnyway(h) ==
  LET t == wk[h].task
  IN  /\ wk[h].pc = "cas"
      /\ status' = [status EXCEPT ![t] = IF Visible(t) THEN "canceled" ELSE @]
      /\ Locals(h, Idle)
      /\ UNCHANGED <<deleted, asg, aged, job, faults>>

\* CancelTask, second statement: UpdateStatusCAS from pending or running.  An
\* unmatched row is an error and nothing is written.
CancelCAS(h) ==
  LET t == wk[h].task
      matched == Visible(t) /\ status[t] \in {"pending", "running"}
  IN  /\ wk[h].pc = "cas"
      /\ status' = [status EXCEPT ![t] = IF matched THEN "canceled" ELSE @]
      /\ Locals(h, Idle)
      /\ UNCHANGED <<deleted, asg, aged, job, faults>>

\* DeleteTask: SoftDelete takes a task in any state.
DeleteTask(t) ==
  /\ Visible(t)
  /\ deleted' = deleted \cup {t}
  /\ UNCHANGED <<status, asg, aged, job, wk, faults>>

-----------------------------------------------------------------------------
(* PullForNode *)

\* Mutant: pulled rows are handed out again, to survive a lost reply.
PullAgain(h, n) ==
  LET mine == {p \in Pair : p[2] = n /\ asg[p] \in {"assigned", "pulled"}}
  IN  /\ wk[h].pc = "idle"
      /\ mine # {}
      /\ asg' = [p \in Pair |-> IF p \in mine THEN "pulled" ELSE asg[p]]
      /\ Locals(h, [Idle EXCEPT !.op = "pull", !.pc = "resolve",
                                !.batch = mine])
      /\ UNCHANGED <<status, deleted, aged, job, faults>>

\* The UPDATE ... RETURNING of PullForNode: every assigned row of the node
\* becomes pulled in one statement.
PullForNode(h, n) ==
  LET mine == {p \in Pair : p[2] = n /\ asg[p] = "assigned"}
  IN  /\ wk[h].pc = "idle"
      /\ mine # {}
      /\ asg' = [p \in Pair |-> IF p \in mine THEN "pulled" ELSE asg[p]]
      /\ Locals(h, [Idle EXCEPT !.op = "pull", !.pc = "resolve",
                                !.batch = mine])
      /\ UNCHANGED <<status, deleted, aged, job, faults>>

\* The loop of GetByID over the pulled rows: an assignment whose task is soft-
\* deleted, or whose read fails, is skipped (and stays pulled); any other is put
\* in the reply and its task is aggregated.
Resolve(h) ==
  /\ wk[h].pc = "resolve"
  /\ \E p \in wk[h].batch, found \in BOOLEAN :
       /\ found => Visible(p[1])
       /\ Locals(h, [wk[h] EXCEPT !.batch = @ \ {p},
                                  !.pc = IF wk[h].batch = {p} THEN "agg" ELSE @,
                                  !.out = IF found THEN @ \cup {p} ELSE @,
                            !.todo = IF found THEN @ \cup {p[1]} ELSE @])
  /\ UNCHANGED <<status, deleted, asg, aged, job, faults>>

\* PullTasks returns: the agent starts one goroutine per task, or the reply
\* is lost with the connection and nobody will run them.
PullReply(h) ==
  /\ wk[h].op = "pull" /\ wk[h].pc = "agg" /\ wk[h].todo = {}
  /\ \/ job' = [p \in Pair |-> IF p \in wk[h].out THEN "start" ELSE job[p]]
     \/ job' = job
  /\ Locals(h, Idle)
  /\ UNCHANGED <<status, deleted, asg, aged, faults>>

-----------------------------------------------------------------------------
(* execTask and UpdateAssignmentProgress *)

Send(h, p, s) ==
  /\ wk[h].pc = "idle"
  /\ job' = [job EXCEPT ![p] = "wait"]
  /\ Locals(h, [Idle EXCEPT !.op = "progress", !.pc = "update",
                            !.batch = {p}, !.report = s])
  /\ UNCHANGED <<status, deleted, asg, aged, faults>>

\* execTask first reports running ...
ReportRunning(h, p) == job[p] = "start" /\ Send(h, p, "running")

\* ... and, when every target was tried, completed or failed.
ReportFinal(h, p) ==
  /\ job[p] = "exec"
  /\ \E s \in SettledAssignment : Send(h, p, s)

\* The agent goroutine returns early: its RPC failed or was cut off (the
\* server may still be serving it), the agent stops or crashes.
AgentDrop(p) ==
  /\ job[p] \in {"start", "wait", "exec"}
  /\ job' = [job EXCEPT ![p] = "over"]
  /\ UNCHANGED <<status, deleted, asg, aged, wk, faults>>

\* Mutant: UpdateStatusByNode without its status NOT IN (...) condition.
UpdateAnyway(h) ==
  /\ wk[h].pc = "update"
  /\ \E p \in wk[h].batch :
       /\ asg' = [asg EXCEPT ![p] = wk[h].report]
       /\ aged' = aged \ {p}
       /\ Locals(h, [wk[h] EXCEPT !.pc = "agg", !.todo = {p[1]}])
  /\ UNCHANGED <<status, deleted, job, faults>>

\* UpdateStatusByNode: the row changes unless it is already terminal; if it
\* is, the RPC ends in NotFound and execTask gives the assignment up.  The
\* first report of running sets started_at.
UpdateProgress(h) ==
  /\ wk[h].pc = "update"
  /\ \E p \in wk[h].batch :
       \/ /\ asg[p] \notin SettledAssignment
          /\ asg' = [asg EXCEPT ![p] = wk[h].report]
          /\ aged' = IF asg[p] = "running" /\ wk[h].report = "running"
                     THEN aged ELSE aged \ {p}
          /\ Locals(h, [wk[h] EXCEPT !.pc = "agg", !.todo = {p[1]}])
          /\ job' = job
       \/ /\ asg[p] \in SettledAssignment
          /\ job' = [job EXCEPT ![p] = IF @ = "wait" THEN "over" ELSE @]
          /\ Locals(h, Idle)
          /\ UNCHANGED <<asg, aged>>
  /\ UNCHANGED <<status, deleted, faults>>

\* The RPC succeeds (an aggregation error is only logged): after "running" the
\* agent executes the plugin, after the final report its goroutine ends.
ProgressReply(h) ==
  /\ wk[h].op = "progress" /\ wk[h].pc = "agg" /\ wk[h].todo = {}
  /\ job' = [p \in Pair |->
               IF p \notin wk[h].batch \/ job[p] # "wait" THEN job[p]
               ELSE IF wk[h].report = "running" THEN "exec" ELSE "over"]
  /\ Locals(h, Idle)
  /\ UNCHANGED <<status, deleted, asg, aged, faults>>

-----------------------------------------------------------------------------
(* aggregateTaskStatus: three statements, no transaction *)

\* Leave the task in hand and go on with the rest of the caller's loop.
Leave(w, t) ==
  Locals(w, [wk[w] EXCEPT !.pc = "agg", !.todo = @ \ {t}, !.task = NoTask,
                          !.seen = "absent", !.next = "absent"])

\* Mutant: no return for a task that is already terminal.
AggReadTerminal(w) ==
  /\ wk[w].pc = "agg"
  /\ \E t \in wk[w].todo :
       IF Visible(t)
       THEN Locals(w, [wk[w] EXCEPT !.pc = "list", !.task = t,
                                    !.seen = status[t]])
       ELSE Leave(w, t)
  /\ UNCHANGED <<status, deleted, asg, aged, job, faults>>

\* GetByID; a missing or terminal task is left alone.
AggRead(w) ==
  /\ wk[w].pc = "agg"
  /\ \E t \in wk[w].todo :
       IF Visible(t) /\ status[t] \notin TerminalTask
       THEN Locals(w, [wk[w] EXCEPT !.pc = "list", !.task = t,
                                    !.seen = status[t]])
       ELSE Leave(w, t)
  /\ UNCHANGED <<status, deleted, asg, aged, job, faults>>

\* ListByTask, then the decision; no row or no change ends the call.
AggList(w) ==
  LET t == wk[w].task
  IN  /\ wk[w].pc = "list"
      /\ IF Rows(t) = {} \/ AggregateOf(t) = wk[w].seen
         THEN Leave(w, t)
         ELSE Locals(w, [wk[w] EXCEPT !.pc = "write", !.next = AggregateOf(t)])
      /\ UNCHANGED <<status, deleted, asg, aged, job, faults>>

\* Mutant: UpdateStatus without its deleted_at condition.
AggWriteDeleted(w) ==
  LET t == wk[w].task
  IN  /\ wk[w].pc = "write"
      /\ status' = [status EXCEPT ![t] = wk[w].next]
      /\ Leave(w, t)
      /\ UNCHANGED <<deleted, asg, aged, job, faults>>

\* UpdateStatus: WHERE id AND deleted_at IS NULL, whatever the status now is.
AggWrite(w) ==
  LET t == wk[w].task
  IN  /\ wk[w].pc = "write"
      /\ status' = [status EXCEPT ![t] = IF t \in deleted THEN @
                                         ELSE wk[w].next]
      /\ Leave(w, t)
      /\ UNCHANGED <<deleted, asg, aged, job, faults>>

\* One of the three statements fails: every caller logs it and goes on.
AggFail(w) ==
  /\ faults < MaxFaults
  /\ faults' = faults + 1
  /\ \/ wk[w].pc \in {"list", "write"} /\ Leave(w, wk[w].task)
     \/ wk[w].pc = "agg" /\ \E t \in wk[w].todo : Leave(w, t)
  /\ UNCHANGED <<status, deleted, asg, aged, job>>

-----------------------------------------------------------------------------
(* SweepStaleAssignments, run every 30 s by the sweeper goroutine *)

\* Time: an assignment pulled or started more than ten minutes ago.
Age(p) ==
  /\ asg[p] \in {"pulled", "running"} /\ p \notin aged
  /\ aged' = aged \cup {p}
  /\ UNCHANGED <<status, deleted, asg, job, wk, faults>>

\* Mutant: only what its name says, the running ones.
StaleRunningOnly == {p \in aged : asg[p] = "running"}

\* ListStaleRunning.
Stale == {p \in aged : asg[p] \in {"pulled", "running"}}

SweepList ==
  /\ wk[Sweeper].pc = "idle"
  /\ Stale # {}
  /\ Locals(Sweeper, [Idle EXCEPT !.op = "sweep", !.pc = "mark",
                                  !.batch = Stale])
  /\ UNCHANGED <<status, deleted, asg, aged, job, faults>>

SweepNext(p, touched) ==
  LET rest == wk[Sweeper].batch \ {p}
  IN  Locals(Sweeper, [wk[Sweeper] EXCEPT !.batch = rest,
                                          !.pc = IF rest = {} THEN "agg" ELSE "mark",
                         !.todo = @ \cup touched])

\* Mutant: the sweeper writes a status of the task's vocabulary.
SweepMarkCanceled(p) ==
  /\ wk[Sweeper].pc = "mark" /\ p \in wk[Sweeper].batch
  /\ asg' = [asg EXCEPT ![p] = "canceled"]
  /\ aged' = aged \ {p}
  /\ SweepNext(p, {p[1]})
  /\ UNCHANGED <<status, deleted, job, faults>>

\* Mutant: the sweeper puts a stale row back in the queue for a retry.
SweepMarkRequeue(p) ==
  /\ wk[Sweeper].pc = "mark" /\ p \in wk[Sweeper].batch
  /\ asg' = [asg EXCEPT ![p] = "assigned"]
  /\ aged' = aged \ {p}
  /\ SweepNext(p, {p[1]})
  /\ UNCHANGED <<status, deleted, job, faults>>

\* UpdateStatus(failed) on a listed row, by id only.
SweepMark(p) ==
  /\ wk[Sweeper].pc = "mark" /\ p \in wk[Sweeper].batch
  /\ asg' = [asg EXCEPT ![p] = "failed"]
  /\ aged' = aged \ {p}
  /\ SweepNext(p, {p[1]})
  /\ UNCHANGED <<status, deleted, job, faults>>

\* ... or the statement fails and the row waits for the next tick.
SweepSkip(p) ==
  /\ faults < MaxFaults
  /\ faults' = faults + 1
  /\ wk[Sweeper].pc = "mark" /\ p \in wk[Sweeper].batch
  /\ SweepNext(p, {})
  /\ UNCHANGED <<status, deleted, asg, aged, job>>

SweepEnd ==
  /\ wk[Sweeper].op = "sweep" /\ wk[Sweeper].pc = "agg"
  /\ wk[Sweeper].todo = {}
  /\ Locals(Sweeper, Idle)
  /\ UNCHANGED <<status, deleted, asg, aged, job, faults>>

-----------------------------------------------------------------------------
\* The server dies between two statements: every goroutine is gone and every
\* waiting agent gets a connection error.
ServerCrash ==
  /\ faults < MaxFaults
  /\ faults' = faults + 1
  /\ wk' = [w \in Worker |-> Idle]
  /\ job' = [p \in Pair |-> IF job[p] = "wait" THEN "over" ELSE job[p]]
  /\ UNCHANGED <<status, deleted, asg, aged>>

HandlerStep(h) ==
  \/ \E t \in Task : CreateTask(h, t) \/ CancelRead(h, t)
  \/ \E n \in Node : PullForNode(h, n)
  \/ \E p \in Pair : ReportRunning(h, p) \/ ReportFinal(h, p)
  \/ Dispatch(h) \/ CancelCAS(h)
  \/ Resolve(h) \/ PullReply(h)
  \/ UpdateProgress(h) \/ ProgressReply(h)

Aggregate(w) == AggRead(w) \/ AggList(w) \/ AggWrite(w)

SweepStep ==
  \/ SweepList \/ SweepEnd
  \/ \E p \in Pair : SweepMark(p) \/ SweepSkip(p)

Next ==
  \/ \E h \in Handler : HandlerStep(h)
  \/ \E w \in Worker : Aggregate(w) \/ AggFail(w)
  \/ SweepStep
  \/ \E p \in Pair : Age(p) \/ AgentDrop(p)
  \/ \E t \in Task : DeleteTask(t)
  \/ ServerCrash

Spec == Init /\ [][Next]_vars

(***************************************************************************)
(* Fairness: time passes, the sweeper's ticker keeps firing and a running  *)
(* goroutine is scheduled.  Nothing is assumed of agents or of users.      *)
(***************************************************************************)
Serving(h) ==
  Dispatch(h) \/ CancelCAS(h) \/ Resolve(h) \/ PullReply(h)
  \/ UpdateProgress(h) \/ ProgressReply(h)

Fairness ==
  /\ \A p \in Pair : WF_vars(Age(p)) /\ WF_vars(SweepMark(p))
  /\ WF_vars(SweepList) /\ WF_vars(SweepEnd)
  /\ \A w \in Worker : WF_vars(Aggregate(w))
  /\ \A h \in Handler : WF_vars(Serving(h))

FairSpec == Spec /\ Fairness
-----------------------------------------------------------------------------
(* Safety *)

\* What the rows of t must be like for status s.
Justified(t, s) ==
  /\ s = "running" => \E p \in Rows(t) : asg[p] # "assigned"
  /\ s \in {"completed", "failed"} =>
       /\ Rows(t) # {}
       /\ \A p \in Rows(t) : asg[p] \in SettledAssignment
  /\ s = "failed" => \E p \in Rows(t) : asg[p] = "failed"

\* A task is shown as running only if an agent pulled one of its assignments,
\* and as completed or failed only if it has assignments and all of them are
\* settled; failed only if one of them failed.  The aggregator decides on a
\* list read earlier, while agents report and the sweeper times out: the
\* decision must still be true of the rows when it is written, and after.
StatusJustified == \A t \in Task : Justified(t, status[t])

\* An assignment is never in the hands of two at once: two PullTasks replies
\* under way never carry the same assignment, and none that is in a reply is
\* already executing or could be pulled again.
HandedToOne ==
  \A h \in Handler : wk[h].op = "pull" =>
    \A p \in wk[h].batch \cup wk[h].out :
      /\ job[p] = "none"
      /\ asg[p] \notin {"none", "assigned"}
      /\ \A g \in Handler \ {h} :
           wk[g].op = "pull" => p \notin wk[g].batch \cup wk[g].out

\* The detailed system implements the at-most-once work queue of WorkQueue: no
\* assignment is offered, claimed, started or settled twice, none starts before
\* it was claimed and none returns to the queue, whatever replies and reports
\* are lost, late or repeated and whoever crashes.
PhaseOf(s) == CASE s = "none" -> "none" [] s = "assigned" -> "queued"
                [] s \in {"pulled", "running"} -> "claimed" [] OTHER -> "settled"

Queue == INSTANCE WorkQueue WITH
           Work <- Pair,
           phase <- [p \in Pair |-> PhaseOf(asg[p])],
           started <- {p \in Pair : job[p] # "none"}

ImplementsQueue == Queue!QueueSpec

\* Seen from outside, a task row lives as TaskLife says: an aggregation begins
\* on an open task only and concludes once, only a user cancels, and only an
\* open task; a task is inserted once and deletion is final.
Life == INSTANCE TaskLife WITH
          reading <- [w \in Worker |-> IF wk[w].pc \in {"list", "write"}
                                       THEN wk[w].task ELSE NoTask]

ImplementsLife == Life!LifeSpec

Rank(s) == CASE s = "none" -> 0 [] s = "assigned" -> 1 [] s = "pulled" -> 2
             [] s = "running" -> 3 [] OTHER -> 4

\* A late or repeated report never takes an assignment back: its status moves
\* forward only, and a failed one (reported or timed out) stays failed.
AssignmentForward ==
  [][\A p \in Pair : /\ Rank(asg[p]) <= Rank(asg'[p])
                     /\ asg[p] = "failed" => asg'[p] = "failed"]_vars

\* The write an aggregator has under way for t.
Deciding(w, t) == wk[w].pc \in {"list", "write"} /\ wk[w].task = t

\* A terminal task changes only through an aggregation that had read the task
\* before it became terminal: once no such read is under way, completed,
\* failed and canceled are final, whatever arrives later.
TerminalOnceQuiet ==
  [][\A t \in Task :
       status[t] \in TerminalTask /\ (\A w \in Worker : ~Deciding(w, t))
         => status'[t] = status[t]]_vars

\* Deletion wins over everything under way: no goroutine, whatever it read
\* before, changes the status of a soft-deleted task.
DeletedFrozen ==
  [][\A t \in deleted : t \in deleted' /\ status'[t] = status[t]]_vars

-----------------------------------------------------------------------------
(* Liveness *)

\* Whatever an agent does after it pulled (crash, lost reply, lost report, a
\* deleted task nobody executes), the assignment is settled in the end.
PulledSettles ==
  \A p \in Pair :
    asg[p] \in {"pulled", "running"} ~> asg[p] \in SettledAssignment

-----------------------------------------------------------------------------
(* What the comments of the code say, and the code does not keep *)

\* domain/task.go: a terminal task status allows no further transition.
TerminalFinal ==
  [][\A t \in Task : status[t] \in TerminalTask => status'[t] = status[t]]_vars

\* domain/task.go: completed means that every agent reported success.
CompletedMeansSuccess ==
  \A t \in Task : status[t] = "completed" =>
    \A p \in Rows(t) : asg[p] = "completed"

\* aggregateTaskStatus: when all assignments of a task are settled the task
\* becomes completed or failed.
SettledTaskTerminates ==
  \A t \in Task :
    (Visible(t) /\ Rows(t) # {}
       /\ \A p \in Rows(t) : asg[p] \in SettledAssignment)
    ~> (status[t] \in TerminalTask \/ t \in deleted)
=============================================================================
