------------------------------ MODULE SuiteRun ------------------------------
(***************************************************************************)
(* One run of a scan suite (internal/scan/suite_service.go): a chain of    *)
(* steps, one task per kind of the suite, where the aggregation that finds *)
(* a step completed creates the task of the next one.  The task rows       *)
(* behave as TaskLife says, which ScanTasks implements.  One SQL statement *)
(* is one step; wk[w] holds what goroutine w read.                         *)
(*                                                                         *)
(* Runs share no row but the suite's, so one run stands for all.           *)
(***************************************************************************)
EXTENDS Naturals, TaskLife

CONSTANTS
  LastStep,   \* len(suite.Kinds) - 1
  NoStep,     \* "not a task of this run"
  MaxFaults   \* bound on server crashes and failing SQL statements

ASSUME LastStepAssumption == LastStep \in Nat
ASSUME NoStepAssumption == NoStep \notin Nat
ASSUME NoTaskAssumption == NoTask \notin Task
ASSUME MaxFaultsAssumption == MaxFaults \in Nat

Step == 0..LastStep

TerminalRun == {"completed", "partial_failed", "failed", "canceled"}
RunStatus == {"pending", "running"} \cup TerminalRun
RunRow == [status: RunStatus \cup {"absent"}, step: Step]

VARIABLES
  run,           \* the row of scan_suite_runs: status and current_step
  suiteDeleted,  \* the suite is soft-deleted
  stepOf,        \* stepOf[t]: the step whose kind task t of the run has
  wk,            \* wk[w]: the locals of goroutine w
  faults         \* crashes and failing statements so far

vars == <<status, deleted, reading, run, suiteDeleted, stepOf, wk, faults>>

(***************************************************************************)
(* op: RunSuite or an aggregation.  pc: the next statement.  was: the task *)
(* status the task aggregation read.  seen: the run row it read.  next:    *)
(* the run status to be written.                                           *)
(***************************************************************************)
PC == {"idle", "task", "read", "suite", "list", "legacy", "advance",
       "create", "write"}

WorkerState ==
  [op: {"none", "run", "agg"}, pc: PC, was: TaskStatus \cup {"absent"},
   seen: RunRow, next: RunStatus]

NoRun == [status |-> "absent", step |-> 0]

Idle == [op |-> "none", pc |-> "idle", was |-> "absent", seen |-> NoRun,
         next |-> "pending"]

TypeOK ==
  /\ LifeType
  /\ run \in RunRow
  /\ suiteDeleted \in BOOLEAN
  /\ stepOf \in [Task -> Step \cup {NoStep}]
  /\ wk \in [Worker -> WorkerState]
  /\ faults \in 0..MaxFaults

Init ==
  /\ LifeInit
  /\ run = NoRun
  /\ suiteDeleted = FALSE
  /\ stepOf = [t \in Task |-> NoStep]
  /\ wk = [w \in Worker |-> Idle]
  /\ faults = 0

Locals(w, r) == wk' = [wk EXCEPT ![w] = r]

\* Goroutine w returns or goes on to write run status s.
Return(w) == Locals(w, Idle)
WriteNext(w, s) == Locals(w, [wk[w] EXCEPT !.pc = "write", !.next = s])

-----------------------------------------------------------------------------
\* RunSuite up to the INSERT of the run.  It read the suite before; that the
\* suite may be deleted by now is no guard of the INSERT.
RunSuite(w) ==
  /\ wk[w].pc = "idle"
  /\ run.status = "absent"
  /\ run' = [status |-> "pending", step |-> 0]
  /\ Locals(w, [Idle EXCEPT !.op = "run", !.pc = "create"])
  /\ UNCHANGED <<life, suiteDeleted, stepOf, faults>>

\* Mutant: RunSuite's first step is step 1.
WantedFromOne(w) == wk[w].seen.step + 1

\* The step createStepTask is called for.
Wanted(w) == IF wk[w].op = "run" THEN 0 ELSE wk[w].seen.step + 1

\* createStepTask: CreateTask inserts the task; an aggregation then reports a
\* run that was not running as running.
CreateStep(w) ==
  /\ wk[w].pc = "create"
  /\ \E t \in Task :
       /\ Insert(t)
       /\ stepOf' = [stepOf EXCEPT ![t] = Wanted(w)]
  /\ IF wk[w].op = "run" \/ wk[w].seen.status = "running"
     THEN Return(w)
     ELSE WriteNext(w, "running")
  /\ UNCHANGED <<run, suiteDeleted, faults>>

\* ... or it refuses (the project was archived, say): the run has failed.
CreateFails(w) ==
  /\ wk[w].pc = "create"
  /\ WriteNext(w, "failed")
  /\ UNCHANGED <<life, run, suiteDeleted, stepOf, faults>>

-----------------------------------------------------------------------------
\* aggregateTaskStatus of a task of the run: the read of the task, ...
AggBegin(w, t) ==
  /\ wk[w].pc = "idle"
  /\ stepOf[t] # NoStep
  /\ Begin(w, t)
  /\ Locals(w, [Idle EXCEPT !.op = "agg", !.pc = "task", !.was = status[t]])
  /\ UNCHANGED <<run, suiteDeleted, stepOf, faults>>

\* ... the write of its new status, which leads to the run unless the row is
\* gone, ...
AggConclude(w) ==
  /\ wk[w].pc = "task"
  /\ \E s \in Aggregated \ {wk[w].was} : Conclude(w, s)
  /\ IF reading[w] \in deleted
     THEN Return(w)
     ELSE Locals(w, [wk[w] EXCEPT !.pc = "read"])
  /\ UNCHANGED <<run, suiteDeleted, stepOf, faults>>

\* ... or a return because there is nothing to write.
AggNoChange(w) ==
  /\ wk[w].pc = "task"
  /\ Forget({w})
  /\ Return(w)
  /\ UNCHANGED <<run, suiteDeleted, stepOf, faults>>

-----------------------------------------------------------------------------
(* aggregateSuiteRunStatus *)

\* Mutant: no return for a run that has ended.
RunReadTerminal(w) ==
  /\ wk[w].pc = "read"
  /\ Locals(w, [wk[w] EXCEPT !.pc = "suite", !.seen = run])
  /\ UNCHANGED <<life, run, suiteDeleted, stepOf, faults>>

\* GetByID of the run: a run that has ended is left alone.
RunRead(w) ==
  /\ wk[w].pc = "read"
  /\ IF run.status \in TerminalRun
     THEN Return(w)
     ELSE Locals(w, [wk[w] EXCEPT !.pc = "suite", !.seen = run])
  /\ UNCHANGED <<life, run, suiteDeleted, stepOf, faults>>

\* GetByID of the suite.  Any error of it leads to the legacy rule: that the
\* suite was deleted, and a failing statement too.  (So does a current_step out
\* of range, which StepsInOrder excludes.)
SuiteRead(w) ==
  /\ wk[w].pc = "suite"
  /\ \/ /\ Locals(w, [wk[w] EXCEPT !.pc = IF suiteDeleted THEN "legacy" ELSE "list"])
        /\ UNCHANGED faults
     \/ /\ faults < MaxFaults
        /\ faults' = faults + 1
        /\ Locals(w, [wk[w] EXCEPT !.pc = "legacy"])
  /\ UNCHANGED <<life, run, suiteDeleted, stepOf>>

\* List: the tasks of a set of steps that are not deleted.
TasksOf(S) == {t \in Task : stepOf[t] \in S /\ Visible(t)}

\* The listed tasks T ended, and not all well.
EndOf(T) ==
  LET all(s) == \A t \in T : status[t] = s
      some(s) == \E t \in T : status[t] = s
  IN  IF all("canceled") THEN "canceled"
      ELSE IF some("completed") THEN "partial_failed" ELSE "failed"

Progress(T) ==
  IF \E t \in T : status[t] = "running" THEN "running" ELSE "pending"

\* Write s unless the run was read with it.
WriteIfNew(w, s) == IF s = wk[w].seen.status THEN Return(w) ELSE WriteNext(w, s)

\* Mutant: off by one at the end of the chain.
HasNextInclusive(i) == i <= LastStep

\* The suite has a step after i.
HasNext(i) == i < LastStep

\* List the tasks of the current step and decide.  A completed step that is
\* the last, or whose results yield no target, ends the chain.
List(w) ==
  LET T == TasksOf({wk[w].seen.step})
      ended == \A t \in T : status[t] \in TerminalTask
      well == \A t \in T : status[t] = "completed"
  IN  /\ wk[w].pc = "list"
      /\ \/ T = {} /\ Return(w)
         \/ T # {} /\ ~ended /\ WriteIfNew(w, Progress(T))
         \/ T # {} /\ ended /\ ~well /\ WriteNext(w, EndOf(T))
         \/ T # {} /\ well /\ WriteNext(w, "completed")
         \/ /\ T # {} /\ well /\ HasNext(wk[w].seen.step)
            /\ Locals(w, [wk[w] EXCEPT !.pc = "advance"])
      /\ UNCHANGED <<life, run, suiteDeleted, stepOf, faults>>

\* aggregateSuiteRunStatusLegacy: all tasks of the run, whatever their step.
Legacy(w) ==
  LET T == TasksOf(Step)
      none(s) == \A t \in T : status[t] # s
      next == IF \E t \in T : status[t] \notin TerminalTask THEN Progress(T)
              ELSE IF none("failed") /\ none("canceled") THEN "completed"
              ELSE EndOf(T)
  IN  /\ wk[w].pc = "legacy"
      /\ IF T = {} THEN Return(w) ELSE WriteIfNew(w, next)
      /\ UNCHANGED <<life, run, suiteDeleted, stepOf, faults>>

\* Mutant: UpdateCurrentStep instead of the compare-and-set.
AdvanceAnyway(w) ==
  /\ wk[w].pc = "advance"
  /\ run' = [run EXCEPT !.step = wk[w].seen.step + 1]
  /\ Locals(w, [wk[w] EXCEPT !.pc = "create"])
  /\ UNCHANGED <<life, suiteDeleted, stepOf, faults>>

\* AdvanceCurrentStep: only the goroutine whose step is still current wins;
\* the row's status is no part of the condition.
Advance(w) ==
  /\ wk[w].pc = "advance"
  /\ IF run.step = wk[w].seen.step
     THEN /\ run' = [run EXCEPT !.step = @ + 1]
          /\ Locals(w, [wk[w] EXCEPT !.pc = "create"])
     ELSE run' = run /\ Return(w)
  /\ UNCHANGED <<life, suiteDeleted, stepOf, faults>>

\* UpdateStatus of the run, by id only.
RunWrite(w) ==
  /\ wk[w].pc = "write"
  /\ run' = [run EXCEPT !.status = wk[w].next]
  /\ Return(w)
  /\ UNCHANGED <<life, suiteDeleted, stepOf, faults>>

-----------------------------------------------------------------------------
\* CancelTask and DeleteTask do not look at the run; DeleteSuite leaves its
\* runs alone.
CancelTask(t) ==
  /\ Cancel(t)
  /\ UNCHANGED <<run, suiteDeleted, stepOf, wk, faults>>

DeleteTask(t) ==
  /\ Delete(t)
  /\ UNCHANGED <<run, suiteDeleted, stepOf, wk, faults>>

DeleteSuite ==
  /\ ~suiteDeleted
  /\ suiteDeleted' = TRUE
  /\ UNCHANGED <<life, run, stepOf, wk, faults>>

\* Goroutines W stop where they are.
Stop(W) ==
  /\ faults < MaxFaults
  /\ faults' = faults + 1
  /\ wk' = [w \in Worker |-> IF w \in W THEN Idle ELSE wk[w]]
  /\ Forget(W)
  /\ UNCHANGED <<run, suiteDeleted, stepOf>>

\* A failing statement ends the aggregation (the caller only logs it), but for
\* those of SuiteRead and of createStepTask (CreateFails).
Fail(w) == wk[w].pc \notin {"idle", "create", "suite"} /\ Stop({w})

ServerCrash == Stop(Worker)

Serve(w) ==
  \/ CreateStep(w) \/ CreateFails(w)
  \/ AggConclude(w) \/ AggNoChange(w)
  \/ RunRead(w) \/ SuiteRead(w) \/ List(w) \/ Legacy(w)
  \/ Advance(w) \/ RunWrite(w)

Next ==
  \/ \E w \in Worker : RunSuite(w) \/ Serve(w) \/ Fail(w)
  \/ \E w \in Worker, t \in Task : AggBegin(w, t)
  \/ \E t \in Task : CancelTask(t) \/ DeleteTask(t)
  \/ DeleteSuite \/ ServerCrash

Spec == Init /\ [][Next]_vars

\* A goroutine that can take its next statement does.
FairSpec == Spec /\ \A w \in Worker : WF_vars(Serve(w))
-----------------------------------------------------------------------------
(* Safety *)

\* However many aggregations find a step completed at once, and whatever they
\* read before others moved the run on, a step of the chain has one task.
StepOnce ==
  \A s, t \in Task : stepOf[s] # NoStep /\ stepOf[s] = stepOf[t] => s = t

\* The chain has no hole and never runs ahead of current_step: every step
\* before it was created, none after it.
StepsInOrder ==
  /\ \A t \in Task : stepOf[t] # NoStep => stepOf[t] <= run.step
  /\ \A i \in Step : i < run.step => \E t \in Task : stepOf[t] = i

\* A goroutine that inserted the run, or read it before it ended, and may
\* still write it.
Handling(w) ==
  /\ wk[w].pc \in {"suite", "list", "legacy", "advance", "create", "write"}
  /\ wk[w].seen.status \notin TerminalRun

\* A run that has ended is changed only by a goroutine that had read it before:
\* once none is under way, status and step stay and no further task of the
\* chain is created, whatever its tasks do later.
EndedStaysEnded ==
  [][run.status \in TerminalRun /\ (\A w \in Worker : ~Handling(w))
       => run' = run /\ stepOf' = stepOf]_vars

-----------------------------------------------------------------------------
(* What the comments say, and the code does not keep *)

\* SuiteRunStatus: a run that is completed, partial_failed, failed or canceled
\* does not change any more.  (EndedStaysEnded is what is left of it.)
EndedRunFinal ==
  [][run.status \in TerminalRun => run'.status = run.status]_vars

\* aggregateSuiteRunStatus: when all tasks of the current step have ended, the
\* run advances or ends.
EndedStepIsNoticed ==
  \A i \in Step :
    /\ run.status \notin TerminalRun /\ run.step = i
    /\ TasksOf({i}) # {}
    /\ \A t \in TasksOf({i}) : status[t] \in TerminalTask
    ~> run.status \in TerminalRun \/ run.step # i \/ TasksOf({i}) = {}
=============================================================================
