------------------------------ MODULE TaskLife ------------------------------
(***************************************************************************)
(* The life of a task row as the rest of RedMatrix sees it: who may change *)
(* scan_tasks.status, and when, whatever the assignments behind it do.     *)
(* ScanTasks implements it; SuiteRun is built on it.                       *)
(***************************************************************************)
CONSTANTS
  Task,     \* ids of task rows
  Worker,   \* server goroutines
  NoTask    \* "no task in hand"

VARIABLES
  status,   \* status[t]: scan_tasks.status, "absent" before the INSERT
  deleted,  \* tasks whose deleted_at is set
  reading   \* reading[w]: the open task whose aggregation w has begun

life == <<status, deleted, reading>>

TerminalTask == {"completed", "failed", "canceled"}
TaskStatus == {"pending", "running"} \cup TerminalTask

\* What aggregateTaskStatus can decide: never canceled.
Aggregated == {"pending", "running", "completed", "failed"}

LifeType ==
  /\ status \in [Task -> TaskStatus \cup {"absent"}]
  /\ deleted \in SUBSET Task
  /\ reading \in [Worker -> Task \cup {NoTask}]

LifeInit ==
  /\ status = [t \in Task |-> "absent"]
  /\ deleted = {}
  /\ reading = [w \in Worker |-> NoTask]

\* GetByID and List find the row.
Visible(t) == status[t] # "absent" /\ t \notin deleted
Open(t) == Visible(t) /\ status[t] \notin TerminalTask

Insert(t) ==
  /\ status[t] = "absent"
  /\ status' = [status EXCEPT ![t] = "pending"]
  /\ UNCHANGED <<deleted, reading>>

Cancel(t) ==
  /\ Open(t)
  /\ status' = [status EXCEPT ![t] = "canceled"]
  /\ UNCHANGED <<deleted, reading>>

Delete(t) ==
  /\ Visible(t)
  /\ deleted' = deleted \cup {t}
  /\ UNCHANGED <<status, reading>>

\* An aggregation begins on an open task only ...
Begin(w, t) ==
  /\ reading[w] = NoTask
  /\ Open(t)
  /\ reading' = [reading EXCEPT ![w] = t]
  /\ UNCHANGED <<status, deleted>>

\* ... and writes its decision whatever has become of the task, unless it is
\* deleted, ...
Conclude(w, s) ==
  /\ reading[w] # NoTask
  /\ status' = [status EXCEPT ![reading[w]] =
                  IF reading[w] \in deleted THEN @ ELSE s]
  /\ reading' = [reading EXCEPT ![w] = NoTask]
  /\ UNCHANGED deleted

\* ... or ends without a decision: nothing to change, an error, a crash.
Forget(W) ==
  /\ reading' = [w \in Worker |-> IF w \in W THEN NoTask ELSE reading[w]]
  /\ UNCHANGED <<status, deleted>>

LifeNext ==
  \/ Forget({}) \/ Forget(Worker)
  \/ \E w \in Worker :
       \/ Forget({w})
       \/ \E t \in Task : Begin(w, t)
       \/ \E s \in Aggregated : Conclude(w, s)
  \/ \E t \in Task : Insert(t) \/ Cancel(t) \/ Delete(t)

LifeSpec == LifeInit /\ [][LifeNext]_life
=============================================================================
