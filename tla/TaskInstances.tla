--------------------------- MODULE TaskInstances ---------------------------
(***************************************************************************)
(* The two ways a scan task comes back (internal/scan).  A cron template   *)
(* is a row and an entry of the scheduler of the server process, which     *)
(* makes an instance whenever the entry fires; the row and the entry are   *)
(* changed one after the other, and the entries are gone with the process. *)
(* A continuous task is marked with a time once it is finished, and the    *)
(* continuous sweeper takes due marks and clones their tasks.  ScanTasks   *)
(* says when a task finishes, and that it may do so more than once.        *)
(***************************************************************************)
EXTENDS Naturals, FiniteSets

CONSTANTS
  Template,
  Continuous,       \* tasks with continuous_after_hours
  ContSweeper,      \* continuous sweepers, one per server process
  MaxFinishes,      \* bound: times a continuous task reaches a terminal status
  MaxInstanceFaults

ASSUME InstancesAssumption ==
  MaxFinishes \in Nat /\ MaxInstanceFaults \in Nat /\ IsFiniteSet(ContSweeper)

VARIABLES
  template,     \* template[c]: "absent", "active", "canceled", "deleted"
  entries,      \* Scheduler.entries
  up,           \* the server process runs
  adding,       \* CreateTask between INSERT and scheduler.Add
  removing,     \* CancelTask and DeleteTask between UPDATE and scheduler.Remove
  finishing,    \* finishing[k]: aggregations between the status and the mark
  finishes,     \* finishes[k]: how often there was one
  next,         \* next[k]: next_continuous_at: "none", "waiting" or "due"
  deletedTask,  \* continuous tasks that were soft-deleted
  popped,       \* popped[s]: what PopDueContinuous returned and is not cloned yet
  marks,        \* marks[k]: times next_continuous_at was set, and
  clones,       \* clones[k]: instances made of k (ghosts)
  instanceFaults

cronVars == <<template, entries, up, adding, removing>>
contVars == <<finishing, finishes, next, deletedTask, popped, marks, clones>>
tiVars == <<cronVars, contVars, instanceFaults>>

TiInit ==
  /\ template = [c \in Template |-> "absent"] /\ entries = {} /\ up = TRUE
  /\ adding = {} /\ removing = {}
  /\ finishing = [k \in Continuous |-> 0] /\ finishes = [k \in Continuous |-> 0]
  /\ next = [k \in Continuous |-> "none"] /\ deletedTask = {}
  /\ popped = [s \in ContSweeper |-> {}]
  /\ marks = [k \in Continuous |-> 0] /\ clones = [k \in Continuous |-> 0]
  /\ instanceFaults = 0

InstanceFault == instanceFaults < MaxInstanceFaults /\ instanceFaults' = instanceFaults + 1
SameInstanceFaults == UNCHANGED instanceFaults

(* ---- cron templates ---- *)
CreateTemplate(c) ==
  /\ up /\ template[c] = "absent"
  /\ template' = [template EXCEPT ![c] = "active"] /\ adding' = adding \cup {c}
  /\ SameInstanceFaults /\ UNCHANGED <<entries, up, removing>>
\* An error of Add is logged.
AddEntry(c) ==
  /\ c \in adding /\ adding' = adding \ {c} /\ entries' = entries \cup {c}
  /\ SameInstanceFaults /\ UNCHANGED <<template, up, removing>>

\* UpdateStatusCAS of CancelTask; SoftDelete, after GetByID told the task's kind
CancelTemplate(c) ==
  /\ up /\ template[c] = "active"
  /\ template' = [template EXCEPT ![c] = "canceled"] /\ removing' = removing \cup {c}
  /\ SameInstanceFaults /\ UNCHANGED <<entries, up, adding>>
DeleteTemplate(c) ==
  /\ up /\ template[c] \in {"active", "canceled"}
  /\ template' = [template EXCEPT ![c] = "deleted"]
  /\ \/ removing' = removing \cup {c} /\ SameInstanceFaults
     \/ InstanceFault /\ UNCHANGED removing            \* GetByID failed
  /\ UNCHANGED <<entries, up, adding>>
RemoveEntry(c) ==
  /\ c \in removing /\ removing' = removing \ {c} /\ entries' = entries \ {c}
  /\ SameInstanceFaults /\ UNCHANGED <<template, up, adding>>

\* TriggerCronTask: the entry of a template that is gone, or canceled, is
\* removed; so is one whose GetByID fails.  (An active one gets an instance.)
Gone(c) == template[c] # "active"
TriggerCronTask(c) ==
  /\ up /\ c \in entries
  /\ IF Gone(c) THEN SameInstanceFaults ELSE InstanceFault
  /\ entries' = entries \ {c}
  /\ UNCHANGED <<template, up, adding, removing>>

ServerStops ==
  /\ up /\ up' = FALSE /\ entries' = {} /\ adding' = {} /\ removing' = {}
  /\ SameInstanceFaults /\ UNCHANGED template
\* LoadAll, before the server takes calls; when it fails the server goes on.
NotLoaded == {}
LoadAll == {c \in Template : template[c] = "active"}
ServerStarts ==
  /\ ~up /\ up' = TRUE
  /\ \/ entries' = LoadAll /\ SameInstanceFaults
     \/ entries' = {} /\ InstanceFault
  /\ UNCHANGED <<template, adding, removing>>

CronNext ==
  \/ \E c \in Template :
       \/ CreateTemplate(c) \/ AddEntry(c) \/ CancelTemplate(c) \/ DeleteTemplate(c)
       \/ RemoveEntry(c) \/ TriggerCronTask(c)
  \/ ServerStops \/ ServerStarts

(* ---- continuous tasks ---- *)
\* aggregateTaskStatus: UpdateStatus, and if the new status is a terminal one
\* SetNextContinuousAt
AnyStatus(k) == finishes
TerminalStatus(k) == [finishes EXCEPT ![k] = @ + 1]
Finish(k) ==
  /\ finishes[k] < MaxFinishes /\ k \notin deletedTask
  /\ finishes' = TerminalStatus(k)
  /\ finishing' = [finishing EXCEPT ![k] = @ + 1]
  /\ SameInstanceFaults /\ UNCHANGED <<next, deletedTask, popped, marks, clones>>
SetNextContinuousAt(k) ==
  /\ finishing[k] > 0 /\ finishing' = [finishing EXCEPT ![k] = @ - 1]
  /\ \/ /\ k \notin deletedTask /\ SameInstanceFaults
        /\ next' = [next EXCEPT ![k] = "waiting"] /\ marks' = [marks EXCEPT ![k] = @ + 1]
     \/ k \in deletedTask /\ SameInstanceFaults /\ UNCHANGED <<next, marks>>
     \/ InstanceFault /\ UNCHANGED <<next, marks>>     \* logged, nothing more
  /\ UNCHANGED <<finishes, deletedTask, popped, clones>>
HoursPass(k) ==
  /\ next[k] = "waiting" /\ next' = [next EXCEPT ![k] = "due"]
  /\ SameInstanceFaults /\ UNCHANGED <<finishing, finishes, deletedTask, popped, marks, clones>>
DeleteContinuous(k) ==
  /\ deletedTask' = deletedTask \cup {k}
  /\ SameInstanceFaults /\ UNCHANGED <<finishing, finishes, next, popped, marks, clones>>

\* One statement: selects, locks, clears and returns the due rows.
Keep(due) == next
Clear(due) == [k \in Continuous |-> IF k \in due THEN "none" ELSE next[k]]
PopDueContinuous(s) ==
  LET due == {k \in Continuous \ deletedTask : next[k] = "due"} IN
  /\ popped[s] = {} /\ due # {} /\ popped' = [popped EXCEPT ![s] = due]
  /\ next' = Clear(due)
  /\ SameInstanceFaults /\ UNCHANGED <<finishing, finishes, deletedTask, marks, clones>>
\* CreateTask of the clone; with an error there is none, and no second try.
Clone(s, k) ==
  /\ k \in popped[s] /\ popped' = [popped EXCEPT ![s] = @ \ {k}]
  /\ \/ clones' = [clones EXCEPT ![k] = @ + 1] /\ SameInstanceFaults
     \/ InstanceFault /\ UNCHANGED clones
  /\ UNCHANGED <<finishing, finishes, next, deletedTask, marks>>
\* The process dies in the middle of its sweep.
SweepDies(s) ==
  /\ popped[s] # {} /\ popped' = [popped EXCEPT ![s] = {}]
  /\ InstanceFault /\ UNCHANGED <<finishing, finishes, next, deletedTask, marks, clones>>

ContinuousNext ==
  \/ \E k \in Continuous :
       Finish(k) \/ SetNextContinuousAt(k) \/ HoursPass(k) \/ DeleteContinuous(k)
  \/ \E s \in ContSweeper :
       PopDueContinuous(s) \/ SweepDies(s) \/ \E k \in Continuous : Clone(s, k)

CronStep == CronNext /\ UNCHANGED contVars
ContinuousStep == ContinuousNext /\ UNCHANGED cronVars
TiNext == CronStep \/ ContinuousStep
TiSpec == TiInit /\ [][TiNext]_tiVars

(* ---- properties ---- *)

TiTypeOK ==
  /\ template \in [Template -> {"absent", "active", "canceled", "deleted"}]
  /\ entries \subseteq Template /\ adding \subseteq Template /\ removing \subseteq Template
  /\ next \in [Continuous -> {"none", "waiting", "due"}]
  /\ popped \in [ContSweeper -> SUBSET Continuous]
  /\ \A k \in Continuous : finishing[k] <= finishes[k] /\ marks[k] <= finishes[k]

\* While the server runs an active template fires: its entry is there as soon
\* as the call that creates it returned, and after every restart, also one
\* between the INSERT and the Add.  Only a failing read may lose it.
TemplateRegistered ==
  up /\ instanceFaults = 0 =>
    \A c \in Template : template[c] = "active" /\ c \notin adding => c \in entries

\* A mark makes one clone at the most, with two sweepers as well; and while
\* nothing fails a task that was marked has a clone, or is going to get one.
InFlight(k) ==
  clones[k] + Cardinality({s \in ContSweeper : k \in popped[s]})
    + (IF next[k] = "none" THEN 0 ELSE 1)
LoopKept ==
  \A k \in Continuous :
    /\ InFlight(k) <= marks[k]
    /\ instanceFaults = 0 /\ marks[k] > 0 => InFlight(k) > 0
=============================================================================
