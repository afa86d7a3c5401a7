---------------------------- MODULE ProjectNodes ----------------------------
(***************************************************************************)
(* The nodes a project may use (internal/tenancy) and the dispatch that    *)
(* relies on them (internal/scan): CreateTask reads the whitelist, then    *)
(* the online nodes, then inserts the assignments, while administrators    *)
(* replace the whitelist and the nodes come and go.  No row in the table   *)
(* means that every node may be used.                                      *)
(*                                                                         *)
(* A Set is a transaction at READ COMMITTED: its DELETE removes the rows   *)
(* that were there when the statement began, so that two Sets at once end  *)
(* in the union of both lists.                                             *)
(***************************************************************************)
EXTENDS FiniteSets

CONSTANTS
  ProjectNode,  \* nodes of the tenant
  SetCall,      \* calls of SetProjectAllowedNodes with a list
  CreateCall    \* calls of CreateTask, for tasks without targets or with some

VARIABLES
  project,      \* status of the row of projects
  nodeRow,      \* nodeRow[n]: "online" (DeriveStatus), "away" or "deleted"
  allowedRows,  \* project_allowed_nodes: [node, by], by telling the rows apart
  setter,       \* setter[s]: [pc, ids, doomed, since]
  creating,     \* creating[c]: [pc, pool, may]
  assigned,     \* assigned[c]: the nodes of the assignments of c's task
  effect        \* the Sets whose lists are to be in force (a ghost)

pnVars == <<project, nodeRow, allowedRows, setter, creating, assigned, effect>>

SetIdle == [pc |-> "idle", ids |-> {}, doomed |-> {}, since |-> {}]
CreateIdle == [pc |-> "idle", pool |-> {}, may |-> {}]

PnInit ==
  /\ project = "active" /\ nodeRow = [n \in ProjectNode |-> "online"]
  /\ allowedRows = {} /\ effect = {}
  /\ setter = [s \in SetCall |-> SetIdle]
  /\ creating = [c \in CreateCall |-> CreateIdle] /\ assigned = [c \in CreateCall |-> {}]

\* allowed.Get and Contains
Allowed(rows) == IF rows = {} THEN ProjectNode ELSE {r.node : r \in rows}

\* The nodes the calls so far allow: those named by the Sets in force.  The
\* calls of CreateTask that are under way take note of each change (a ghost).
May == IF effect = {} THEN ProjectNode ELSE UNION {setter[s].ids : s \in effect}
InForce(sets) ==
  /\ effect' = sets
  /\ creating' = [c \in CreateCall |->
       IF creating[c].pc \in {"idle", "done"} THEN creating[c]
       ELSE [creating[c] EXCEPT !.may = @ \cup May']]
SameMay == UNCHANGED <<effect, creating>>
SameTasks == UNCHANGED <<project, nodeRow, assigned>>

(* ---- SetProjectAllowedNodes ---- *)
\* GetByID of the project and of every node of the list, which are not deleted.
\* They are read one after the other; nothing depends on what changes meanwhile.
SetBegin(s, ids) ==
  /\ setter[s].pc = "idle" /\ project # "deleted"
  /\ \A n \in ids : nodeRow[n] # "deleted"
  /\ setter' = [setter EXCEPT ![s].pc = "tx", ![s].ids = ids]
  /\ SameMay /\ SameTasks /\ UNCHANGED allowedRows

\* What the others see between the DELETE and the COMMIT of one transaction
VisibleGone == {}
VisibleStill == allowedRows
DeleteAllowed(s) ==
  /\ setter[s].pc = "tx"
  /\ setter' = [setter EXCEPT ![s].pc = "deleted", ![s].doomed = allowedRows]
  /\ allowedRows' = VisibleStill
  /\ SameMay /\ SameTasks

\* The INSERTs, ON CONFLICT DO NOTHING, and the COMMIT.  An INSERT waits for
\* another Set that is about to delete the row it conflicts with.  Of the Sets in
\* force, those that came after the DELETE of this one stay in force.
Kept(s) == allowedRows \ setter[s].doomed
InsertWaits(s) ==
  \E r \in Kept(s), o \in SetCall :
    r.node \in setter[s].ids /\ setter[o].pc = "deleted" /\ r \in setter[o].doomed
CommitAllowed(s) ==
  /\ setter[s].pc = "deleted" /\ ~InsertWaits(s)
  /\ allowedRows' = Kept(s) \cup
       {[node |-> n, by |-> s] : n \in {i \in setter[s].ids : \A r \in Kept(s) : r.node # i}}
  /\ setter' = [o \in SetCall |->
       IF o = s THEN [setter[s] EXCEPT !.pc = "done", !.doomed = {}, !.since = {}]
       ELSE IF setter[o].pc = "deleted" THEN [setter[o] EXCEPT !.since = @ \cup {s}]
       ELSE setter[o]]
  /\ InForce({s} \cup (effect \cap setter[s].since))
  /\ SameTasks

\* A statement fails, a deadlock of two Sets is broken, the server dies: the
\* transaction is rolled back.
SetFails(s) ==
  /\ setter[s].pc \in {"tx", "deleted"}
  /\ setter' = [setter EXCEPT ![s] = [SetIdle EXCEPT !.pc = "done"]]
  /\ SameMay /\ SameTasks /\ UNCHANGED allowedRows

\* An empty list: ClearAll, one DELETE.  A Set whose DELETE came first counts
\* as the later of the two.
ClearAll ==
  /\ project # "deleted" /\ allowedRows # {}
  /\ allowedRows' = {}
  /\ InForce({}) /\ SameTasks /\ UNCHANGED setter

(* ---- CreateTask and dispatch ---- *)
To(c, pc) == creating' = [creating EXCEPT ![c].pc = pc]
SameRest == UNCHANGED <<project, nodeRow, allowedRows, setter, effect>>

\* GetByID of the project: not deleted, not archived
CreateTask(c) ==
  /\ creating[c].pc = "idle" /\ project = "active"
  /\ creating' = [creating EXCEPT ![c].pc = "allowed", ![c].may = May]
  /\ SameRest /\ UNCHANGED assigned

\* dispatch: the whitelist
GetAllowed(c) ==
  /\ creating[c].pc = "allowed"
  /\ creating' = [creating EXCEPT ![c].pc = "online", ![c].pool = Allowed(allowedRows)]
  /\ SameRest /\ UNCHANGED assigned

\* the online nodes; none: the task stays without assignments
ListOnline(c) ==
  LET pool == {n \in creating[c].pool : nodeRow[n] = "online"} IN
  /\ creating[c].pc = "online"
  /\ creating' = [creating EXCEPT ![c].pc = IF pool = {} THEN "done" ELSE "bulk",
                                  ![c].pool = pool]
  /\ SameRest /\ UNCHANGED assigned

\* One assignment per node; with fewer targets than nodes some get none.
InsertBulk(c) ==
  /\ creating[c].pc = "bulk" /\ To(c, "done")
  /\ \E picked \in (SUBSET creating[c].pool) \ {{}} : assigned' = [assigned EXCEPT ![c] = picked]
  /\ SameRest

\* A statement fails: logged, the task stays without assignments.
DispatchFails(c) ==
  /\ creating[c].pc \in {"allowed", "online", "bulk"} /\ To(c, "done")
  /\ SameRest /\ UNCHANGED assigned

(* ---- projects and nodes ---- *)
\* ArchiveProject, UnarchiveProject; DeleteProject is for good.
ChangeProject(status) ==
  /\ project # "deleted" /\ project' = status
  /\ SameMay /\ UNCHANGED <<nodeRow, allowedRows, setter, assigned>>

\* Heartbeats, EnableNode, DisableNode, and DeleteNode, which leaves the rows
\* of the whitelist where they are: a node is never removed from its table.
ChangeNode(n, status) ==
  /\ nodeRow[n] \notin {"deleted", status} /\ nodeRow' = [nodeRow EXCEPT ![n] = status]
  /\ SameMay /\ UNCHANGED <<project, allowedRows, setter, assigned>>

PnNext ==
  \/ \E s \in SetCall :
       \/ \E ids \in (SUBSET ProjectNode) \ {{}} : SetBegin(s, ids)
       \/ DeleteAllowed(s) \/ CommitAllowed(s) \/ SetFails(s)
  \/ ClearAll
  \/ \E c \in CreateCall :
       CreateTask(c) \/ GetAllowed(c) \/ ListOnline(c) \/ InsertBulk(c) \/ DispatchFails(c)
  \/ \E status \in {"active", "archived", "deleted"} : ChangeProject(status)
  \/ \E n \in ProjectNode, status \in {"online", "away", "deleted"} : ChangeNode(n, status)

PnSpec == PnInit /\ [][PnNext]_pnVars

(* ---- properties ---- *)

PnTypeOK ==
  /\ project \in {"active", "archived", "deleted"}
  /\ \A n \in ProjectNode : nodeRow[n] \in {"online", "away", "deleted"}
  /\ \A r \in allowedRows : r.node \in ProjectNode /\ r.by \in SetCall
  /\ \A s \in SetCall : setter[s].pc \in {"idle", "tx", "deleted", "done"}
  /\ \A c \in CreateCall : creating[c].pc \in {"idle", "allowed", "online", "bulk", "done"}
  /\ assigned \in [CreateCall -> SUBSET ProjectNode] /\ effect \subseteq SetCall

\* A task is dispatched only to nodes that the calls which set the whitelist
\* allowed at some moment of its CreateTask.  In particular a project with a
\* whitelist never falls back to all nodes: not while a Set replaces the list,
\* not when a Set fails half way, not when every node in the list is deleted.
WhitelistHolds ==
  /\ Allowed(allowedRows) = May
  /\ \A c \in CreateCall : assigned[c] \subseteq creating[c].may
=============================================================================
