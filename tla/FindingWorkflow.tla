-------------------------- MODULE FindingWorkflow --------------------------
(***************************************************************************)
(* The workflow of one finding (internal/finding): scans see it again and  *)
(* again, users change its status and its assignee.  A call reads the row, *)
(* decides, changes the row only if the field still is what it read, and   *)
(* then, in a statement of its own, adds an event to the timeline.         *)
(***************************************************************************)
EXTENDS Naturals, FiniteSets

CONSTANTS
  Call,           \* calls of Transition and Assign
  User, NoUser,   \* whom a finding is assigned to
  MaxSightings,   \* bound: results that show the finding
  MaxFindingFaults

ASSUME FindingAssumption == NoUser \notin User /\ MaxSightings \in Nat /\ MaxFindingFaults \in Nat

VARIABLES
  finding,      \* the row of findings: [status, assignee], and occurrence_count
  call,         \* call[c]: [pc, field, from, to], from being what the call read
  timeline,     \* finding_events of users: [call, field, from, to]
  sighting,     \* UpsertFromResult calls between the row and the event
  sightings,    \* finding_events of scans: how many of each kind
  findingFaults

fwVars == <<finding, call, timeline, sighting, sightings, findingFaults>>

FindingStatus == {"open", "triaged", "confirmed", "false_positive", "fixed"}
Unseen == [status |-> "none", assignee |-> NoUser, count |-> 0]
CallPC == {"idle", "cas", "event", "done", "refused", "lost"}
FwIdle == [pc |-> "idle", field |-> "status", from |-> "none", to |-> "none"]
EventKind == {"created", "occurrence"}

FwInit ==
  /\ finding = Unseen
  /\ call = [c \in Call |-> FwIdle]
  /\ timeline = {}
  /\ sighting = [k \in EventKind |-> 0] /\ sightings = [k \in EventKind |-> 0]
  /\ findingFaults = 0

AllowedTransitions ==
  [open           |-> {"triaged", "false_positive", "fixed"},
   triaged        |-> {"confirmed", "false_positive", "open"},
   confirmed      |-> {"fixed", "false_positive", "open"},
   false_positive |-> {"open"},
   fixed          |-> {"open"}]
CanTransition(from, to) == to \in AllowedTransitions[from]

Visible == finding.status # "none"
FwFault == findingFaults < MaxFindingFaults /\ findingFaults' = findingFaults + 1
SameSightings == UNCHANGED <<sighting, sightings>>

(* ---- UpsertFromResult ---- *)
\* INSERT ... ON CONFLICT DO UPDATE: one statement; status and assignee of a
\* row that exists stay what they are.
Upsert ==
  /\ finding.count < MaxSightings
  /\ LET kind == IF Visible THEN "occurrence" ELSE "created" IN
     sighting' = [sighting EXCEPT ![kind] = @ + 1]
  /\ finding' = [finding EXCEPT !.count = @ + 1, !.status = IF Visible THEN @ ELSE "open"]
  /\ UNCHANGED <<call, timeline, sightings, findingFaults>>

\* The event; its error is ignored.
SightingEvent(kind) ==
  /\ sighting[kind] > 0 /\ sighting' = [sighting EXCEPT ![kind] = @ - 1]
  /\ \/ sightings' = [sightings EXCEPT ![kind] = @ + 1] /\ UNCHANGED findingFaults
     \/ FwFault /\ UNCHANGED sightings
  /\ UNCHANGED <<finding, call, timeline>>

(* ---- Transition, Assign ---- *)
\* GetByID and, for a transition, the table of what is allowed
Read(c, field, to) ==
  /\ call[c].pc = "idle" /\ Visible
  /\ field = "status" => CanTransition(finding.status, to)
  /\ call' = [call EXCEPT ![c] = [pc |-> "cas", field |-> field,
                                  from |-> finding[field], to |-> to]]
  /\ SameSightings /\ UNCHANGED <<finding, timeline, findingFaults>>

\* UpdateStatusCAS, UpdateAssigneeCAS: the WHERE of the UPDATE
MatchesID(c) == Visible
Matches(c) == Visible /\ finding[call[c].field] = call[c].from
UpdateCAS(c) ==
  /\ call[c].pc = "cas"
  /\ IF Matches(c)
     THEN /\ finding' = [finding EXCEPT ![call[c].field] = call[c].to]
          /\ call' = [call EXCEPT ![c].pc = "event"]
     ELSE call' = [call EXCEPT ![c].pc = "refused"] /\ UNCHANGED finding
  /\ SameSightings /\ UNCHANGED <<timeline, findingFaults>>

\* What the event says the value was: the one the call has read.
FromRead(c) == call[c].from
InsertEvent(c) ==
  /\ call[c].pc = "event" /\ call' = [call EXCEPT ![c].pc = "done"]
  /\ timeline' = timeline \cup
       {[call |-> c, field |-> call[c].field, from |-> FromRead(c), to |-> call[c].to]}
  /\ SameSightings /\ UNCHANGED <<finding, findingFaults>>

\* A statement fails or the server dies: a row that was changed stays changed,
\* and its event is missing for good.
CallFails(c) ==
  /\ call[c].pc \in {"cas", "event"}
  /\ call' = [call EXCEPT ![c].pc = IF @ = "event" THEN "lost" ELSE "refused"]
  /\ FwFault /\ SameSightings /\ UNCHANGED <<finding, timeline>>

FwNext ==
  \/ Upsert \/ \E k \in EventKind : SightingEvent(k)
  \/ \E c \in Call :
       \/ \E to \in FindingStatus : Read(c, "status", to)
       \/ \E to \in User \cup {NoUser} : Read(c, "assignee", to)
       \/ UpdateCAS(c) \/ InsertEvent(c) \/ CallFails(c)

FwSpec == FwInit /\ [][FwNext]_fwVars

(* ---- properties ---- *)

FwTypeOK ==
  /\ finding.status \in FindingStatus \cup {"none"}
  /\ finding.assignee \in User \cup {NoUser} /\ finding.count \in 0..MaxSightings
  /\ \A c \in Call : call[c].pc \in CallPC
  /\ \A e \in timeline : e.call \in Call
  /\ \A k \in EventKind : sighting[k] \in Nat /\ sightings[k] \in Nat

\* However calls interleave between their read and their write, the status of
\* the row only moves along the table of transitions.
OnlyAllowedTransitions ==
  [][Visible /\ finding'.status # finding.status
       => CanTransition(finding.status, finding'.status)]_fwVars

\* What the calls have done to the row: the timeline, the events they have not
\* written yet and the ones they never will.
Moves ==
  timeline \cup {[call |-> c, field |-> call[c].field, from |-> call[c].from, to |-> call[c].to] :
                   c \in {d \in Call : call[d].pc \in {"event", "lost"}}}
Into(f, v) == Cardinality({e \in Moves : e.field = f /\ e.to = v})
OutOf(f, v) == Cardinality({e \in Moves : e.field = f /\ e.from = v})
First == [status |-> "open", assignee |-> NoUser]
End(v, w) == IF v = w THEN 1 ELSE 0
Replays ==
  Visible =>
    \A f \in {"status", "assignee"} :
      \A v \in FindingStatus \cup User \cup {NoUser} :
        Into(f, v) + End(v, First[f]) = OutOf(f, v) + End(v, finding[f])

\* One "created" event, and one "occurrence" for every further sighting; only
\* a failing INSERT loses some.
SightingsCounted ==
  /\ sightings["created"] + sighting["created"] <= 1
  /\ sightings["created"] + sighting["created"] + sightings["occurrence"]
       + sighting["occurrence"] + findingFaults >= finding.count

\* Replaying the timeline leads from the first value to the present one: of
\* each status and assignee as many events lead to it as lead away from it, but
\* for the ends; and the sightings add up to the count of the row.
TimelineReplays == Replays /\ SightingsCounted
=============================================================================
