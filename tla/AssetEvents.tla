---------------------------- MODULE AssetEvents ----------------------------
(***************************************************************************)
(* Assets and their events (internal/asset): results upsert assets, an     *)
(* asset inserted for the first time yields an asset_new event, one that   *)
(* was not seen for AssetDisappearedThreshold an asset_disappeared event.  *)
(* The change of the row and the INSERT of its events are two statements.  *)
(***************************************************************************)
EXTENDS Naturals

CONSTANTS
  Asset,     \* assets, by (tenant, project, kind, value)
  EventCap   \* bound on the disappearances of one asset that are told apart

ASSUME EventCapAssumption == EventCap \in Nat \ {0}

VARIABLES
  asset,       \* asset[a]: "absent", "live" or "gone" (disappeared_at is set)
  stale,       \* live assets whose last_seen is before the cutoff
  assetEvents, \* assetEvents[k][a]: events of kind k in asset_events
  gone,        \* assets MarkDisappeared returned, their events not yet in
  vanished     \* vanished[a]: how often a disappeared (a ghost)

aeVars == <<asset, stale, assetEvents, gone, vanished>>

AssetEventKind == {"new", "disappeared"}

AeInit ==
  /\ asset = [a \in Asset |-> "absent"]
  /\ stale = {}
  /\ assetEvents = [k \in AssetEventKind |-> [a \in Asset |-> 0]]
  /\ gone = {}
  /\ vanished = [a \in Asset |-> 0]

\* UpsertBulkReturning: the assets (xmax = 0) that this statement inserted
IsNewOrBack(A) == {a \in A : asset[a] # "live"}
IsNewReadBack(A) == {a \in A : asset'[a] = "absent"}
IsNew(A) == {a \in A : asset[a] = "absent"}
\* ON CONFLICT DO UPDATE SET last_seen = now(), disappeared_at = NULL
UpsertAssets(A) ==
  /\ asset' = [a \in Asset |-> IF a \in A THEN "live" ELSE asset[a]]
  /\ stale' = stale \ A

Bumped(k, A) ==
  [assetEvents EXCEPT ![k] = [a \in Asset |-> IF a \in A THEN @[a] + 1 ELSE @[a]]]
InsertAssetEvents(k, A) == assetEvents' = Bumped(k, A)

Ages(a) ==
  /\ asset[a] = "live" /\ a \notin stale
  /\ stale' = stale \cup {a}
  /\ UNCHANGED <<asset, assetEvents, gone, vanished>>

\* UPDATE assets SET disappeared_at WHERE last_seen < cutoff
\*   AND disappeared_at IS NULL RETURNING ...
DisappearingAgain == stale
Disappearing == {a \in stale : asset[a] = "live"}
MarkDisappeared ==
  /\ gone = {} /\ Disappearing # {}
  /\ \A a \in Disappearing : asset[a] = "live" => vanished[a] < EventCap
  /\ gone' = Disappearing
  /\ asset' = [a \in Asset |-> IF a \in Disappearing THEN "gone" ELSE asset[a]]
  /\ vanished' = [a \in Asset |-> IF asset'[a] # asset[a] THEN vanished[a] + 1 ELSE vanished[a]]
  /\ UNCHANGED <<stale, assetEvents>>

\* events.InsertBulk of SweepDisappeared; OnAssetEvents follows it
TellDisappeared ==
  /\ gone # {}
  /\ InsertAssetEvents("disappeared", gone)
  /\ gone' = {}
  /\ UNCHANGED <<asset, stale, vanished>>

\* The INSERT fails or the process dies: the rows stay marked.
DisappearedLost ==
  /\ gone # {}
  /\ gone' = {}
  /\ UNCHANGED <<asset, stale, assetEvents, vanished>>

AeTypeOK ==
  /\ asset \in [Asset -> {"absent", "live", "gone"}]
  /\ stale \subseteq Asset /\ gone \subseteq Asset
  /\ assetEvents \in [AssetEventKind -> [Asset -> 0..EventCap]]
  /\ vanished \in [Asset -> 0..EventCap]
=============================================================================
