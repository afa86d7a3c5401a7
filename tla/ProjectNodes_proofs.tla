------------------------- MODULE ProjectNodes_proofs -------------------------
(***************************************************************************)
(* The whitelist of a project holds for any number of nodes, of calls that *)
(* replace it and of dispatches.                                           *)
(***************************************************************************)
EXTENDS ProjectNodes, TLAPS

WhitelistRow == [node : ProjectNode, by : SetCall]

SetRec == [pc : {"idle", "tx", "deleted", "done"}, ids : SUBSET ProjectNode,
           doomed : SUBSET WhitelistRow, since : SUBSET SetCall]

RowTypes ==
  /\ allowedRows \subseteq WhitelistRow /\ effect \subseteq SetCall
  /\ setter \in [SetCall -> [pc : {"idle", "tx", "deleted", "done"}, ids : SUBSET ProjectNode,
                             doomed : SUBSET WhitelistRow, since : SUBSET SetCall]]

\* The table holds, once each, the nodes that the Sets in force name.
RowsInForce ==
  /\ \A r, q \in allowedRows : r.node = q.node => r = q
  /\ \A r \in allowedRows : r.by \in effect /\ r.node \in setter[r.by].ids
  /\ \A s \in effect : /\ setter[s].pc = "done" /\ setter[s].ids # {}
                       /\ \A n \in setter[s].ids : \E r \in allowedRows : r.node = n
  /\ \A s \in SetCall : /\ setter[s].pc \in {"tx", "deleted"} => setter[s].ids # {}
                        /\ setter[s].pc # "deleted" =>
                             setter[s].since = {} /\ setter[s].doomed = {}

\* The rows that the DELETE of a Set under way leaves are those of the Sets
\* that came after it, and they are all there.
PendingSets ==
  \A d \in SetCall : setter[d].pc = "deleted" =>
    /\ \A r \in setter[d].doomed : setter[r.by].pc = "done"
    /\ \A r \in Kept(d) : r.by \in setter[d].since
    /\ \A s \in effect \cap setter[d].since : \A n \in setter[s].ids :
         \E r \in Kept(d) : r.node = n

RowInv == RowTypes /\ RowsInForce /\ PendingSets

Active(c) == creating[c].pc \in {"allowed", "online", "bulk"}
TaskInv ==
  /\ creating \in [CreateCall -> [pc : {"idle", "allowed", "online", "bulk", "done"},
                                  pool : SUBSET ProjectNode, may : SUBSET ProjectNode]]
  /\ assigned \in [CreateCall -> SUBSET ProjectNode]
  /\ \A c \in CreateCall :
       /\ Active(c) => May \subseteq creating[c].may
       /\ creating[c].pc \in {"online", "bulk"} => creating[c].pool \subseteq creating[c].may
       /\ assigned[c] \subseteq creating[c].may
       /\ creating[c].pc # "done" => assigned[c] = {}

PnInv == RowInv /\ TaskInv

LEMMA PnInitInv == PnInit => PnInv
BY DEF PnInit, PnInv, RowInv, RowTypes, RowsInForce, PendingSets, TaskInv, SetIdle, CreateIdle,
       WhitelistRow, Active

LEMMA AllowedIsMay == RowInv => Allowed(allowedRows) = May
<1> SUFFICES ASSUME RowInv PROVE Allowed(allowedRows) = May
  OBVIOUS
<1>1. CASE effect = {}
  BY <1>1 DEF RowInv, RowsInForce, Allowed, May
<1>2. CASE effect # {}
  <2>1. allowedRows # {}
    BY <1>2 DEF RowInv, RowsInForce
  <2>2. ASSUME NEW n PROVE n \in {r.node : r \in allowedRows}
                            <=> n \in UNION {setter[s].ids : s \in effect}
    BY DEF RowInv, RowsInForce
  <2> QED
    BY <1>2, <2>1, <2>2 DEF Allowed, May
<1> QED
  BY <1>1, <1>2

LEMMA MayIsNodes == RowTypes => May \subseteq ProjectNode
BY DEF RowTypes, May

(* ---- steps that change the table ---- *)

\* A Set that is not in force and has not deleted anything may become anything
\* that has not either.
LEMMA SetMoves ==
  ASSUME RowInv, NEW s \in SetCall, NEW ids \in SUBSET ProjectNode, NEW pc \in {"tx", "done"},
         setter[s].pc # "done", pc = "tx" => ids # {},
         setter' = [setter EXCEPT ![s] = [pc |-> pc, ids |-> ids, doomed |-> {}, since |-> {}]],
         allowedRows' = allowedRows, effect' = effect
  PROVE  RowInv' /\ May' = May
<1>1. s \notin effect
  BY DEF RowInv, RowsInForce
<1>2. \A o \in SetCall : o # s => setter'[o] = setter[o]
  BY DEF RowInv, RowTypes
<1>3. setter'[s] = [pc |-> pc, ids |-> ids, doomed |-> {}, since |-> {}]
  BY DEF RowInv, RowTypes
<1>4. RowTypes'
  BY DEF RowInv, RowTypes
<1>5. RowsInForce'
  BY <1>1, <1>2, <1>3 DEF RowInv, RowTypes, RowsInForce
<1>6. PendingSets'
  <2>1. ASSUME NEW d \in SetCall, setter'[d].pc = "deleted"
        PROVE  d # s /\ setter'[d] = setter[d] /\ Kept(d)' = Kept(d)
    BY <2>1, <1>2, <1>3 DEF Kept
  <2>2. ASSUME NEW d \in SetCall, setter[d].pc = "deleted", NEW r \in setter[d].doomed
        PROVE  r.by \in SetCall /\ r.by # s
    BY <2>2 DEF RowInv, RowTypes, PendingSets, WhitelistRow
  <2>3. \A t \in effect : t # s /\ t \in SetCall
    BY <1>1 DEF RowInv, RowTypes
  <2> QED
    BY <1>2, <2>1, <2>2, <2>3 DEF RowInv, PendingSets
<1>7. May' = May
  <2>1. \A t \in effect : setter'[t].ids = setter[t].ids
    BY <1>1, <1>2 DEF RowInv, RowTypes
  <2> QED
    BY <2>1 DEF May
<1> QED
  BY <1>4, <1>5, <1>6, <1>7 DEF RowInv

LEMMA DeleteKeeps ==
  ASSUME RowInv, NEW s \in SetCall, DeleteAllowed(s)
  PROVE  RowInv' /\ May' = May
<1>1. /\ setter[s].pc = "tx" /\ allowedRows' = allowedRows /\ effect' = effect
      /\ setter' = [setter EXCEPT ![s].pc = "deleted", ![s].doomed = allowedRows]
  BY DEF DeleteAllowed, VisibleStill, SameMay
<1>2. s \notin effect /\ setter[s].since = {} /\ setter[s].ids # {}
  BY <1>1 DEF RowInv, RowsInForce
<1>3. \A o \in SetCall : o # s => setter'[o] = setter[o]
  BY <1>1 DEF RowInv, RowTypes
<1>4. setter'[s] = [pc |-> "deleted", ids |-> setter[s].ids, doomed |-> allowedRows, since |-> {}]
  <2>1. setter[s] \in [pc : {"idle", "tx", "deleted", "done"}, ids : SUBSET ProjectNode,
                       doomed : SUBSET WhitelistRow, since : SUBSET SetCall]
    BY DEF RowInv, RowTypes
  <2>2. setter'[s] = [[setter[s] EXCEPT !.pc = "deleted"] EXCEPT !.doomed = allowedRows]
    BY <1>1 DEF RowInv, RowTypes
  <2> QED
    BY <1>2, <2>1, <2>2
<1>5. RowTypes'
  BY <1>1, <1>3, <1>4 DEF RowInv, RowTypes
<1>6. RowsInForce'
  BY <1>1, <1>2, <1>3, <1>4 DEF RowInv, RowTypes, RowsInForce
<1>7. PendingSets'
  <2>1. ASSUME NEW d \in SetCall, d # s, setter'[d].pc = "deleted"
        PROVE  setter[d].pc = "deleted" /\ setter'[d] = setter[d] /\ Kept(d)' = Kept(d)
    BY <2>1, <1>1, <1>3 DEF Kept
  <2>2. \A r \in WhitelistRow : setter[r.by].pc = "done" => setter'[r.by].pc = "done"
    BY <1>1, <1>3 DEF WhitelistRow
  <2>3. /\ Kept(s)' = {} /\ setter'[s].since = {} /\ setter'[s].doomed = allowedRows
        /\ \A r \in allowedRows : r \in WhitelistRow /\ setter[r.by].pc = "done"
    BY <1>1, <1>4 DEF Kept, RowInv, RowTypes, RowsInForce
  <2>4. \A t \in effect : setter'[t].ids = setter[t].ids
    BY <1>2, <1>3 DEF RowInv, RowTypes
  <2>5. \A d \in SetCall : setter[d].doomed \subseteq WhitelistRow
    BY DEF RowInv, RowTypes
  <2>6. ASSUME NEW d \in SetCall, setter'[d].pc = "deleted"
        PROVE  /\ \A r \in setter'[d].doomed : setter'[r.by].pc = "done"
               /\ \A r \in Kept(d)' : r.by \in setter'[d].since
               /\ \A t \in effect \cap setter'[d].since : \A n \in setter'[t].ids :
                    \E r \in Kept(d)' : r.node = n
    <3>1. CASE d = s
      BY <3>1, <2>2, <2>3
    <3>2. CASE d # s
      BY <3>2, <2>1, <2>2, <2>4, <2>5, <2>6 DEF RowInv, PendingSets
    <3> QED
      BY <3>1, <3>2
  <2> QED
    BY <1>1, <2>6 DEF PendingSets
<1>8. May' = May
  <2>1. \A t \in effect : setter'[t].ids = setter[t].ids
    BY <1>2, <1>3 DEF RowInv, RowTypes
  <2> QED
    BY <1>1, <2>1 DEF May
<1> QED
  BY <1>5, <1>6, <1>7, <1>8 DEF RowInv

LEMMA ClearKeeps ==
  ASSUME RowInv, ClearAll
  PROVE  RowInv'
<1>1. allowedRows' = {} /\ effect' = {} /\ setter' = setter
  <2>1. InForce({}) => effect' = {}
    BY DEF InForce
  <2> QED
    BY <2>1 DEF ClearAll
<1>2. RowTypes'
  BY <1>1 DEF RowInv, RowTypes
<1>3. RowsInForce'
  BY <1>1 DEF RowInv, RowsInForce
<1>4. PendingSets'
  <2>1. \A d \in SetCall : Kept(d)' = {}
    BY <1>1 DEF Kept
  <2> QED
    BY <1>1, <2>1 DEF RowInv, PendingSets
<1> QED
  BY <1>2, <1>3, <1>4 DEF RowInv

\* The rows kept by a commit are those of the Sets that stay in force, the new
\* ones are its own; a Set that waits for its own commit keeps both.
LEMMA CommitKeeps ==
  ASSUME RowInv, NEW s \in SetCall, CommitAllowed(s)
  PROVE  RowInv'
<1> DEFINE N == {[node |-> n, by |-> s] :
                   n \in {i \in setter[s].ids : \A r \in Kept(s) : r.node # i}}
<1>1. /\ setter[s].pc = "deleted" /\ ~InsertWaits(s) /\ allowedRows' = Kept(s) \cup N
      /\ effect' = {s} \cup (effect \cap setter[s].since)
  <2>1. InForce({s} \cup (effect \cap setter[s].since))
        => effect' = {s} \cup (effect \cap setter[s].since)
    BY DEF InForce
  <2> QED
    BY <2>1 DEF CommitAllowed
<1>2. setter' = [o \in SetCall |->
         IF o = s THEN [setter[s] EXCEPT !.pc = "done", !.doomed = {}, !.since = {}]
         ELSE IF setter[o].pc = "deleted" THEN [setter[o] EXCEPT !.since = @ \cup {s}]
         ELSE setter[o]]
  BY DEF CommitAllowed
<1>3. \A o \in SetCall : setter[o] \in SetRec
  BY DEF RowInv, RowTypes, SetRec
<1>4. setter'[s] = [pc |-> "done", ids |-> setter[s].ids, doomed |-> {}, since |-> {}]
  BY <1>2, <1>3 DEF SetRec
<1>4a. /\ setter'[s].pc = "done" /\ setter'[s].ids = setter[s].ids
       /\ setter'[s].doomed = {} /\ setter'[s].since = {}
  BY <1>4
<1>5. \A o \in SetCall : o # s =>
        /\ setter'[o].pc = setter[o].pc /\ setter'[o].ids = setter[o].ids
        /\ setter'[o].doomed = setter[o].doomed
        /\ setter[o].pc = "deleted" => setter'[o].since = setter[o].since \cup {s}
        /\ setter[o].pc # "deleted" => setter'[o].since = setter[o].since
        /\ setter'[o] \in SetRec
  <2> SUFFICES ASSUME NEW o \in SetCall, o # s
               PROVE  /\ setter'[o].pc = setter[o].pc /\ setter'[o].ids = setter[o].ids
                      /\ setter'[o].doomed = setter[o].doomed
                      /\ setter[o].pc = "deleted" => setter'[o].since = setter[o].since \cup {s}
                      /\ setter[o].pc # "deleted" => setter'[o].since = setter[o].since
                      /\ setter'[o] \in SetRec
    OBVIOUS
  <2>1. setter[o] \in SetRec
    BY <1>3
  <2>2. CASE setter[o].pc = "deleted"
    <3>1. setter'[o] = [setter[o] EXCEPT !.since = @ \cup {s}]
      BY <1>2, <2>2
    <3> QED
      BY <2>1, <2>2, <3>1 DEF SetRec
  <2>3. CASE setter[o].pc # "deleted"
    <3>1. setter'[o] = setter[o]
      BY <1>2, <2>3
    <3> QED
      BY <2>1, <2>3, <3>1
  <2> QED
    BY <2>2, <2>3
<1>6. /\ \A r \in Kept(s) : r \in allowedRows /\ r \in WhitelistRow /\ r \notin setter[s].doomed
      /\ \A r \in N : r \in WhitelistRow /\ r.by = s /\ r.node \in setter[s].ids
      /\ \A r \in N, q \in Kept(s) : r.node # q.node
      /\ \A r, q \in N : r.node = q.node => r = q
      /\ \A n \in setter[s].ids : \E r \in Kept(s) \cup N : r.node = n
  <2>1. \A r \in Kept(s) : r \in allowedRows /\ r \in WhitelistRow /\ r \notin setter[s].doomed
    BY DEF RowInv, RowTypes, Kept
  <2>2. \A r \in N : /\ r = [node |-> r.node, by |-> s] /\ r.node \in setter[s].ids
                     /\ \A q \in Kept(s) : q.node # r.node
    OBVIOUS
  <2>3. \A n \in setter[s].ids : n \in ProjectNode
    BY <1>3 DEF SetRec
  <2>4. ASSUME NEW n \in setter[s].ids, \A r \in Kept(s) : r.node # n
        PROVE  \E r \in N : r.node = n
    <3>1. [node |-> n, by |-> s] \in N
      BY <2>4
    <3> QED
      BY <3>1
  <2>5. \A n \in setter[s].ids : \E r \in Kept(s) \cup N : r.node = n
    BY <2>4
  <2>6. \A r \in N : r \in WhitelistRow /\ r.by = s
    BY <2>2, <2>3 DEF WhitelistRow
  <2>7. \A r, q \in N : r.node = q.node => r = q
    BY <2>2
  <2> HIDE DEF N
  <2> QED
    BY <2>1, <2>2, <2>5, <2>6, <2>7
<1>7. s \notin effect /\ setter[s].ids # {} /\ effect \subseteq SetCall
  BY <1>1 DEF RowInv, RowTypes, RowsInForce
<1>8. /\ \A r \in Kept(s) : r.by \in setter[s].since /\ r.by \in effect
      /\ \A t \in effect \cap setter[s].since : \A n \in setter[t].ids :
           \E r \in Kept(s) : r.node = n
  BY <1>1, <1>6 DEF RowInv, RowsInForce, PendingSets
<1> HIDE DEF N
<1>9. RowTypes'
  <2>1. allowedRows' \subseteq WhitelistRow /\ effect' \subseteq SetCall
    BY <1>1, <1>6, <1>7
  <2>2. \A o \in SetCall : setter'[o] \in SetRec
    <3>1. setter'[s] \in SetRec
      BY <1>3, <1>4 DEF SetRec
    <3> QED
      BY <3>1, <1>5
  <2>3. setter' \in [SetCall -> SetRec]
    BY <1>2, <2>2
  <2> QED
    BY <2>1, <2>3 DEF RowTypes, WhitelistRow, SetRec
<1>10. RowsInForce'
  <2>1. \A r, q \in allowedRows' : r.node = q.node => r = q
    BY <1>1, <1>6 DEF RowInv, RowsInForce
  <2>2. \A r \in allowedRows' : r.by \in effect' /\ r.node \in setter'[r.by].ids
    BY <1>1, <1>4a, <1>5, <1>6, <1>7, <1>8 DEF RowInv, RowsInForce
  <2>3. \A t \in effect' : /\ setter'[t].pc = "done" /\ setter'[t].ids # {}
                           /\ \A n \in setter'[t].ids : \E r \in allowedRows' : r.node = n
    BY <1>1, <1>4a, <1>5, <1>6, <1>7, <1>8 DEF RowInv, RowsInForce
  <2>4. \A o \in SetCall : /\ setter'[o].pc \in {"tx", "deleted"} => setter'[o].ids # {}
                           /\ setter'[o].pc # "deleted" =>
                                setter'[o].since = {} /\ setter'[o].doomed = {}
    BY <1>4a, <1>5 DEF RowInv, RowsInForce
  <2> QED
    BY <2>1, <2>2, <2>3, <2>4 DEF RowsInForce
<1>11. PendingSets'
  <2>1. ASSUME NEW d \in SetCall, setter'[d].pc = "deleted"
        PROVE  /\ \A r \in setter'[d].doomed : setter'[r.by].pc = "done"
               /\ \A r \in Kept(d)' : r.by \in setter'[d].since
               /\ \A t \in effect' \cap setter'[d].since : \A n \in setter'[t].ids :
                    \E r \in Kept(d)' : r.node = n
    <3>1. /\ d # s /\ setter[d].pc = "deleted" /\ setter'[d].doomed = setter[d].doomed
          /\ setter'[d].since = setter[d].since \cup {s}
      BY <2>1, <1>4a, <1>5
    <3>2. /\ \A r \in setter[d].doomed : r \in WhitelistRow /\ setter[r.by].pc = "done"
          /\ \A r \in Kept(d) : r.by \in setter[d].since
          /\ \A t \in effect \cap setter[d].since : \A n \in setter[t].ids :
               \E r \in Kept(d) : r.node = n
      BY <3>1, <1>3 DEF RowInv, PendingSets, SetRec
    <3>3. \A r : r \in Kept(d)' <=> r \in Kept(s) \cup N /\ r \notin setter[d].doomed
      BY <3>1, <1>1 DEF Kept
    <3>4. \A r \in N : r \notin setter[d].doomed
      BY <3>2, <1>1, <1>6
    <3>5. \A r \in setter[d].doomed : setter'[r.by].pc = "done"
      BY <3>2, <1>1, <1>5 DEF WhitelistRow
    <3>6. \A r \in Kept(d)' : r.by \in setter[d].since \cup {s}
      BY <3>2, <3>3, <1>6 DEF Kept
    <3>7. ASSUME NEW n \in setter[s].ids
          PROVE  \E r \in Kept(d)' : r.node = n
      <4>1. PICK r \in Kept(s) \cup N : r.node = n
        BY <3>7, <1>6
      <4>2. r \notin setter[d].doomed
        BY <3>1, <3>4, <4>1, <1>1 DEF InsertWaits
      <4> QED
        BY <3>3, <4>1, <4>2
    <3>8. ASSUME NEW t \in effect, t \in setter[s].since, t \in setter[d].since,
                 NEW n \in setter[t].ids
          PROVE  \E r \in Kept(d)' : r.node = n
      <4>1. PICK r \in Kept(s) : r.node = n
        BY <3>8, <1>8
      <4>2. PICK q \in Kept(d) : q.node = n
        BY <3>8, <3>2
      <4>3. q = r
        BY <4>1, <4>2 DEF RowInv, RowsInForce, Kept
      <4> QED
        BY <3>3, <4>1, <4>2, <4>3 DEF Kept
    <3>9. \A t \in effect : t # s /\ setter'[t].ids = setter[t].ids
      BY <1>5, <1>7
    <3> QED
      BY <3>1, <3>5, <3>6, <3>7, <3>8, <3>9, <1>1, <1>4a
  <2> QED
    BY <2>1 DEF PendingSets
<1> QED
  BY <1>9, <1>10, <1>11 DEF RowInv

(* ---- the calls of CreateTask ---- *)

LEMMA RowsStay ==
  ASSUME RowInv, UNCHANGED <<allowedRows, setter, effect>>
  PROVE  RowInv' /\ May' = May
BY DEF RowInv, RowTypes, RowsInForce, PendingSets, Kept, May

LEMMA TasksStay ==
  ASSUME TaskInv, May' = May, UNCHANGED <<creating, assigned>>
  PROVE  TaskInv'
BY DEF TaskInv, Active

\* A change of the nodes in force reaches every call under way.
LEMMA TasksTakeNote ==
  ASSUME TaskInv, NEW sets, InForce(sets), SameTasks, May' \subseteq ProjectNode
  PROVE  TaskInv'
<1>1. assigned' = assigned
  BY DEF SameTasks
<1>2. creating' = [c \in CreateCall |->
         IF creating[c].pc \in {"idle", "done"} THEN creating[c]
         ELSE [creating[c] EXCEPT !.may = @ \cup May']]
  BY DEF InForce
<1> DEFINE CreateRec == [pc : {"idle", "allowed", "online", "bulk", "done"},
                         pool : SUBSET ProjectNode, may : SUBSET ProjectNode]
<1>3. ASSUME NEW c \in CreateCall
      PROVE  /\ creating'[c] \in CreateRec /\ creating'[c].pc = creating[c].pc
             /\ creating'[c].pool = creating[c].pool
             /\ creating[c].may \subseteq creating'[c].may
             /\ Active(c) => May' \subseteq creating'[c].may
  <2>1. creating[c] \in CreateRec
    BY DEF TaskInv
  <2>2. CASE creating[c].pc \in {"idle", "done"}
    <3>1. creating'[c] = creating[c]
      BY <1>2, <2>2
    <3> QED
      BY <2>1, <2>2, <3>1 DEF Active
  <2>3. CASE creating[c].pc \notin {"idle", "done"}
    <3>1. creating'[c] = [creating[c] EXCEPT !.may = @ \cup May']
      BY <1>2, <2>3
    <3> QED
      BY <2>1, <3>1
  <2> QED
    BY <2>2, <2>3
<1>4. creating' \in [CreateCall -> CreateRec]
  BY <1>2, <1>3
<1> HIDE DEF CreateRec
<1>5. ASSUME NEW c \in CreateCall
      PROVE  /\ Active(c)' => May' \subseteq creating'[c].may
             /\ creating'[c].pc \in {"online", "bulk"} => creating'[c].pool \subseteq creating'[c].may
             /\ assigned'[c] \subseteq creating'[c].may
             /\ creating'[c].pc # "done" => assigned'[c] = {}
  BY <1>1, <1>3 DEF TaskInv, Active
<1> QED
  BY <1>1, <1>4, <1>5 DEF TaskInv, CreateRec

CreateRec == [pc : {"idle", "allowed", "online", "bulk", "done"},
              pool : SUBSET ProjectNode, may : SUBSET ProjectNode]

\* One call takes a step that keeps what the invariant says of it.
LEMMA OneCallMoves ==
  ASSUME TaskInv, May' = May, NEW c \in CreateCall,
         NEW rec \in CreateRec, creating' = [creating EXCEPT ![c] = rec],
         NEW nodes \in SUBSET ProjectNode, assigned' = [assigned EXCEPT ![c] = nodes],
         rec.pc \in {"allowed", "online", "bulk"} => May \subseteq rec.may,
         rec.pc \in {"online", "bulk"} => rec.pool \subseteq rec.may,
         nodes \subseteq rec.may, rec.pc # "done" => nodes = {}
  PROVE  TaskInv'
<1>1. creating \in [CreateCall -> CreateRec] /\ assigned \in [CreateCall -> SUBSET ProjectNode]
  BY DEF TaskInv, CreateRec
<1>2. /\ creating'[c] = rec /\ assigned'[c] = nodes
      /\ \A o \in CreateCall : o # c => creating'[o] = creating[o] /\ assigned'[o] = assigned[o]
  BY <1>1
<1>3. /\ creating' \in [CreateCall -> CreateRec] /\ assigned' \in [CreateCall -> SUBSET ProjectNode]
  BY <1>1
<1>4. ASSUME NEW o \in CreateCall
      PROVE  /\ Active(o)' => May' \subseteq creating'[o].may
             /\ creating'[o].pc \in {"online", "bulk"} => creating'[o].pool \subseteq creating'[o].may
             /\ assigned'[o] \subseteq creating'[o].may
             /\ creating'[o].pc # "done" => assigned'[o] = {}
  <2>1. CASE o = c
    BY <1>2, <2>1 DEF Active
  <2>2. CASE o # c
    BY <1>2, <2>2 DEF TaskInv, Active
  <2> QED
    BY <2>1, <2>2
<1> QED
  BY <1>3, <1>4 DEF TaskInv, CreateRec

\* A dispatch that has read the whitelist holds a part of what was allowed.
LEMMA DispatchMoves ==
  ASSUME TaskInv, May' = May, NEW c \in CreateCall,
         NEW pc \in {"online", "bulk", "done"}, NEW pool \in SUBSET ProjectNode,
         creating' = [creating EXCEPT ![c] = [pc |-> pc, pool |-> pool, may |-> creating[c].may]],
         creating[c].pc \in {"allowed", "online", "bulk"},
         pc # "done" => pool \subseteq creating[c].may, assigned' = assigned
  PROVE  TaskInv'
<1> DEFINE rec == [pc |-> pc, pool |-> pool, may |-> creating[c].may]
<1>1. creating[c] \in CreateRec /\ assigned[c] = {}
  BY DEF TaskInv, CreateRec
<1>2. rec \in CreateRec
  BY <1>1 DEF CreateRec
<1>3. rec.pc = pc /\ rec.pool = pool /\ rec.may = creating[c].may /\ May \subseteq rec.may
  BY DEF TaskInv, Active
<1>4. assigned' = [assigned EXCEPT ![c] = {}]
  BY <1>1 DEF TaskInv
<1>5. creating' = [creating EXCEPT ![c] = rec]
  OBVIOUS
<1> HIDE DEF rec
<1> QED
  BY <1>2, <1>3, <1>4, <1>5, OneCallMoves

\* The whitelist read is one that was in force; what follows only narrows it.
LEMMA CallsKeepTasks ==
  ASSUME RowInv, TaskInv, NEW c \in CreateCall,
         CreateTask(c) \/ GetAllowed(c) \/ ListOnline(c) \/ InsertBulk(c) \/ DispatchFails(c)
  PROVE  RowInv' /\ TaskInv'
<1>1. UNCHANGED <<allowedRows, setter, effect>>
  BY DEF CreateTask, GetAllowed, ListOnline, InsertBulk, DispatchFails, SameRest
<1>2. RowInv' /\ May' = May
  BY <1>1, RowsStay
<1>3. May \subseteq ProjectNode
  BY MayIsNodes DEF RowInv
<1>4. creating \in [CreateCall -> CreateRec] /\ assigned \in [CreateCall -> SUBSET ProjectNode]
  BY DEF TaskInv, CreateRec
<1>5. creating[c] \in CreateRec
  BY <1>4
<1>6. CASE CreateTask(c)
  <2> DEFINE rec == [pc |-> "allowed", pool |-> creating[c].pool, may |-> May]
  <2>1. /\ creating' = [creating EXCEPT ![c].pc = "allowed", ![c].may = May]
        /\ creating[c].pc = "idle" /\ assigned' = assigned
    BY <1>6 DEF CreateTask
  <2>2. creating' = [creating EXCEPT ![c] = rec]
    <3>1. creating'[c] = [[creating[c] EXCEPT !.pc = "allowed"] EXCEPT !.may = May]
      BY <1>4, <2>1
    <3>2. creating'[c] = rec
      BY <1>5, <3>1 DEF CreateRec
    <3>3. /\ \A o \in CreateCall : o # c => creating'[o] = creating[o]
          /\ creating' = [o \in CreateCall |-> creating'[o]]
      BY <1>4, <2>1
    <3> HIDE DEF rec
    <3> QED
      BY <3>2, <3>3, <1>4
  <2>3. rec \in CreateRec /\ rec.pc = "allowed" /\ rec.may = May
    BY <1>3, <1>5 DEF CreateRec
  <2>4. assigned[c] = {} /\ assigned' = [assigned EXCEPT ![c] = {}]
    BY <1>4, <2>1 DEF TaskInv
  <2> HIDE DEF rec
  <2>5. TaskInv'
    BY <1>2, <2>2, <2>3, <2>4, OneCallMoves
  <2> QED
    BY <1>2, <2>5
<1>7. CASE GetAllowed(c)
  <2>1. /\ creating' = [creating EXCEPT ![c].pc = "online", ![c].pool = May]
        /\ creating[c].pc = "allowed" /\ assigned' = assigned
    BY <1>7, AllowedIsMay DEF GetAllowed
  <2> DEFINE rec == [pc |-> "online", pool |-> May, may |-> creating[c].may]
  <2>2. creating' = [creating EXCEPT ![c] = rec]
    <3>1. creating'[c] = [[creating[c] EXCEPT !.pc = "online"] EXCEPT !.pool = May]
      BY <1>4, <2>1
    <3>2. creating'[c] = rec
      BY <1>5, <3>1 DEF CreateRec
    <3>3. /\ \A o \in CreateCall : o # c => creating'[o] = creating[o]
          /\ creating' = [o \in CreateCall |-> creating'[o]]
      BY <1>4, <2>1
    <3> HIDE DEF rec
    <3> QED
      BY <3>2, <3>3, <1>4
  <2>3. May \subseteq creating[c].may /\ "online" \in {"online", "bulk", "done"}
    BY <2>1 DEF TaskInv, Active
  <2>4. TaskInv'
    BY <1>2, <1>3, <2>1, <2>2, <2>3, DispatchMoves
  <2> QED
    BY <1>2, <2>4
<1>8. CASE ListOnline(c)
  <2> DEFINE pool == {n \in creating[c].pool : nodeRow[n] = "online"}
             pc == IF pool = {} THEN "done" ELSE "bulk"
  <2>1. /\ creating' = [creating EXCEPT ![c].pc = pc, ![c].pool = pool]
        /\ creating[c].pc = "online" /\ assigned' = assigned
    BY <1>8 DEF ListOnline
  <2>2. pc \in {"bulk", "done"}
    OBVIOUS
  <2>3. pool \subseteq creating[c].pool
    OBVIOUS
  <2> HIDE DEF pool, pc
  <2> DEFINE rec == [pc |-> pc, pool |-> pool, may |-> creating[c].may]
  <2>4. creating' = [creating EXCEPT ![c] = rec]
    <3>1. creating'[c] = [[creating[c] EXCEPT !.pc = pc] EXCEPT !.pool = pool]
      BY <1>4, <2>1
    <3>2. creating'[c] = rec
      BY <1>5, <3>1 DEF CreateRec
    <3>3. /\ \A o \in CreateCall : o # c => creating'[o] = creating[o]
          /\ creating' = [o \in CreateCall |-> creating'[o]]
      BY <1>4, <2>1
    <3> HIDE DEF rec
    <3> QED
      BY <3>2, <3>3, <1>4
  <2>5. pool \in SUBSET ProjectNode /\ pool \subseteq creating[c].may
    BY <1>5, <2>1, <2>3 DEF TaskInv, CreateRec
  <2>6. TaskInv'
    BY <1>2, <2>1, <2>2, <2>4, <2>5, DispatchMoves
  <2> QED
    BY <1>2, <2>6
<1>9. CASE InsertBulk(c)
  <2>1. PICK picked \in (SUBSET creating[c].pool) \ {{}} : assigned' = [assigned EXCEPT ![c] = picked]
    BY <1>9 DEF InsertBulk
  <2> DEFINE rec == [creating[c] EXCEPT !.pc = "done"]
  <2>2. creating' = [creating EXCEPT ![c].pc = "done"] /\ creating[c].pc = "bulk"
    BY <1>9 DEF InsertBulk, To
  <2>3. creating' = [creating EXCEPT ![c] = rec]
    BY <1>4, <2>2
  <2>4. rec \in CreateRec /\ rec.pc = "done" /\ rec.may = creating[c].may
    BY <1>5 DEF CreateRec
  <2>5. picked \in SUBSET ProjectNode /\ picked \subseteq creating[c].may
    BY <1>5, <2>1, <2>2 DEF TaskInv, CreateRec
  <2> HIDE DEF rec
  <2>6. TaskInv'
    BY <1>2, <2>1, <2>3, <2>4, <2>5, OneCallMoves
  <2> QED
    BY <1>2, <2>6
<1>10. CASE DispatchFails(c)
  <2>1. /\ creating' = [creating EXCEPT ![c].pc = "done"] /\ assigned' = assigned
        /\ creating[c].pc \in {"allowed", "online", "bulk"}
    BY <1>10 DEF DispatchFails, To
  <2>2. creating' = [creating EXCEPT ![c] = [creating[c] EXCEPT !.pc = "done"]]
    BY <1>4, <2>1
  <2>3. [creating[c] EXCEPT !.pc = "done"]
          = [pc |-> "done", pool |-> creating[c].pool, may |-> creating[c].may]
    BY <1>5 DEF CreateRec
  <2>4. creating[c].pool \in SUBSET ProjectNode
    BY <1>5 DEF CreateRec
  <2>5. TaskInv'
    BY <1>2, <2>1, <2>2, <2>3, <2>4, DispatchMoves
  <2> QED
    BY <1>2, <2>5
<1> QED
  BY <1>6, <1>7, <1>8, <1>9, <1>10

(* ---- the invariant ---- *)

LEMMA PnStep == PnInv /\ [PnNext]_pnVars => PnInv'
<1> SUFFICES ASSUME RowInv, TaskInv, [PnNext]_pnVars PROVE RowInv' /\ TaskInv'
  BY DEF PnInv
<1>1. ASSUME NEW s \in SetCall, NEW ids \in (SUBSET ProjectNode) \ {{}}, SetBegin(s, ids)
      PROVE  RowInv' /\ TaskInv'
  <2>1. /\ setter[s].pc = "idle" /\ setter' = [setter EXCEPT ![s].pc = "tx", ![s].ids = ids]
        /\ UNCHANGED <<allowedRows, effect, creating, assigned>>
    BY <1>1 DEF SetBegin, SameMay, SameTasks
  <2>2. setter \in [SetCall -> SetRec] /\ setter[s].doomed = {} /\ setter[s].since = {}
    BY <2>1 DEF RowInv, RowTypes, RowsInForce, SetRec
  <2> DEFINE rec == [pc |-> "tx", ids |-> ids, doomed |-> {}, since |-> {}]
  <2>3. setter' = [setter EXCEPT ![s] = rec]
    <3>1. setter'[s] = [[setter[s] EXCEPT !.pc = "tx"] EXCEPT !.ids = ids]
      BY <2>2, <2>1
    <3>2. setter'[s] = rec
      BY <2>2, <3>1 DEF SetRec
    <3>3. /\ \A o \in SetCall : o # s => setter'[o] = setter[o]
          /\ setter' = [o \in SetCall |-> setter'[o]]
      BY <2>2, <2>1
    <3> HIDE DEF rec
    <3> QED
      BY <3>2, <3>3, <2>2
  <2>4. RowInv' /\ May' = May
    BY <2>1, <2>3, SetMoves
  <2> QED
    BY <2>1, <2>4, TasksStay
<1>2. ASSUME NEW s \in SetCall, DeleteAllowed(s) PROVE RowInv' /\ TaskInv'
  <2>1. UNCHANGED <<creating, assigned>>
    BY <1>2 DEF DeleteAllowed, SameMay, SameTasks
  <2> QED
    BY <1>2, <2>1, DeleteKeeps, TasksStay
<1>3. ASSUME NEW s \in SetCall, CommitAllowed(s) PROVE RowInv' /\ TaskInv'
  <2>1. RowInv'
    BY <1>3, CommitKeeps
  <2>2. May' \subseteq ProjectNode
    BY <2>1 DEF RowInv, RowTypes, May
  <2> DEFINE sets == {s} \cup (effect \cap setter[s].since)
  <2>3. InForce(sets) /\ SameTasks
    BY <1>3 DEF CommitAllowed
  <2> HIDE DEF sets
  <2> QED
    BY <2>1, <2>2, <2>3, TasksTakeNote
<1>4. ASSUME NEW s \in SetCall, SetFails(s) PROVE RowInv' /\ TaskInv'
  <2>1. /\ setter[s].pc \in {"tx", "deleted"}
        /\ setter' = [setter EXCEPT ![s] = [SetIdle EXCEPT !.pc = "done"]]
        /\ UNCHANGED <<allowedRows, effect, creating, assigned>>
    BY <1>4 DEF SetFails, SameMay, SameTasks
  <2>2. [SetIdle EXCEPT !.pc = "done"] = [pc |-> "done", ids |-> {}, doomed |-> {}, since |-> {}]
    BY DEF SetIdle
  <2>3. RowInv' /\ May' = May
    BY <2>1, <2>2, SetMoves
  <2> QED
    BY <2>1, <2>3, TasksStay
<1>5. CASE ClearAll
  <2>1. RowInv'
    BY <1>5, ClearKeeps
  <2>2. May' \subseteq ProjectNode
    BY <2>1 DEF RowInv, RowTypes, May
  <2>3. InForce({}) /\ SameTasks
    BY <1>5 DEF ClearAll
  <2> QED
    BY <2>1, <2>2, <2>3, TasksTakeNote
<1>6. ASSUME NEW c \in CreateCall,
             CreateTask(c) \/ GetAllowed(c) \/ ListOnline(c) \/ InsertBulk(c) \/ DispatchFails(c)
      PROVE  RowInv' /\ TaskInv'
  BY <1>6, CallsKeepTasks
<1>7. ASSUME UNCHANGED <<allowedRows, setter, effect, creating, assigned>>
      PROVE  RowInv' /\ TaskInv'
  BY <1>7, RowsStay, TasksStay
<1>8. ASSUME NEW status, ChangeProject(status) PROVE RowInv' /\ TaskInv'
  BY <1>7, <1>8 DEF ChangeProject, SameMay
<1>9. ASSUME NEW n, NEW status, ChangeNode(n, status) PROVE RowInv' /\ TaskInv'
  BY <1>7, <1>9 DEF ChangeNode, SameMay
<1>10. CASE UNCHANGED pnVars
  BY <1>7, <1>10 DEF pnVars
<1> QED
  BY <1>1, <1>2, <1>3, <1>4, <1>5, <1>6, <1>8, <1>9, <1>10 DEF PnNext

\* Every assignment goes to a node that the calls which set the whitelist allowed
\* at some moment of its CreateTask, and the rows are always those of the Sets in
\* force, however many Sets, clears and dispatches interleave, fail or roll back.
THEOREM DispatchedAsAllowed == PnSpec => []WhitelistHolds
<1>1. PnInv => WhitelistHolds
  BY AllowedIsMay DEF PnInv, TaskInv, WhitelistHolds
<1> QED
  BY <1>1, PnInitInv, PnStep, PTL DEF PnSpec
=============================================================================
