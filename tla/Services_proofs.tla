-------------------------- MODULE Services_proofs ---------------------------
(***************************************************************************)
(* The components of MCServices that have no proof module of their own,    *)
(* each proved about for every value of its constants.                     *)
(***************************************************************************)
EXTENDS MCServices, NodeFleet_proofs, ProjectNodes_proofs, FiniteSetTheorems,
        SequenceTheorems, TLAPS

-----------------------------------------------------------------------------
(***************************************************************************)
(* The rows of a tenant are one hash chain, for any number of tenants and  *)
(* goroutines, however much finer the clock is than the column created_at. *)
(* That VerifyChain accepts them is another matter: the run with Ticks = 2 *)
(* finds UntouchedChainVerifies violated.                                  *)
(***************************************************************************)

AcTypes ==
  /\ DOMAIN log = AuditTenant
  /\ \A t \in AuditTenant : \E S : log[t] \in Seq(S)
  /\ tenantMu \in [AuditTenant -> SUBSET Writer]
  /\ DOMAIN writer = Writer
  /\ \A w \in Writer : /\ writer[w] = [pc |-> writer[w].pc, prev |-> writer[w].prev]
                       /\ writer[w].pc \in {"idle", "latest", "insert"}
  /\ clock \in Nat

\* The mutex of a tenant is held by the one goroutine between its begin and
\* its insert.
MutexHeld ==
  /\ \A t \in AuditTenant : \A v, w \in tenantMu[t] : v = w
  /\ \A w \in Writer : writer[w].pc # "idle" => w \in tenantMu[TenantOf[w]]

\* So the hash it has read is still the latest one when it inserts its row.
ReadIsLatest ==
  \A w \in Writer : writer[w].pc = "insert" => writer[w].prev = LatestHash(TenantOf[w])

Linked(t) ==
  \A i \in 1..Len(log[t]) :
    /\ log[t][i].prev = IF i = 1 THEN GenesisPrevHash ELSE log[t][i - 1].hash
    /\ \E at \in log[t][i].at..(log[t][i].at + Ticks - 1) :
         log[t][i].hash = ComputeHash(log[t][i].prev, t, at)
AllLinked == \A t \in AuditTenant : Linked(t)

AcInv == AcTypes /\ MutexHeld /\ ReadIsLatest /\ AllLinked

LEMMA AcInitInv == AcInit => AcInv
<1> SUFFICES ASSUME AcInit PROVE AcInv
  OBVIOUS
<1>1. ASSUME NEW t \in AuditTenant PROVE log[t] \in Seq({}) /\ Len(log[t]) = 0
  BY <1>1 DEF AcInit
<1>2. AcTypes
  BY <1>1 DEF AcInit, AcTypes, WriterIdle
<1>3. MutexHeld /\ ReadIsLatest
  BY DEF AcInit, MutexHeld, ReadIsLatest, WriterIdle
<1>4. AllLinked
  BY <1>1 DEF AllLinked, Linked
<1> QED
  BY <1>2, <1>3, <1>4 DEF AcInv

\* What the column keeps of a time is less than one of its units before it.
LEMMA StoredWithin ==
  \A at \in Nat : Stored(at) \in Nat /\ at \in Stored(at)..(Stored(at) + Ticks - 1)
<1> SUFFICES ASSUME NEW at \in Nat
             PROVE  Stored(at) \in Nat /\ at \in Stored(at)..(Stored(at) + Ticks - 1)
  OBVIOUS
<1>1. Ticks \in Nat \ {0}
  BY AuditAssumption
<1>2. CASE at < Ticks
  <2>1. at % Ticks = at
    BY <1>1, <1>2
  <2> QED
    BY <1>1, <1>2, <2>1 DEF Stored
<1>3. CASE ~(at < Ticks)
  <2>1. at % Ticks \in 0..(Ticks - 1)
    BY <1>1
  <2> QED
    BY <1>1, <1>3, <2>1 DEF Stored
<1> QED
  BY <1>2, <1>3

LEMMA BeginKeeps ==
  ASSUME AcInv, NEW w \in Writer, LogBegin(w)
  PROVE  AcInv'
<1> DEFINE t == TenantOf[w]
<1>0. t \in AuditTenant
  BY AuditAssumption
<1>1. /\ writer[w].pc = "idle" /\ tenantMu[t] = {}
      /\ tenantMu' = [tenantMu EXCEPT ![t] = tenantMu[t] \cup {w}]
      /\ writer' = [writer EXCEPT ![w].pc = "latest"]
      /\ log' = log /\ clock' = clock
  BY DEF LogBegin, LockTenant
<1>2. AcTypes'
  BY <1>0, <1>1 DEF AcInv, AcTypes
<1>3. MutexHeld'
  BY <1>0, <1>1 DEF AcInv, AcTypes, MutexHeld
<1>4. ReadIsLatest'
  BY <1>0, <1>1 DEF AcInv, AcTypes, ReadIsLatest, LatestHash
<1>5. AllLinked'
  BY <1>1 DEF AcInv, AllLinked, Linked
<1> QED
  BY <1>2, <1>3, <1>4, <1>5 DEF AcInv

LEMMA ReadKeeps ==
  ASSUME AcInv, NEW w \in Writer, ReadLatest(w)
  PROVE  AcInv'
<1>1. /\ writer[w].pc = "latest"
      /\ writer' = [writer EXCEPT ![w] = [pc |-> "insert", prev |-> LatestHash(TenantOf[w])]]
      /\ log' = log /\ tenantMu' = tenantMu /\ clock' = clock
  BY DEF ReadLatest
<1>2. AcTypes'
  BY <1>1 DEF AcInv, AcTypes
<1>3. MutexHeld'
  BY <1>1 DEF AcInv, AcTypes, MutexHeld
<1>4. ReadIsLatest'
  BY <1>1 DEF AcInv, AcTypes, ReadIsLatest, LatestHash
<1>5. AllLinked'
  BY <1>1 DEF AcInv, AllLinked, Linked
<1> QED
  BY <1>2, <1>3, <1>4, <1>5 DEF AcInv

\* Whoever gives the mutex back, by the end of Log, has no part in the chain.
LEMMA UnlockKeeps ==
  ASSUME AcTypes, MutexHeld, NEW w \in Writer, Unlock(w)
  PROVE  /\ MutexHeld'
         /\ tenantMu' \in [AuditTenant -> SUBSET Writer]
         /\ DOMAIN writer' = Writer
         /\ \A v \in Writer : /\ writer'[v] = [pc |-> writer'[v].pc, prev |-> writer'[v].prev]
                              /\ writer'[v].pc \in {"idle", "latest", "insert"}
<1>0. TenantOf \in [Writer -> AuditTenant]
  BY AuditAssumption
<1>1. /\ writer' = [writer EXCEPT ![w] = WriterIdle]
      /\ tenantMu' = [tenantMu EXCEPT ![TenantOf[w]] = tenantMu[TenantOf[w]] \ {w}]
  BY DEF Unlock
<1>2. ASSUME NEW v \in Writer, writer'[v].pc # "idle" PROVE v \in tenantMu'[TenantOf[v]]
  <2>1. v # w
    BY <1>1, <1>2 DEF AcTypes, WriterIdle
  <2> QED
    BY <1>0, <1>1, <1>2, <2>1 DEF AcTypes, MutexHeld
<1>3. \A t \in AuditTenant : tenantMu'[t] \subseteq tenantMu[t]
  BY <1>0, <1>1 DEF AcTypes
<1>4. MutexHeld'
  BY <1>2, <1>3 DEF MutexHeld
<1> QED
  BY <1>0, <1>1, <1>4 DEF AcTypes, WriterIdle

LEMMA FailKeeps ==
  ASSUME AcInv, NEW w \in Writer, LogFails(w)
  PROVE  AcInv'
<1>1. Unlock(w) /\ log' = log /\ clock' = clock
  BY DEF LogFails
<1>2. AcTypes' /\ MutexHeld'
  BY <1>1, UnlockKeeps DEF AcInv, AcTypes
<1>3. ReadIsLatest'
  BY <1>1 DEF Unlock, WriterIdle, AcInv, AcTypes, ReadIsLatest, LatestHash
<1>4. AllLinked'
  BY <1>1 DEF AcInv, AllLinked, Linked
<1> QED
  BY <1>2, <1>3, <1>4 DEF AcInv

LEMMA DeathKeeps == AcInv /\ AuditProcessDies => AcInv'
<1> SUFFICES ASSUME AcInv, AuditProcessDies PROVE AcInv'
  OBVIOUS
<1>1. AcTypes'
  BY DEF AuditProcessDies, AcInv, AcTypes, WriterIdle
<1>2. MutexHeld' /\ ReadIsLatest'
  BY DEF AuditProcessDies, MutexHeld, ReadIsLatest, WriterIdle
<1>3. AllLinked'
  BY DEF AuditProcessDies, AcInv, AllLinked, Linked
<1> QED
  BY <1>1, <1>2, <1>3 DEF AcInv

\* The row a goroutine inserts is linked to the latest one, and no other
\* goroutine of the tenant has read that one.
LEMMA AuditInsertKeeps ==
  ASSUME AcInv, NEW w \in Writer, InsertLog(w)
  PROVE  AcInv'
<1> DEFINE t == TenantOf[w]
           row == [prev |-> writer[w].prev, at |-> Stored(clock'),
                   hash |-> ComputeHash(writer[w].prev, t, clock')]
           n == Len(log[t])
<1>0. t \in AuditTenant /\ clock \in Nat
  BY AuditAssumption DEF AcInv, AcTypes
<1>1. /\ writer[w].pc = "insert" /\ Unlock(w)
      /\ log' = [log EXCEPT ![t] = Append(log[t], row)]
  BY DEF InsertLog
<1>2. clock' \in Nat /\ clock' \in Stored(clock')..(Stored(clock') + Ticks - 1)
  <2>1. PICK nano \in 0..(Ticks - 1) : clock' = Stored(clock) + Ticks + nano
    BY DEF InsertLog
  <2>2. clock' \in Nat
    BY <1>0, <2>1, StoredWithin, AuditAssumption
  <2> QED
    BY <2>2, StoredWithin
<1>3. writer[w].prev = LatestHash(t)
  BY <1>1 DEF AcInv, ReadIsLatest
<1>4. PICK S : log[t] \in Seq(S)
  BY <1>0 DEF AcInv, AcTypes
<1>5. /\ log'[t] = Append(log[t], row) /\ n \in Nat /\ Len(log'[t]) = n + 1
      /\ log'[t] \in Seq(S \cup {row})
      /\ \A i \in 1..n : log'[t][i] = log[t][i]
      /\ log'[t][n + 1] = row
  <2>1. log'[t] = Append(log[t], row)
    BY <1>0, <1>1 DEF AcInv, AcTypes
  <2>2. log[t] \in Seq(S \cup {row})
    BY <1>4
  <2> HIDE DEF row
  <2> QED
    BY <2>1, <2>2
<1>6. \A u \in AuditTenant : u # t => log'[u] = log[u]
  BY <1>1 DEF AcInv, AcTypes
<1> HIDE DEF t, n
<1>7. AcTypes'
  <2>1. \A u \in AuditTenant : \E U : log'[u] \in Seq(U)
    BY <1>5, <1>6 DEF AcInv, AcTypes
  <2>2. DOMAIN log' = AuditTenant
    BY <1>1 DEF AcInv, AcTypes
  <2> QED
    BY <1>1, <1>2, <2>1, <2>2, UnlockKeeps DEF AcInv, AcTypes
<1>8. MutexHeld'
  BY <1>1, UnlockKeeps DEF AcInv
<1>9. ReadIsLatest'
  <2>1. ASSUME NEW v \in Writer, writer'[v].pc = "insert"
        PROVE  writer'[v].prev = LatestHash(TenantOf[v])'
    <3>1. v # w /\ writer'[v] = writer[v]
      BY <1>1, <2>1 DEF Unlock, WriterIdle, AcInv, AcTypes
    <3>2. TenantOf[v] # t
      BY <1>0, <1>1, <2>1, <3>1 DEF t, AcInv, MutexHeld
    <3>3. TenantOf[v] \in AuditTenant
      BY AuditAssumption
    <3> QED
      BY <1>6, <2>1, <3>1, <3>2, <3>3 DEF AcInv, ReadIsLatest, LatestHash
  <2> QED
    BY <2>1 DEF ReadIsLatest
<1>10. AllLinked'
  <2>1. Linked(t)'
    <3>1. ASSUME NEW i \in 1..(n + 1)
          PROVE  log'[t][i].prev = IF i = 1 THEN GenesisPrevHash ELSE log'[t][i - 1].hash
      <4>1. CASE i = n + 1 /\ n = 0
        <5>1. log[t] = <<>>
          BY <1>4, <4>1 DEF n
        <5> QED
          BY <1>3, <1>5, <4>1, <5>1 DEF LatestHash
      <4>2. CASE i = n + 1 /\ n # 0
        <5>1. n \in 1..n /\ log[t] # <<>>
          BY <1>4, <1>5, <4>2 DEF n
        <5>2. log'[t][i - 1] = log[t][n] /\ log'[t][i].prev = log[t][n].hash
          BY <1>3, <1>5, <4>2, <5>1 DEF LatestHash, n
        <5> QED
          BY <1>5, <4>2, <5>2
      <4>3. CASE i # n + 1
        <5>1. i \in 1..n /\ (i # 1 => i - 1 \in 1..n)
          BY <1>5, <4>3
        <5> QED
          BY <1>0, <1>5, <5>1 DEF AcInv, AllLinked, Linked, n
      <4> QED
        BY <4>1, <4>2, <4>3
    <3>2. ASSUME NEW i \in 1..(n + 1)
          PROVE  \E at \in log'[t][i].at..(log'[t][i].at + Ticks - 1) :
                   log'[t][i].hash = ComputeHash(log'[t][i].prev, t, at)
      <4>1. CASE i = n + 1
        BY <1>2, <1>5, <4>1
      <4>2. CASE i # n + 1
        <5>1. i \in 1..n
          BY <1>5, <4>2
        <5> QED
          BY <1>0, <1>5, <5>1 DEF AcInv, AllLinked, Linked, n
      <4> QED
        BY <4>1, <4>2
    <3> QED
      BY <1>5, <3>1, <3>2 DEF Linked
  <2>2. ASSUME NEW u \in AuditTenant, u # t PROVE Linked(u)'
    BY <1>6, <2>2 DEF AcInv, AllLinked, Linked
  <2> QED
    BY <2>1, <2>2 DEF AllLinked
<1> QED
  BY <1>7, <1>8, <1>9, <1>10 DEF AcInv

LEMMA AcStep ==
  ASSUME AcInv, [AcNext]_acVars
  PROVE  AcInv'
<1>1. CASE UNCHANGED acVars
  BY <1>1 DEF acVars, AcInv, AcTypes, MutexHeld, ReadIsLatest, LatestHash, AllLinked, Linked
<1> QED
  BY <1>1, BeginKeeps, ReadKeeps, AuditInsertKeeps, FailKeeps, DeathKeeps DEF AcNext

\* No race, failure or death of the process forks the chain of a tenant or
\* leaves a hole in it (audit/service.go, Log), whatever the clock's precision.
THEOREM ChainNeverForks == AcSpec => []ChainContinues
<1>1. AcInv => ChainContinues
  BY DEF AcInv, AllLinked, Linked, ChainContinues
<1>2. AcInv /\ [AcNext]_acVars => AcInv'
  BY AcStep
<1> QED
  BY <1>1, <1>2, AcInitInv, PTL DEF AcSpec

(* ---- the bound on the rows ---- *)

\* A goroutine takes the mutex only while there is room for its row, and
\* nobody else adds one before it gives it back.
RoomLeft ==
  \A t \in AuditTenant : /\ Len(log[t]) <= MaxRows
                         /\ tenantMu[t] # {} => Len(log[t]) < MaxRows
AcBounds == AcTypes /\ MutexHeld /\ RoomLeft

LEMMA AcInitBounds == AcInit => AcBounds
<1> SUFFICES ASSUME AcInit PROVE AcBounds
  OBVIOUS
<1>1. ASSUME NEW t \in AuditTenant
      PROVE  log[t] \in Seq({}) /\ Len(log[t]) = 0 /\ tenantMu[t] = {}
  BY <1>1 DEF AcInit
<1>2. AcTypes
  BY <1>1 DEF AcInit, AcTypes, WriterIdle
<1>3. MutexHeld
  BY DEF AcInit, MutexHeld, WriterIdle
<1>4. RoomLeft
  BY <1>1, AuditAssumption DEF RoomLeft
<1> QED
  BY <1>2, <1>3, <1>4 DEF AcBounds

LEMMA AcBoundsStep == AcBounds /\ [AcNext]_acVars => AcBounds'
<1> SUFFICES ASSUME AcBounds, [AcNext]_acVars PROVE AcBounds'
  OBVIOUS
<1> USE DEF AcBounds
<1>0. \A t \in AuditTenant : Len(log[t]) \in Nat
  BY DEF AcTypes
<1>1. ASSUME NEW w \in Writer, LogBegin(w) PROVE AcBounds'
  <2> DEFINE t == TenantOf[w]
  <2>0. t \in AuditTenant
    BY AuditAssumption
  <2>1. /\ writer[w].pc = "idle" /\ tenantMu[t] = {} /\ Len(log[t]) + Cardinality(tenantMu[t]) < MaxRows
        /\ tenantMu' = [tenantMu EXCEPT ![t] = tenantMu[t] \cup {w}]
        /\ writer' = [writer EXCEPT ![w].pc = "latest"]
        /\ log' = log /\ clock' = clock
    BY <1>1 DEF LogBegin, LockTenant
  <2>2. Len(log[t]) < MaxRows
    BY <1>0, <2>0, <2>1, FS_EmptySet
  <2>3. AcTypes'
    BY <2>0, <2>1 DEF AcTypes
  <2>4. MutexHeld'
    BY <2>0, <2>1 DEF AcTypes, MutexHeld
  <2>5. RoomLeft'
    BY <2>0, <2>1, <2>2 DEF AcTypes, RoomLeft
  <2> QED
    BY <2>3, <2>4, <2>5
<1>2. ASSUME NEW w \in Writer, ReadLatest(w) PROVE AcBounds'
  <2>1. AcTypes'
    BY <1>2 DEF ReadLatest, AcTypes
  <2>2. MutexHeld' /\ RoomLeft'
    BY <1>2 DEF ReadLatest, AcTypes, MutexHeld, RoomLeft
  <2> QED
    BY <2>1, <2>2
<1>3. ASSUME NEW w \in Writer, InsertLog(w) PROVE AcBounds'
  <2> DEFINE t == TenantOf[w]
             row == [prev |-> writer[w].prev, at |-> Stored(clock'),
                     hash |-> ComputeHash(writer[w].prev, t, clock')]
  <2>0. t \in AuditTenant
    BY AuditAssumption
  <2>1. /\ writer[w].pc = "insert" /\ Unlock(w)
        /\ log' = [log EXCEPT ![t] = Append(log[t], row)]
    BY <1>3 DEF InsertLog
  <2>2. clock' \in Nat
    <3>1. PICK nano \in 0..(Ticks - 1) : clock' = Stored(clock) + Ticks + nano
      BY <1>3 DEF InsertLog
    <3>2. Stored(clock) \in Nat /\ Ticks \in Nat
      BY StoredWithin, AuditAssumption DEF AcTypes
    <3> QED
      BY <3>1, <3>2
  <2>3. PICK S : log[t] \in Seq(S)
    BY <2>0 DEF AcTypes
  <2>4. /\ log'[t] \in Seq(S \cup {row}) /\ Len(log'[t]) = Len(log[t]) + 1
        /\ \A u \in AuditTenant : u # t => log'[u] = log[u]
        /\ DOMAIN log' = AuditTenant
    <3>1. log'[t] = Append(log[t], row) /\ log[t] \in Seq(S \cup {row})
      BY <2>0, <2>1, <2>3 DEF AcTypes
    <3>2. (\A u \in AuditTenant : u # t => log'[u] = log[u]) /\ DOMAIN log' = AuditTenant
      BY <2>1 DEF AcTypes
    <3> HIDE DEF row
    <3> QED
      BY <3>1, <3>2
  <2>5. tenantMu[t] = {w} /\ tenantMu' = [tenantMu EXCEPT ![t] = {}]
    <3>1. tenantMu[t] = {w}
      BY <2>0, <2>1 DEF MutexHeld
    <3> QED
      BY <2>0, <2>1, <3>1 DEF Unlock
  <2> HIDE DEF t, row
  <2>6. AcTypes'
    <3>1. \A u \in AuditTenant : \E U : log'[u] \in Seq(U)
      BY <2>4 DEF AcTypes
    <3> QED
      BY <2>1, <2>2, <2>4, <3>1, UnlockKeeps DEF AcTypes
  <2>7. RoomLeft'
    <3>1. Len(log[t]) + 1 <= MaxRows /\ tenantMu'[t] = {}
      <4>1. Len(log[t]) < MaxRows /\ Len(log[t]) \in Nat
        BY <1>0, <2>0, <2>5 DEF RoomLeft
      <4>2. tenantMu'[t] = {}
        BY <2>0, <2>5 DEF AcTypes
      <4> QED
        BY <4>1, <4>2, AuditAssumption
    <3>2. \A u \in AuditTenant : u # t => tenantMu'[u] = tenantMu[u] /\ log'[u] = log[u]
      BY <2>4, <2>5 DEF AcTypes
    <3> QED
      BY <2>4, <3>1, <3>2 DEF RoomLeft
  <2> QED
    BY <2>1, <2>6, <2>7, UnlockKeeps
<1>4. ASSUME NEW w \in Writer, LogFails(w) PROVE AcBounds'
  <2>1. Unlock(w) /\ log' = log /\ clock' = clock
    BY <1>4 DEF LogFails
  <2>2. AcTypes' /\ MutexHeld'
    BY <2>1, UnlockKeeps DEF AcTypes
  <2>3. \A t \in AuditTenant : tenantMu'[t] \subseteq tenantMu[t]
    BY <2>1 DEF Unlock, AcTypes
  <2>4. RoomLeft'
    BY <2>1, <2>3 DEF RoomLeft
  <2> QED
    BY <2>2, <2>4
<1>5. CASE AuditProcessDies
  <2>1. AcTypes'
    BY <1>5 DEF AuditProcessDies, AcTypes, WriterIdle
  <2>2. MutexHeld' /\ RoomLeft'
    BY <1>5 DEF AuditProcessDies, MutexHeld, WriterIdle, RoomLeft
  <2> QED
    BY <2>1, <2>2
<1>6. CASE UNCHANGED acVars
  BY <1>6 DEF acVars, AcTypes, MutexHeld, RoomLeft
<1> QED
  BY <1>1, <1>2, <1>3, <1>4, <1>5, <1>6 DEF AcNext

LEMMA AcTyped == AcBounds => AcTypeOK
BY DEF AcBounds, AcTypes, RoomLeft, AcTypeOK

-----------------------------------------------------------------------------
(***************************************************************************)
(* The status of a finding only moves along the table of transitions, for  *)
(* any number of concurrent calls.                                         *)
(***************************************************************************)

StatusField == [status : FindingStatus \cup {"none"}, assignee : User \cup {NoUser}, count : Nat]

\* A call that is about to write the status has read a status from which the
\* table allows the one it writes.  The WHERE of the UPDATE carries this over
\* to the row.
DecidedByTable ==
  /\ finding \in StatusField
  /\ \A c \in Call :
       call[c].pc = "cas" /\ call[c].field = "status" =>
         /\ call[c].from \in FindingStatus
         /\ CanTransition(call[c].from, call[c].to)
CallRows ==
  DOMAIN call = Call /\ \A c \in Call :
    /\ call[c] = [pc |-> call[c].pc, field |-> call[c].field,
                  from |-> call[c].from, to |-> call[c].to]
    /\ call[c].field \in {"status", "assignee"}
    /\ call[c].pc = "cas" /\ call[c].field = "assignee" => call[c].to \in User \cup {NoUser}

FwInv == CallRows /\ DecidedByTable

LEMMA TableIsClosed == \A s \in FindingStatus : AllowedTransitions[s] \subseteq FindingStatus
BY DEF AllowedTransitions, FindingStatus

LEMMA FwInitInv == FwInit => FwInv
BY DEF FwInit, FwInv, CallRows, DecidedByTable, FwIdle, Unseen, StatusField

\* A call changes only its place: it goes on, to anywhere but the UPDATE.
LEMMA CallMoves ==
  ASSUME FwInv, NEW c \in Call, NEW pc, pc # "cas",
         call' = [call EXCEPT ![c].pc = pc], finding' \in StatusField
  PROVE  FwInv'
<1>1. CallRows'
  BY DEF FwInv, CallRows
<1>2. DecidedByTable'
  BY DEF FwInv, CallRows, DecidedByTable
<1> QED
  BY <1>1, <1>2 DEF FwInv

LEMMA CallReads ==
  ASSUME FwInv, NEW c \in Call, NEW field \in {"status", "assignee"}, NEW to,
         field = "status" => to \in FindingStatus,
         field = "assignee" => to \in User \cup {NoUser},
         Read(c, field, to)
  PROVE  FwInv'
<1>1. /\ call' = [call EXCEPT ![c] = [pc |-> "cas", field |-> field,
                                      from |-> finding[field], to |-> to]]
      /\ finding' = finding
  BY DEF Read
<1>2. CallRows'
  BY <1>1 DEF FwInv, CallRows
<1>3. field = "status" => finding[field] \in FindingStatus /\ CanTransition(finding[field], to)
  BY DEF Read, Visible, FwInv, DecidedByTable, StatusField
<1>4. DecidedByTable'
  <2>1. finding' \in StatusField
    BY <1>1 DEF FwInv, DecidedByTable
  <2>2. ASSUME NEW d \in Call, call'[d].pc = "cas", call'[d].field = "status"
        PROVE  call'[d].from \in FindingStatus /\ CanTransition(call'[d].from, call'[d].to)
    <3>1. CASE d = c
      BY <3>1, <2>2, <1>1, <1>3 DEF FwInv, CallRows
    <3>2. CASE d # c
      BY <3>2, <2>2, <1>1 DEF FwInv, CallRows, DecidedByTable
    <3> QED
      BY <3>1, <3>2
  <2> QED
    BY <2>1, <2>2 DEF DecidedByTable
<1> QED
  BY <1>2, <1>4 DEF FwInv

\* The statement that changes the row: what was read and decided is true of
\* the row it changes.
LEMMA CallWrites ==
  ASSUME FwInv, NEW c \in Call, UpdateCAS(c)
  PROVE  /\ finding' \in StatusField
         /\ finding'.status # finding.status => CanTransition(finding.status, finding'.status)
<1>0. finding \in StatusField
  BY DEF FwInv, DecidedByTable
<1>1. CASE ~Matches(c)
  BY <1>0, <1>1 DEF UpdateCAS
<1>2. CASE Matches(c) /\ call[c].field = "status"
  <2>1. finding' = [finding EXCEPT !.status = call[c].to]
    BY <1>2 DEF UpdateCAS
  <2>2. finding.status = call[c].from /\ CanTransition(call[c].from, call[c].to)
    BY <1>2 DEF UpdateCAS, Matches, FwInv, DecidedByTable
  <2>3. call[c].to \in FindingStatus
    BY <2>2, <1>2, TableIsClosed DEF UpdateCAS, CanTransition, FwInv, DecidedByTable
  <2> QED
    BY <1>0, <2>1, <2>2, <2>3 DEF StatusField
<1>3. CASE Matches(c) /\ call[c].field = "assignee"
  <2>1. finding' = [finding EXCEPT !.assignee = call[c].to]
    BY <1>3 DEF UpdateCAS
  <2>2. call[c].to \in User \cup {NoUser}
    BY <1>3 DEF UpdateCAS, FwInv, CallRows
  <2> QED
    BY <1>0, <2>1, <2>2 DEF StatusField
<1> QED
  BY <1>1, <1>2, <1>3 DEF FwInv, CallRows

LEMMA UpsertKeeps ==
  ASSUME FwInv, Upsert
  PROVE  FwInv' /\ (Visible => finding'.status = finding.status)
<1>0. finding \in StatusField /\ call' = call
  BY DEF FwInv, DecidedByTable, Upsert
<1>1. finding' = [status |-> IF Visible THEN finding.status ELSE "open",
                  assignee |-> finding.assignee, count |-> finding.count + 1]
  BY <1>0 DEF Upsert, StatusField
<1>2. finding' \in StatusField
  BY <1>0, <1>1 DEF StatusField, FindingStatus
<1> QED
  BY <1>0, <1>1, <1>2 DEF FwInv, CallRows, DecidedByTable

\* Each step keeps the invariant and moves the status along the table, if at all.
AlongTable == Visible /\ finding'.status # finding.status
                => CanTransition(finding.status, finding'.status)

LEMMA FwStep == FwInv /\ [FwNext]_fwVars => FwInv' /\ AlongTable
<1> SUFFICES ASSUME FwInv, [FwNext]_fwVars PROVE FwInv' /\ AlongTable
  OBVIOUS
<1>0. finding \in StatusField
  BY DEF FwInv, DecidedByTable
<1>1. CASE Upsert
  BY <1>1, UpsertKeeps DEF AlongTable
<1>2. ASSUME NEW k \in EventKind, SightingEvent(k) PROVE FwInv' /\ AlongTable
  BY <1>2 DEF SightingEvent, FwInv, CallRows, DecidedByTable, AlongTable
<1>3. ASSUME NEW c \in Call, NEW to \in FindingStatus, Read(c, "status", to)
      PROVE  FwInv' /\ AlongTable
  <2>1. FwInv'
    BY <1>3, CallReads
  <2> QED
    BY <2>1, <1>3 DEF Read, AlongTable
<1>4. ASSUME NEW c \in Call, NEW to \in User \cup {NoUser}, Read(c, "assignee", to)
      PROVE  FwInv' /\ AlongTable
  <2>1. FwInv'
    BY <1>4, CallReads
  <2> QED
    BY <2>1, <1>4 DEF Read, AlongTable
<1>5. ASSUME NEW c \in Call, UpdateCAS(c) PROVE FwInv' /\ AlongTable
  <2>1. PICK pc \in {"event", "refused"} : call' = [call EXCEPT ![c].pc = pc]
    BY <1>5 DEF UpdateCAS
  <2>2. FwInv'
    BY <1>5, <2>1, CallWrites, CallMoves
  <2> QED
    BY <1>5, <2>2, CallWrites DEF AlongTable
<1>6. ASSUME NEW c \in Call, InsertEvent(c) \/ CallFails(c) PROVE FwInv' /\ AlongTable
  <2>1. PICK pc \in {"done", "lost", "refused"} : call' = [call EXCEPT ![c].pc = pc]
    BY <1>6 DEF InsertEvent, CallFails
  <2>2. finding' = finding
    BY <1>6 DEF InsertEvent, CallFails
  <2> QED
    BY <1>0, <2>1, <2>2, CallMoves DEF AlongTable
<1>7. CASE UNCHANGED fwVars
  BY <1>7 DEF fwVars, FwInv, CallRows, DecidedByTable, AlongTable
<1> QED
  BY <1>1, <1>2, <1>3, <1>4, <1>5, <1>6, <1>7 DEF FwNext

\* Concurrent calls, each between its read and its write, never take the
\* status where the table does not lead (finding/service.go, Transition).
THEOREM StatusFollowsTable == FwSpec => OnlyAllowedTransitions
<1>1. FwSpec => []FwInv
  BY FwInitInv, FwStep, PTL DEF FwSpec
<1>2. FwInv /\ [FwNext]_fwVars
        => [Visible /\ finding'.status # finding.status
              => CanTransition(finding.status, finding'.status)]_fwVars
  BY FwStep DEF AlongTable
<1> QED
  BY <1>1, <1>2, PTL DEF FwSpec, OnlyAllowedTransitions

(* ---- the timeline ---- *)
EventOf(c) == [call |-> c, field |-> call[c].field, from |-> call[c].from, to |-> call[c].to]
Changed == {c \in Call : call[c].pc \in {"event", "lost"}}

\* There are finitely many events, each of a call that is over; and the first
\* sighting comes before any call.
EventsOfCalls ==
  /\ IsFiniteSet(Moves)
  /\ \A e \in timeline : e.call \in Call /\ call[e.call].pc = "done"
  /\ ~Visible => /\ Moves = {} /\ finding.assignee = NoUser
                 /\ \A c \in Call : call[c].pc = "idle"

\* Every sighting is counted once, and none before the row is there.
SightingTypes ==
  /\ sighting \in [EventKind -> Nat] /\ sightings \in [EventKind -> Nat]
  /\ findingFaults \in Nat
  /\ ~Visible => sightings["created"] + sighting["created"] = 0

HistoryInv == FwInv /\ EventsOfCalls /\ Replays /\ SightingTypes /\ SightingsCounted

LEMMA MovesAre == Moves = timeline \cup {EventOf(c) : c \in Changed}
BY DEF Moves, EventOf, Changed

\* The events of M that lead to the value v of f, or away from it.
LeadTo(M, f, v) == Cardinality({m \in M : m.field = f /\ m.to = v})
LeadFrom(M, f, v) == Cardinality({m \in M : m.field = f /\ m.from = v})

\* One event more.
LEMMA OneMore ==
  ASSUME NEW M, IsFiniteSet(M), NEW e, e \notin M, NEW f, NEW v
  PROVE  /\ LeadTo(M, f, v) \in Nat /\ LeadFrom(M, f, v) \in Nat
         /\ LeadTo(M \cup {e}, f, v)
              = LeadTo(M, f, v) + (IF e.field = f /\ e.to = v THEN 1 ELSE 0)
         /\ LeadFrom(M \cup {e}, f, v)
              = LeadFrom(M, f, v) + (IF e.field = f /\ e.from = v THEN 1 ELSE 0)
<1> DEFINE A == {m \in M : m.field = f /\ m.to = v}
           B == {m \in M : m.field = f /\ m.from = v}
           A1 == {m \in M \cup {e} : m.field = f /\ m.to = v}
           B1 == {m \in M \cup {e} : m.field = f /\ m.from = v}
<1>1. A \in SUBSET M /\ B \in SUBSET M /\ e \notin A /\ e \notin B
  OBVIOUS
<1>2. /\ IF e.field = f /\ e.to = v THEN A1 = A \cup {e} ELSE A1 = A
      /\ IF e.field = f /\ e.from = v THEN B1 = B \cup {e} ELSE B1 = B
  OBVIOUS
<1> HIDE DEF A, B, A1, B1
<1>3. /\ IsFiniteSet(A) /\ IsFiniteSet(B)
      /\ Cardinality(A) \in Nat /\ Cardinality(B) \in Nat
  BY <1>1, FS_Subset, FS_CardinalityType
<1>4. /\ Cardinality(A \cup {e}) = Cardinality(A) + 1
      /\ Cardinality(B \cup {e}) = Cardinality(B) + 1
  BY <1>1, <1>3, FS_AddElement
<1>5. Cardinality(A1) = Cardinality(A) + (IF e.field = f /\ e.to = v THEN 1 ELSE 0)
  BY <1>2, <1>3, <1>4
<1>6. Cardinality(B1) = Cardinality(B) + (IF e.field = f /\ e.from = v THEN 1 ELSE 0)
  BY <1>2, <1>3, <1>4
<1> QED
  BY <1>3, <1>5, <1>6 DEF A, B, A1, B1, LeadTo, LeadFrom

LEMMA HistoryInit == FwInit => HistoryInv
<1> SUFFICES ASSUME FwInit PROVE HistoryInv
  OBVIOUS
<1>1. ~Visible /\ finding.assignee = NoUser /\ finding.count = 0 /\ timeline = {}
  BY DEF FwInit, Visible, Unseen
<1>2. \A c \in Call : call[c].pc = "idle"
  BY DEF FwInit, FwIdle
<1>3. Moves = {}
  BY <1>1, <1>2, MovesAre DEF Changed
<1>4. EventsOfCalls /\ Replays
  BY <1>1, <1>2, <1>3, FS_EmptySet DEF EventsOfCalls, Replays
<1>5. SightingTypes /\ SightingsCounted
  BY <1>1 DEF FwInit, SightingTypes, SightingsCounted, EventKind
<1> QED
  BY <1>4, <1>5, FwInitInv DEF HistoryInv

\* A step of call c that changes no row: no event is made and none is lost.
LEMMA NoMove ==
  ASSUME HistoryInv, FwInv', NEW c \in Call, NEW r,
         call' = [call EXCEPT ![c] = r], finding' = finding, SameSightings,
         findingFaults' \in Nat, findingFaults' >= findingFaults, Visible,
         \/ /\ timeline' = timeline
            /\ call[c].pc \notin {"event", "lost", "done"} /\ r.pc \notin {"event", "lost"}
         \/ /\ timeline' = timeline /\ call[c].pc = "event"
            /\ r = [call[c] EXCEPT !.pc = "lost"]
         \/ /\ timeline' = timeline \cup {EventOf(c)} /\ call[c].pc = "event"
            /\ r = [call[c] EXCEPT !.pc = "done"]
  PROVE  HistoryInv'
<1>0. call'[c] = r /\ (\A d \in Call \ {c} : call'[d] = call[d])
  BY DEF HistoryInv, FwInv, CallRows
<1>1. \A d \in Call \ {c} : EventOf(d)' = EventOf(d) /\ (d \in Changed' <=> d \in Changed)
  BY <1>0 DEF EventOf, Changed
<1>2. call[c] = [pc |-> call[c].pc, field |-> call[c].field,
                 from |-> call[c].from, to |-> call[c].to]
  BY DEF HistoryInv, FwInv, CallRows
<1>3. Moves' = timeline' \cup {EventOf(d)' : d \in Changed'}
  BY DEF Moves, EventOf, Changed
<1>4. Changed \subseteq Call /\ Changed' \subseteq Call
  BY DEF Changed
<1>5. Moves' = Moves /\ (\A e \in timeline' : e.call \in Call /\ call'[e.call].pc = "done")
  <2>1. CASE /\ timeline' = timeline
             /\ call[c].pc \notin {"event", "lost", "done"} /\ r.pc \notin {"event", "lost"}
    <3>1. c \notin Changed /\ c \notin Changed'
      BY <1>0, <2>1 DEF Changed
    <3>2. Moves' = Moves
      BY <1>1, <1>3, <1>4, <2>1, <3>1, MovesAre
    <3> QED
      BY <1>0, <2>1, <3>2 DEF HistoryInv, EventsOfCalls
  <2>2. CASE /\ timeline' = timeline /\ call[c].pc = "event"
             /\ r = [call[c] EXCEPT !.pc = "lost"]
    <3>1. c \in Changed /\ c \in Changed' /\ EventOf(c)' = EventOf(c)
      BY <1>0, <1>2, <2>2 DEF Changed, EventOf
    <3>2. Moves' = Moves
      BY <1>1, <1>3, <1>4, <2>2, <3>1, MovesAre
    <3> QED
      BY <1>0, <2>2, <3>2 DEF HistoryInv, EventsOfCalls
  <2>3. CASE /\ timeline' = timeline \cup {EventOf(c)} /\ call[c].pc = "event"
             /\ r = [call[c] EXCEPT !.pc = "done"]
    <3>1. c \in Changed /\ c \notin Changed' /\ r.pc = "done" /\ EventOf(c).call = c
      BY <1>0, <1>2, <2>3 DEF Changed, EventOf
    <3>2. Moves' = Moves
      BY <1>1, <1>3, <1>4, <2>3, <3>1, MovesAre
    <3> QED
      BY <1>0, <2>3, <3>1, <3>2 DEF HistoryInv, EventsOfCalls
  <2> QED
    BY <2>1, <2>2, <2>3
<1>6. EventsOfCalls'
  BY <1>5 DEF HistoryInv, EventsOfCalls, Visible
<1>7. Replays'
  BY <1>5 DEF HistoryInv, Replays, Into, OutOf, Visible
<1>8. SightingTypes'
  BY DEF HistoryInv, SightingTypes, SameSightings, Visible
<1>9. SightingsCounted'
  <2>1. finding.count \in Nat
    BY DEF HistoryInv, FwInv, DecidedByTable, StatusField
  <2>2. /\ sightings["created"] \in Nat /\ sighting["created"] \in Nat /\ findingFaults \in Nat
        /\ sightings["occurrence"] \in Nat /\ sighting["occurrence"] \in Nat
    BY DEF HistoryInv, SightingTypes, EventKind
  <2> QED
    BY <2>1, <2>2 DEF HistoryInv, SightingsCounted, SameSightings
<1> QED
  BY <1>6, <1>7, <1>8, <1>9 DEF HistoryInv

\* The UPDATE that changes the row adds one event, from the old to the new value.
LEMMA OneMove ==
  ASSUME HistoryInv, FwInv', NEW c \in Call, UpdateCAS(c), Matches(c)
  PROVE  HistoryInv'
<1>0. /\ call' = [call EXCEPT ![c].pc = "event"] /\ call[c].pc = "cas" /\ Visible
      /\ finding' = [finding EXCEPT ![call[c].field] = call[c].to]
      /\ finding[call[c].field] = call[c].from
      /\ SameSightings /\ timeline' = timeline /\ findingFaults' = findingFaults
  BY DEF UpdateCAS, Matches
<1>1. /\ call[c] = [pc |-> call[c].pc, field |-> call[c].field,
                    from |-> call[c].from, to |-> call[c].to]
      /\ call[c].field \in {"status", "assignee"} /\ finding \in StatusField
      /\ DOMAIN call = Call
  BY DEF HistoryInv, FwInv, CallRows, DecidedByTable
<1>2. /\ call'[c] = [call[c] EXCEPT !.pc = "event"]
      /\ \A d \in Call \ {c} : call'[d] = call[d]
  BY <1>0, <1>1
<1>3. /\ \A d \in Call \ {c} : EventOf(d)' = EventOf(d) /\ (d \in Changed' <=> d \in Changed)
      /\ EventOf(c)' = EventOf(c) /\ c \in Changed' /\ c \notin Changed
  BY <1>0, <1>1, <1>2 DEF EventOf, Changed
<1>4. Moves' = timeline' \cup {EventOf(d)' : d \in Changed'}
  BY DEF Moves, EventOf, Changed
<1>5. Changed \subseteq Call /\ Changed' \subseteq Call
  BY DEF Changed
<1>6. Moves' = Moves \cup {EventOf(c)}
  BY <1>0, <1>3, <1>4, <1>5, MovesAre
<1>7. EventOf(c) \notin Moves
  <2>1. EventOf(c).call = c /\ \A d : EventOf(d).call = d
    BY DEF EventOf
  <2>2. EventOf(c) \notin timeline
    BY <1>0, <2>1 DEF HistoryInv, EventsOfCalls
  <2> QED
    BY <1>3, <2>1, <2>2, MovesAre
<1>8. finding'.status # "none"
  BY <1>0, CallWrites, TableIsClosed
     DEF HistoryInv, FwInv, DecidedByTable, StatusField, CanTransition, Visible, FindingStatus
<1>9. EventsOfCalls'
  <2>1. IsFiniteSet(Moves')
    BY <1>6, FS_AddElement DEF HistoryInv, EventsOfCalls
  <2>2. \A e \in timeline : e.call \in Call /\ call'[e.call].pc = "done"
    BY <1>0, <1>2 DEF HistoryInv, EventsOfCalls
  <2> QED
    BY <1>0, <1>8, <2>1, <2>2 DEF EventsOfCalls, Visible
<1>10. Replays'
  <2> SUFFICES ASSUME NEW f \in {"status", "assignee"},
                      NEW v \in FindingStatus \cup User \cup {NoUser}
               PROVE  Into(f, v)' + End(v, First[f]) = OutOf(f, v)' + End(v, finding'[f])
    BY DEF Replays, End, First
  <2>1. Into(f, v) + End(v, First[f]) = OutOf(f, v) + End(v, finding[f])
    BY <1>0 DEF HistoryInv, Replays
  <2> DEFINE e == EventOf(c)
  <2>2. /\ Into(f, v) \in Nat /\ OutOf(f, v) \in Nat
        /\ Into(f, v)' = Into(f, v) + (IF e.field = f /\ e.to = v THEN 1 ELSE 0)
        /\ OutOf(f, v)' = OutOf(f, v) + (IF e.field = f /\ e.from = v THEN 1 ELSE 0)
    <3>1. IsFiniteSet(Moves) /\ Moves' = Moves \cup {e} /\ e \notin Moves
      BY <1>6, <1>7 DEF HistoryInv, EventsOfCalls
    <3>2. /\ Into(f, v)' = LeadTo(Moves', f, v) /\ Into(f, v) = LeadTo(Moves, f, v)
          /\ OutOf(f, v)' = LeadFrom(Moves', f, v) /\ OutOf(f, v) = LeadFrom(Moves, f, v)
      BY Zenon DEF Into, OutOf, LeadTo, LeadFrom
    <3> HIDE DEF e
    <3> QED
      BY <3>1, <3>2, OneMore
  <2>3. e.field = call[c].field /\ e.to = call[c].to /\ e.from = call[c].from
    BY DEF EventOf
  <2>4. /\ call[c].field = f => finding'[f] = call[c].to /\ finding[f] = call[c].from
        /\ call[c].field # f => finding'[f] = finding[f]
    BY <1>0, <1>1 DEF StatusField
  <2> HIDE DEF e
  <2>5. End(v, First[f]) \in Nat
    BY DEF End
  <2> QED
    BY <2>1, <2>2, <2>3, <2>4, <2>5 DEF End
<1>11. SightingTypes'
  BY <1>0, <1>8 DEF HistoryInv, SightingTypes, SameSightings, Visible
<1>12. SightingsCounted'
  <2>1. finding'.count = finding.count
    BY <1>0, <1>1 DEF StatusField
  <2> QED
    BY <1>0, <2>1 DEF HistoryInv, SightingsCounted, SameSightings
<1> QED
  BY <1>9, <1>10, <1>11, <1>12 DEF HistoryInv

LEMMA SightingKeeps ==
  ASSUME HistoryInv, FwInv', Upsert \/ \E k \in EventKind : SightingEvent(k)
  PROVE  HistoryInv'
<1>0. /\ finding \in StatusField /\ finding.count \in Nat
      /\ sighting \in [EventKind -> Nat] /\ sightings \in [EventKind -> Nat]
      /\ findingFaults \in Nat
      /\ sightings["created"] \in Nat /\ sighting["created"] \in Nat
      /\ sightings["occurrence"] \in Nat /\ sighting["occurrence"] \in Nat
      /\ "created" \in EventKind /\ "occurrence" \in EventKind
  BY DEF HistoryInv, FwInv, DecidedByTable, StatusField, SightingTypes, EventKind
<1>1. UNCHANGED <<call, timeline>>
  BY DEF Upsert, SightingEvent
<1>2. Moves' = Moves
  BY <1>1 DEF Moves
<1>3. CASE Upsert
  <2>1. /\ finding'.status = IF Visible THEN finding.status ELSE "open"
        /\ finding'.assignee = finding.assignee /\ finding'.count = finding.count + 1
        /\ UNCHANGED <<sightings, findingFaults>>
    BY <1>0, <1>3 DEF Upsert, StatusField
  <2>2. Visible'
    BY <2>1 DEF Visible
  <2>3. EventsOfCalls'
    BY <1>1, <1>2, <2>2 DEF HistoryInv, EventsOfCalls
  <2>4. Replays'
    <3>1. CASE Visible
      <4>1. \A f \in {"status", "assignee"} : finding'[f] = finding[f]
        BY <2>1, <3>1
      <4>2. \A f, v : Into(f, v)' = Into(f, v) /\ OutOf(f, v)' = OutOf(f, v)
        BY <1>2 DEF Into, OutOf
      <4> QED
        BY <3>1, <4>1, <4>2 DEF HistoryInv, Replays
    <3>2. CASE ~Visible
      <4>1. Moves = {} /\ finding'.status = "open" /\ finding'.assignee = NoUser
        BY <2>1, <3>2 DEF HistoryInv, EventsOfCalls
      <4>2. \A f, v : Into(f, v)' = 0 /\ OutOf(f, v)' = 0
        BY <1>2, <4>1, FS_EmptySet DEF Into, OutOf
      <4> QED
        BY <4>1, <4>2 DEF Replays, First
    <3> QED
      BY <3>1, <3>2
  <2>5. SightingTypes' /\ SightingsCounted'
    <3>1. CASE Visible
      <4>1. sighting' = [sighting EXCEPT !["occurrence"] = sighting["occurrence"] + 1]
        BY <1>3, <3>1 DEF Upsert
      <4>2. /\ sighting' \in [EventKind -> Nat]
            /\ sighting'["occurrence"] = sighting["occurrence"] + 1
            /\ sighting'["created"] = sighting["created"]
        BY <1>0, <4>1
      <4> QED
        BY <1>0, <2>1, <2>2, <4>2 DEF HistoryInv, SightingTypes, SightingsCounted
    <3>2. CASE ~Visible
      <4>1. sighting' = [sighting EXCEPT !["created"] = sighting["created"] + 1]
        BY <1>3, <3>2 DEF Upsert
      <4>2. /\ sighting' \in [EventKind -> Nat]
            /\ sighting'["occurrence"] = sighting["occurrence"]
            /\ sighting'["created"] = sighting["created"] + 1
        BY <1>0, <4>1
      <4>3. sightings["created"] + sighting["created"] = 0
        BY <3>2 DEF HistoryInv, SightingTypes
      <4> QED
        BY <1>0, <2>1, <2>2, <4>2, <4>3 DEF HistoryInv, SightingTypes, SightingsCounted
    <3> QED
      BY <3>1, <3>2
  <2> QED
    BY <2>3, <2>4, <2>5 DEF HistoryInv
<1>4. ASSUME NEW k \in EventKind, SightingEvent(k) PROVE HistoryInv'
  <2>1. finding' = finding /\ sighting[k] > 0 /\ sighting[k] \in Nat /\ sightings[k] \in Nat
        /\ sighting' = [sighting EXCEPT ![k] = sighting[k] - 1]
    BY <1>0, <1>4 DEF SightingEvent
  <2>2. EventsOfCalls' /\ Replays'
    BY <1>1, <1>2, <2>1 DEF HistoryInv, EventsOfCalls, Replays, Into, OutOf, Visible
  <2>3. /\ sighting' \in [EventKind -> Nat] /\ sighting'[k] = sighting[k] - 1
        /\ \A j \in EventKind \ {k} : sighting'[j] = sighting[j]
    BY <1>0, <2>1
  <2>4. \/ /\ sightings' = [sightings EXCEPT ![k] = sightings[k] + 1]
           /\ findingFaults' = findingFaults
        \/ sightings' = sightings /\ findingFaults' = findingFaults + 1
    BY <1>4 DEF SightingEvent, FwFault
  <2>5. /\ sightings' \in [EventKind -> Nat] /\ findingFaults' \in Nat
        /\ \A j \in EventKind \ {k} : sightings'[j] = sightings[j]
        /\ \/ sightings'[k] = sightings[k] + 1 /\ findingFaults' = findingFaults
           \/ sightings'[k] = sightings[k] /\ findingFaults' = findingFaults + 1
    BY <1>0, <2>1, <2>4
  <2>6. k = "created" \/ k = "occurrence"
    BY DEF EventKind
  <2>7. SightingTypes'
    BY <1>0, <2>1, <2>3, <2>5, <2>6 DEF HistoryInv, SightingTypes, Visible
  <2>8. SightingsCounted'
    BY <1>0, <2>1, <2>3, <2>5, <2>6 DEF HistoryInv, SightingsCounted
  <2> QED
    BY <2>2, <2>7, <2>8 DEF HistoryInv
<1> QED
  BY <1>3, <1>4

LEMMA HistoryStep == HistoryInv /\ [FwNext]_fwVars => HistoryInv'
<1> SUFFICES ASSUME HistoryInv, [FwNext]_fwVars PROVE HistoryInv'
  OBVIOUS
<1>0. FwInv' /\ findingFaults \in Nat /\ DOMAIN call = Call
  BY FwStep DEF HistoryInv, SightingTypes, FwInv, CallRows
<1>1. CASE Upsert \/ \E k \in EventKind : SightingEvent(k)
  BY <1>0, <1>1, SightingKeeps
<1>2. ASSUME NEW c \in Call, NEW field, NEW to, Read(c, field, to) PROVE HistoryInv'
  <2> DEFINE r == [pc |-> "cas", field |-> field, from |-> finding[field], to |-> to]
  <2>1. /\ call' = [call EXCEPT ![c] = r] /\ call[c].pc = "idle" /\ Visible /\ SameSightings
        /\ UNCHANGED <<finding, timeline, findingFaults>>
    BY <1>2 DEF Read
  <2>2. r.pc = "cas"
    OBVIOUS
  <2>3. findingFaults' \in Nat /\ findingFaults' >= findingFaults
    BY <1>0, <2>1
  <2>4. /\ timeline' = timeline
        /\ call[c].pc \notin {"event", "lost", "done"} /\ r.pc \notin {"event", "lost"}
    BY <2>1, <2>2
  <2> HIDE DEF r
  <2> QED
    BY <1>0, <2>1, <2>3, <2>4, NoMove
<1>3. ASSUME NEW c \in Call, UpdateCAS(c) PROVE HistoryInv'
  <2>1. CASE Matches(c)
    BY <1>0, <1>3, <2>1, OneMove
  <2>2. CASE ~Matches(c)
    <3> DEFINE r == [call[c] EXCEPT !.pc = "refused"]
    <3>1. /\ call' = [call EXCEPT ![c] = r] /\ call[c].pc = "cas" /\ SameSightings
          /\ UNCHANGED <<finding, timeline, findingFaults>>
      BY <1>3, <2>2 DEF UpdateCAS
    <3>2. r.pc = "refused" /\ Visible
      BY <3>1 DEF HistoryInv, FwInv, CallRows, EventsOfCalls
    <3>3. findingFaults' \in Nat /\ findingFaults' >= findingFaults
      BY <1>0, <3>1
    <3>4. /\ timeline' = timeline
          /\ call[c].pc \notin {"event", "lost", "done"} /\ r.pc \notin {"event", "lost"}
      BY <3>1, <3>2
    <3> HIDE DEF r
    <3> QED
      BY <1>0, <3>1, <3>2, <3>3, <3>4, NoMove
  <2> QED
    BY <2>1, <2>2
<1>4. ASSUME NEW c \in Call, InsertEvent(c) PROVE HistoryInv'
  <2>1. /\ call' = [call EXCEPT ![c] = [call[c] EXCEPT !.pc = "done"]] /\ call[c].pc = "event"
        /\ SameSightings /\ UNCHANGED <<finding, findingFaults>>
        /\ timeline' = timeline \cup {EventOf(c)}
    BY <1>4 DEF InsertEvent, EventOf, FromRead
  <2>2. Visible
    BY <2>1 DEF HistoryInv, EventsOfCalls
  <2>3. findingFaults' \in Nat /\ findingFaults' >= findingFaults
    BY <1>0, <2>1
  <2> QED
    BY <1>0, <2>1, <2>2, <2>3, NoMove
<1>5. ASSUME NEW c \in Call, CallFails(c) PROVE HistoryInv'
  <2>1. /\ call[c].pc \in {"cas", "event"} /\ SameSightings /\ UNCHANGED <<finding, timeline>>
        /\ findingFaults' = findingFaults + 1
        /\ call' = [call EXCEPT ![c] = [call[c] EXCEPT !.pc =
                      IF call[c].pc = "event" THEN "lost" ELSE "refused"]]
    BY <1>5 DEF CallFails, FwFault
  <2>2. Visible
    BY <2>1 DEF HistoryInv, EventsOfCalls
  <2>5. findingFaults' \in Nat /\ findingFaults' >= findingFaults
    BY <1>0, <2>1
  <2>3. CASE call[c].pc = "event"
    <3>1. call' = [call EXCEPT ![c] = [call[c] EXCEPT !.pc = "lost"]]
      BY <2>1, <2>3
    <3> QED
      BY <1>0, <2>1, <2>2, <2>3, <2>5, <3>1, NoMove
  <2>4. CASE call[c].pc = "cas"
    <3> DEFINE r == [call[c] EXCEPT !.pc = "refused"]
    <3>1. call' = [call EXCEPT ![c] = r]
      BY <2>1, <2>4
    <3>2. r.pc = "refused"
      BY DEF HistoryInv, FwInv, CallRows
    <3>3. /\ timeline' = timeline
          /\ call[c].pc \notin {"event", "lost", "done"} /\ r.pc \notin {"event", "lost"}
      BY <2>1, <2>4, <3>2
    <3> HIDE DEF r
    <3> QED
      BY <1>0, <2>1, <2>2, <2>5, <3>1, <3>3, NoMove
  <2> QED
    BY <2>1, <2>3, <2>4
<1>6. CASE UNCHANGED fwVars
  <2>1. Moves' = Moves /\ Visible' = Visible
    BY <1>6 DEF fwVars, Moves, Visible
  <2> QED
    BY <1>0, <1>6, <2>1 DEF fwVars, HistoryInv, EventsOfCalls, Replays, Into, OutOf, SightingTypes,
                            SightingsCounted
<1> QED
  BY <1>1, <1>2, <1>3, <1>4, <1>5, <1>6 DEF FwNext

\* The events lead from the first value of a field to the present one, one
\* for each time the row was changed, however calls interleave
\* (finding/service.go, Transition and Assign; UpsertFromResult).
THEOREM HistoryReplays == FwSpec => []TimelineReplays
<1>1. HistoryInv => TimelineReplays
  BY DEF HistoryInv, TimelineReplays
<1> QED
  BY <1>1, HistoryInit, HistoryStep, PTL DEF FwSpec

(* ---- the types ---- *)
FwBounds ==
  /\ finding.count <= MaxSightings
  /\ \A c \in Call : call[c].pc \in CallPC

LEMMA FwBoundsStep == HistoryInv /\ FwBounds /\ [FwNext]_fwVars => FwBounds'
<1> SUFFICES ASSUME HistoryInv, FwBounds, [FwNext]_fwVars PROVE FwBounds'
  OBVIOUS
<1>0. finding \in StatusField /\ DOMAIN call = Call /\ MaxSightings \in Nat
  BY FindingAssumption DEF HistoryInv, FwInv, CallRows, DecidedByTable
<1>1. CASE Upsert
  <2>1. finding'.count = finding.count + 1 /\ finding.count < MaxSightings /\ call' = call
    BY <1>0, <1>1 DEF Upsert, StatusField
  <2> QED
    BY <1>0, <2>1 DEF FwBounds, StatusField
<1>2. ASSUME NEW k \in EventKind, SightingEvent(k) PROVE FwBounds'
  BY <1>2 DEF SightingEvent, FwBounds
<1>3. ASSUME NEW c \in Call, NEW field, NEW to, Read(c, field, to) PROVE FwBounds'
  BY <1>0, <1>3 DEF Read, FwBounds, CallPC
<1>4. ASSUME NEW c \in Call, UpdateCAS(c) PROVE FwBounds'
  <2>1. finding'.count = finding.count
    BY <1>0, <1>4, <1>0 DEF UpdateCAS, Matches, StatusField, HistoryInv, FwInv, CallRows
  <2>2. \A d \in Call : call'[d].pc \in CallPC
    BY <1>0, <1>4 DEF UpdateCAS, FwBounds, CallPC, HistoryInv, FwInv, CallRows
  <2> QED
    BY <2>1, <2>2 DEF FwBounds
<1>5. ASSUME NEW c \in Call, InsertEvent(c) \/ CallFails(c) PROVE FwBounds'
  <2>1. PICK pc \in CallPC : call' = [call EXCEPT ![c].pc = pc]
    BY <1>5 DEF InsertEvent, CallFails, CallPC
  <2>2. finding' = finding
    BY <1>5 DEF InsertEvent, CallFails
  <2> QED
    BY <1>0, <2>1, <2>2 DEF FwBounds, HistoryInv, FwInv, CallRows
<1>6. CASE UNCHANGED fwVars
  BY <1>6 DEF fwVars, FwBounds
<1> QED
  BY <1>1, <1>2, <1>3, <1>4, <1>5, <1>6 DEF FwNext

LEMMA FwTyped == HistoryInv /\ FwBounds => FwTypeOK
BY FindingAssumption
   DEF HistoryInv, FwInv, DecidedByTable, StatusField, EventsOfCalls, SightingTypes, FwBounds,
       FwTypeOK

-----------------------------------------------------------------------------
(***************************************************************************)
(* A revoked login stays out, and a threshold that is reached locks, for   *)
(* any number of concurrent logins and password changes.                   *)
(***************************************************************************)

UserRow == [pwd : Nat, tv : Nat, status : {"active", "disabled"}]

\* What the proofs need of the types.
IdTypes ==
  /\ user \in UserRow
  /\ login \in [Login -> [pc : LoginPC, tv : Nat]]
  /\ fails \in [Key -> Nat]
  /\ lock \in [Key -> {"none", "set", "expired"}]
  /\ identityFaults \in Nat
  /\ void \subseteq Login

\* No login has seen a later version than the present one; one whose token is
\* void has read an earlier one, and does not read the row again.
VersionsBehind ==
  /\ \A c \in Login : login[c].tv <= user.tv
  /\ \A c \in void : login[c].pc \notin {"start", "verify"} /\ login[c].tv < user.tv

IdInv == IdTypes /\ VersionsBehind /\ ThresholdLocks

LEMMA IdInitInv == IdInit => IdInv
BY IdentityAssumption
   DEF IdInit, IdInv, IdTypes, UserRow, VersionsBehind, ThresholdLocks, LoginPC, Key

LEMMA LockingPCs ==
  /\ LockingPC("account") = {"countAccount", "lockAccount"}
  /\ LockingPC("ip") = {"countIP", "lockIP"}
BY DEF LockingPC

\* A step of a login that leaves the counters and locks alone.
LEMMA LoginMoves ==
  ASSUME IdInv, NEW c \in Login, NEW r \in [pc : LoginPC, tv : Nat],
         \A k \in Key : login[c].pc \notin LockingPC(k),
         login' = [login EXCEPT ![c] = r], r.tv <= user.tv,
         r.pc \notin {"start", "verify"} \/ login[c].pc \in {"start", "verify"},
         login[c].pc \in {"start", "verify"} \/ r.tv = login[c].tv,
         identityFaults' \in Nat, identityFaults' = 0 => identityFaults = 0,
         UNCHANGED <<user, fails, lock, void>>
  PROVE  IdInv'
<1>1. IdTypes'
  BY DEF IdInv, IdTypes
<1>2. VersionsBehind'
  BY DEF IdInv, IdTypes, UserRow, VersionsBehind
<1>3. ThresholdLocks'
  BY DEF IdInv, IdTypes, ThresholdLocks, Key
<1> QED
  BY <1>1, <1>2, <1>3 DEF IdInv

\* The counting and the locking of a failed login.
LEMMA LoginRecords ==
  ASSUME IdInv, NEW c \in Login, RecordFailure(c)
  PROVE  IdInv'
<1>1. ASSUME NEW k \in Key, NEW from \in LoginPC, NEW after \in LoginPC,
             AddFailure(c, k, from, after), after \in LockingPC(k),
             from \notin {"start", "verify"}, \A j \in Key : from \notin LockingPC(j),
             after \notin {"start", "verify"}
      PROVE  IdInv'
  <2> USE <1>1 DEF AddFailure, Step, SameUser, Calm
  <2>1. IdTypes'
    BY DEF IdInv, IdTypes
  <2>2. VersionsBehind'
    BY DEF IdInv, IdTypes, UserRow, VersionsBehind
  <2>3. ASSUME NEW j \in Key, fails'[j] >= LockThreshold[j], identityFaults' = 0
        PROVE  lock'[j] # "none" \/ \E d \in Login : login'[d].pc \in LockingPC(j)
    <3>1. CASE j = k
      BY <3>1 DEF IdInv, IdTypes
    <3>2. CASE j # k
      <4>1. fails'[j] = fails[j] /\ lock'[j] = lock[j]
        BY <3>2 DEF IdInv, IdTypes
      <4>2. lock[j] # "none" \/ \E d \in Login : login[d].pc \in LockingPC(j)
        BY <2>3, <4>1 DEF IdInv, ThresholdLocks
      <4>3. \A d \in Login : login[d].pc \in LockingPC(j) => login'[d] = login[d]
        BY DEF IdInv, IdTypes
      <4> QED
        BY <4>1, <4>2, <4>3
    <3> QED
      BY <3>1, <3>2
  <2> QED
    BY <2>1, <2>2, <2>3 DEF IdInv, ThresholdLocks
<1>2. ASSUME NEW k \in Key, NEW from \in LoginPC, NEW after \in LoginPC,
             Step(c, from, after), from \in LockingPC(k),
             \A j \in Key : j # k => from \notin LockingPC(j),
             from \notin {"start", "verify"}, after \notin {"start", "verify"},
             UNCHANGED <<user, fails, void, identityFaults>>,
             lock' \in [Key -> {"none", "set", "expired"}],
             \A j \in Key : lock[j] # "none" => lock'[j] # "none",
             \/ lock'[k] # "none" \/ ~(fails[k] >= LockThreshold[k])
             \/ after \in LockingPC(k)
      PROVE  IdInv'
  <2> USE <1>2 DEF Step
  <2>1. IdTypes'
    BY DEF IdInv, IdTypes
  <2>2. VersionsBehind'
    BY DEF IdInv, IdTypes, UserRow, VersionsBehind
  <2>3. ASSUME NEW j \in Key, fails'[j] >= LockThreshold[j], identityFaults' = 0
        PROVE  lock'[j] # "none" \/ \E d \in Login : login'[d].pc \in LockingPC(j)
    <3>1. CASE j = k
      BY <2>3, <3>1 DEF IdInv, IdTypes
    <3>2. CASE j # k
      <4>1. lock[j] # "none" \/ \E d \in Login : login[d].pc \in LockingPC(j)
        BY <2>3 DEF IdInv, ThresholdLocks
      <4>2. \A d \in Login : login[d].pc \in LockingPC(j) => login'[d] = login[d]
        BY <3>2 DEF IdInv, IdTypes
      <4> QED
        BY <4>1, <4>2
    <3> QED
      BY <3>1, <3>2
  <2> QED
    BY <2>1, <2>2, <2>3 DEF IdInv, ThresholdLocks
<1>3. /\ "account" \in Key /\ "ip" \in Key /\ Key = {"account", "ip"}
      /\ lock \in [Key -> {"none", "set", "expired"}]
  BY DEF Key, IdInv, IdTypes
<1>4. {"failAccount", "countAccount", "lockAccount", "failIP", "countIP", "lockIP", "refused"}
        \subseteq LoginPC
  BY DEF LoginPC
<1>5. CASE AddFailure(c, "account", "failAccount", "countAccount")
  BY <1>1, <1>3, <1>4, <1>5, LockingPCs
<1>6. CASE AddFailure(c, "ip", "failIP", "countIP")
  BY <1>1, <1>3, <1>4, <1>6, LockingPCs
<1>7. CASE CountFailures(c, "account", "countAccount", "lockAccount", "failIP")
  <2>1. PICK after \in {"lockAccount", "failIP"} :
          Step(c, "countAccount", after) /\ (Reached("account") => after = "lockAccount")
    BY <1>7 DEF CountFailures
  <2>2. UNCHANGED <<user, fails, lock, void, identityFaults>>
    BY <1>7 DEF CountFailures, SameUser, SameLocks, Calm
  <2> QED
    BY <1>2, <1>3, <1>4, <2>1, <2>2, LockingPCs DEF Reached
<1>8. CASE CountFailures(c, "ip", "countIP", "lockIP", "refused")
  <2>1. PICK after \in {"lockIP", "refused"} :
          Step(c, "countIP", after) /\ (Reached("ip") => after = "lockIP")
    BY <1>8 DEF CountFailures
  <2>2. UNCHANGED <<user, fails, lock, void, identityFaults>>
    BY <1>8 DEF CountFailures, SameUser, SameLocks, Calm
  <2> QED
    BY <1>2, <1>3, <1>4, <2>1, <2>2, LockingPCs DEF Reached
<1>9. CASE SetLock(c, "account", "lockAccount", "failIP")
  <2>1. /\ Step(c, "lockAccount", "failIP") /\ lock' = [lock EXCEPT !["account"] = "set"]
        /\ UNCHANGED <<user, fails, void, identityFaults>>
    BY <1>9 DEF SetLock, SameUser, Calm
  <2> QED
    BY <1>2, <1>3, <1>4, <2>1, LockingPCs
<1>10. CASE SetLock(c, "ip", "lockIP", "refused")
  <2>1. /\ Step(c, "lockIP", "refused") /\ lock' = [lock EXCEPT !["ip"] = "set"]
        /\ UNCHANGED <<user, fails, void, identityFaults>>
    BY <1>10 DEF SetLock, SameUser, Calm
  <2> QED
    BY <1>2, <1>3, <1>4, <2>1, LockingPCs
<1> QED
  BY <1>5, <1>6, <1>7, <1>8, <1>9, <1>10 DEF RecordFailure

\* A lock is checked: whatever Redis answers, the login goes on or is refused.
LEMMA CheckKeeps ==
  ASSUME IdInv, NEW c \in Login, NEW k \in Key, NEW from \in LoginPC, NEW after \in LoginPC,
         IfNotLocked(c, k, from, after), \A j \in Key : from \notin LockingPC(j),
         after \notin {"start", "verify"} \/ from \in {"start", "verify"}
  PROVE  IdInv'
<1>0. /\ login[c] \in [pc : LoginPC, tv : Nat] /\ user.tv \in Nat
      /\ login[c].tv <= user.tv /\ identityFaults \in Nat
  BY DEF IdInv, IdTypes, UserRow, VersionsBehind
<1>1. PICK to \in {"refused", after} : Step(c, from, to)
  BY DEF IfNotLocked
<1> DEFINE r == [login[c] EXCEPT !.pc = to]
<1>2. to \in LoginPC
  BY DEF LoginPC
<1>3. r \in [pc : LoginPC, tv : Nat] /\ r.tv = login[c].tv /\ r.pc = to
  BY <1>0, <1>2
<1>4. login' = [login EXCEPT ![c] = r] /\ login[c].pc = from
  BY <1>1 DEF Step
<1>5. /\ UNCHANGED <<user, fails, lock, void>>
      /\ identityFaults' \in Nat /\ (identityFaults' = 0 => identityFaults = 0)
  BY <1>0 DEF IfNotLocked, IdFault, SameUser, SameLocks
<1> HIDE DEF r
<1>6. r.pc \notin {"start", "verify"} \/ login[c].pc \in {"start", "verify"}
  BY <1>1, <1>3, <1>4
<1> QED
  BY <1>0, <1>3, <1>4, <1>5, <1>6, LoginMoves

\* The user's row changes: its version never goes back, and when it is a
\* revocation it goes on and every login that has read the row becomes void.
LEMMA RowMoves ==
  ASSUME IdInv, user' \in UserRow, UNCHANGED <<login, fails, lock, identityFaults>>,
         \/ user'.tv = user.tv /\ void' = void
         \/ user'.tv = user.tv + 1 /\ Revoke
  PROVE  IdInv'
<1>1. IdTypes'
  BY DEF IdInv, IdTypes, Revoke, HaveRead
<1>2. VersionsBehind'
  BY DEF IdInv, IdTypes, UserRow, VersionsBehind, Revoke, HaveRead
<1>3. ThresholdLocks'
  BY DEF IdInv, ThresholdLocks
<1> QED
  BY <1>1, <1>2, <1>3 DEF IdInv

\* Only the counters, the locks or the number of faults change, and they leave
\* no threshold reached that was not.
LEMMA Fades ==
  ASSUME IdInv, UNCHANGED <<user, login, void>>,
         fails' \in [Key -> Nat], lock' \in [Key -> {"none", "set", "expired"}],
         identityFaults' \in Nat, identityFaults' = 0 => identityFaults = 0,
         \A k \in Key : fails'[k] = fails[k] \/ fails'[k] = 0,
         \A k \in Key : lock[k] # "none" => lock'[k] # "none"
  PROVE  IdInv'
<1>1. IdTypes'
  BY DEF IdInv, IdTypes
<1>2. VersionsBehind'
  BY DEF IdInv, VersionsBehind
<1>3. ThresholdLocks'
  BY IdentityAssumption DEF IdInv, IdTypes, ThresholdLocks, Key
<1> QED
  BY <1>1, <1>2, <1>3 DEF IdInv

LEMMA LoginKeeps ==
  ASSUME IdInv, NEW c \in Login,
         \/ CheckIP(c) \/ \E pwd \in 0..MaxPwd : Verify(c, pwd)
         \/ RecordFailure(c) \/ RecordLost(c) \/ CheckAccount(c) \/ ResetFailures(c)
         \/ Issue(c) \/ LoginFails(c)
  PROVE  IdInv'
<1> USE DEF SameUser, SameLocks, Calm
<1>0. /\ login[c] \in [pc : LoginPC, tv : Nat] /\ user.tv \in Nat
      /\ login[c].tv <= user.tv /\ identityFaults \in Nat
  BY DEF IdInv, IdTypes, UserRow, VersionsBehind
<1>k. /\ "account" \in Key /\ "ip" \in Key
      /\ \A k \in Key : LockingPC(k) \subseteq {"countAccount", "lockAccount", "countIP", "lockIP"}
  BY LockingPCs DEF Key
<1>1. CASE CheckIP(c)
  <2>1. "start" \in LoginPC /\ "verify" \in LoginPC
    BY DEF LoginPC
  <2> QED
    BY <1>1, <1>k, <2>1, CheckKeeps DEF CheckIP
<1>2. CASE \E pwd \in 0..MaxPwd : Verify(c, pwd)
  <2>1. PICK pwd \in 0..MaxPwd : Verify(c, pwd)
    BY <1>2
  <2> DEFINE r == [pc |-> IF pwd = user.pwd /\ user.status = "active" THEN "ok" ELSE "failAccount",
                   tv |-> user.tv]
  <2>2. r \in [pc : LoginPC, tv : Nat] /\ r.tv = user.tv
    BY <1>0 DEF LoginPC
  <2>3. login' = [login EXCEPT ![c] = r] /\ login[c].pc = "verify"
    BY <2>1 DEF Verify
  <2>4. identityFaults' = identityFaults /\ UNCHANGED <<user, fails, lock, void>>
    BY <2>1 DEF Verify
  <2> HIDE DEF r
  <2>5. (\A k \in Key : login[c].pc \notin LockingPC(k)) /\ r.tv <= user.tv
    BY <1>0, <1>k, <2>2, <2>3
  <2> QED
    BY <1>0, <2>2, <2>3, <2>4, <2>5, LoginMoves
<1>3. CASE RecordFailure(c)
  BY <1>3, LoginRecords
<1>4. CASE RecordLost(c)
  <2>1. IdFault /\ UNCHANGED <<user, fails, lock, void>>
    BY <1>4 DEF RecordLost
  <2>2. PICK to \in {"failIP", "refused"} :
          /\ Step(c, login[c].pc, to)
          /\ login[c].pc \notin {"start", "verify"}
    BY <1>4 DEF RecordLost
  <2>3. IdTypes'
    BY <2>1, <2>2 DEF IdInv, IdTypes, IdFault, Step, LoginPC
  <2>4. VersionsBehind'
    BY <2>1, <2>2 DEF IdInv, IdTypes, UserRow, VersionsBehind, Step
  <2>5. ThresholdLocks'
    BY <1>0, <2>1 DEF IdFault, ThresholdLocks
  <2> QED
    BY <2>3, <2>4, <2>5 DEF IdInv
<1>5. CASE CheckAccount(c)
  <2>1. "ok" \in LoginPC /\ "reset" \in LoginPC
    BY DEF LoginPC
  <2> QED
    BY <1>5, <1>k, <2>1, CheckKeeps DEF CheckAccount
<1>8. CASE ResetFailures(c)
  <2>1. /\ Step(c, "reset", "issue") /\ UNCHANGED <<user, lock, void>>
        /\ \/ fails' = [k \in Key |-> 0] /\ identityFaults' = identityFaults
           \/ IdFault
        /\ fails' = fails \/ fails' = [k \in Key |-> 0]
    BY <1>8 DEF ResetFailures
  <2>2. IdTypes'
    BY <1>0, <2>1 DEF IdInv, IdTypes, IdFault, Step, LoginPC
  <2>3. VersionsBehind'
    BY <2>1 DEF IdInv, IdTypes, UserRow, VersionsBehind, Step
  <2>4. ThresholdLocks'
    <3>1. CASE fails' = [k \in Key |-> 0]
      BY <3>1, IdentityAssumption DEF ThresholdLocks, Key
    <3>2. CASE IdFault
      BY <1>0, <3>2 DEF IdFault, ThresholdLocks
    <3> QED
      BY <2>1, <3>1, <3>2
  <2> QED
    BY <2>2, <2>3, <2>4 DEF IdInv
<1>6. CASE Issue(c)
  <2> DEFINE r == [pc |-> "token", tv |-> login[c].tv]
  <2>1. /\ login' = [login EXCEPT ![c] = r] /\ login[c].pc = "issue"
        /\ UNCHANGED <<user, fails, lock, void, identityFaults>>
    BY <1>6 DEF Issue, TokenVersionRead
  <2>2. r \in [pc : LoginPC, tv : Nat] /\ r.tv = login[c].tv /\ r.pc = "token"
    BY <1>0 DEF LoginPC
  <2> HIDE DEF r
  <2> QED
    BY <1>0, <1>k, <2>1, <2>2, LoginMoves
<1>7. CASE LoginFails(c)
  <2>1. IdFault /\ UNCHANGED <<user, fails, lock, void>>
    BY <1>7 DEF LoginFails
  <2>2. PICK from : Step(c, from, "refused")
    BY <1>7 DEF LoginFails
  <2>3. IdTypes'
    BY <2>1, <2>2 DEF IdInv, IdTypes, IdFault, Step, LoginPC
  <2>4. VersionsBehind'
    BY <2>1, <2>2 DEF IdInv, IdTypes, UserRow, VersionsBehind, Step
  <2>5. ThresholdLocks'
    BY <1>0, <2>1 DEF IdFault, ThresholdLocks
  <2> QED
    BY <2>3, <2>4, <2>5 DEF IdInv
<1> QED
  BY <1>1, <1>2, <1>3, <1>4, <1>5, <1>6, <1>7, <1>8

LEMMA UserKeeps ==
  ASSUME IdInv,
         \/ \E k \in Changer : ReadForChange(k) \/ ChangePassword(k)
         \/ ForceLogout \/ ResetPassword \/ DisableUser \/ DisableRevokes \/ EnableUser
  PROVE  IdInv'
<1> USE DEF SameLogins
<1>0. user \in UserRow
  BY DEF IdInv, IdTypes
<1>1. ASSUME NEW k \in Changer, ReadForChange(k) PROVE IdInv'
  BY <1>0, <1>1, RowMoves DEF ReadForChange, UserRow
<1>2. ASSUME NEW k \in Changer, ChangePassword(k) PROVE IdInv'
  <2>1. user' = [user EXCEPT !.pwd = user.pwd + 1, !.tv = user.tv + 1]
    BY <1>2 DEF ChangePassword
  <2>2. user' = [pwd |-> user.pwd + 1, tv |-> user.tv + 1, status |-> user.status]
    BY <1>0, <2>1 DEF UserRow
  <2>3. user' \in UserRow /\ user'.tv = user.tv + 1
    BY <1>0, <2>2 DEF UserRow
  <2> QED
    BY <2>3, <1>2, RowMoves DEF ChangePassword
<1>3. CASE ForceLogout
  <2>1. user' \in UserRow /\ user'.tv = user.tv + 1
    BY <1>0, <1>3 DEF ForceLogout, UserRow
  <2> QED
    BY <2>1, <1>3, RowMoves DEF ForceLogout
<1>4. CASE ResetPassword
  <2>1. user' = [user EXCEPT !.pwd = user.pwd + 1, !.tv = user.tv + 1]
    BY <1>4 DEF ResetPassword
  <2>2. user' = [pwd |-> user.pwd + 1, tv |-> user.tv + 1, status |-> user.status]
    BY <1>0, <2>1 DEF UserRow
  <2>3. user' \in UserRow /\ user'.tv = user.tv + 1
    BY <1>0, <2>2 DEF UserRow
  <2> QED
    BY <2>3, <1>4, RowMoves DEF ResetPassword
<1>5. CASE DisableUser
  <2>1. user' \in UserRow /\ user'.tv = user.tv
    BY <1>0, <1>5 DEF DisableUser, UserRow
  <2> QED
    BY <2>1, <1>5, RowMoves DEF DisableUser
<1>6. CASE DisableRevokes
  <2>1. user' \in UserRow /\ user'.tv = user.tv + 1
    BY <1>0, <1>6 DEF DisableRevokes, UserRow
  <2> QED
    BY <2>1, <1>6, RowMoves DEF DisableRevokes
<1>7. CASE EnableUser
  <2>1. user' \in UserRow /\ user'.tv = user.tv
    BY <1>0, <1>7 DEF EnableUser, UserRow
  <2> QED
    BY <2>1, <1>7, RowMoves DEF EnableUser
<1> QED
  BY <1>1, <1>2, <1>3, <1>4, <1>5, <1>6, <1>7

LEMMA IdStep == IdInv /\ [IdNext]_idVars => IdInv'
<1> SUFFICES ASSUME IdInv, [IdNext]_idVars PROVE IdInv'
  OBVIOUS
<1>1. ASSUME NEW k \in Key, LockExpires(k) PROVE IdInv'
  BY <1>1, Fades DEF LockExpires, SameUser, Calm, IdInv, IdTypes
<1>2. ASSUME NEW k \in Key, WindowPasses(k) PROVE IdInv'
  BY <1>2, Fades DEF WindowPasses, SameUser, Calm, IdInv, IdTypes
<1>3. CASE DisableHalfDone
  BY <1>3, Fades DEF DisableHalfDone, IdFault, IdInv, IdTypes
<1>4. CASE UNCHANGED idVars
  BY <1>4, Fades DEF idVars, IdInv, IdTypes
<1> QED
  BY <1>1, <1>2, <1>3, <1>4, LoginKeeps, UserKeeps DEF IdNext

LEMMA IdInvariant == IdSpec => []IdInv
<1> QED
  BY IdInitInv, IdStep, PTL DEF IdSpec

\* No token gets in that is issued to a login which had read the row before
\* the password was changed or reset, or before the sessions were revoked
\* (identity/auth/service.go, Login and authenticateJWT).
THEOREM RevokedNeverAuthenticates == IdSpec => []RevokedStaysOut
<1>1. IdInv => RevokedStaysOut
  BY DEF IdInv, IdTypes, UserRow, VersionsBehind, RevokedStaysOut, Authenticates
<1> QED
  BY <1>1, IdInvariant, PTL

\* Concurrent failures that reach a threshold lock, unless Redis failed
\* (identity/policy/lockout.go, recordOne).
THEOREM ReachedThresholdLocks == IdSpec => []ThresholdLocks
<1>1. IdInv => ThresholdLocks
  BY DEF IdInv
<1> QED
  BY <1>1, IdInvariant, PTL

(* ---- the bounds of the counters ---- *)

\* The logins that have counted their failure for key k, or lost it.
CountedPC(k) ==
  IF k = "account" THEN {"countAccount", "lockAccount", "failIP", "countIP", "lockIP", "refused"}
  ELSE {"countIP", "lockIP", "refused"}
Counted(k) == {c \in Login : login[c].pc \in CountedPC(k)}

\* Each login fails once for each key.
FailuresCounted ==
  /\ \A k \in Key : fails[k] <= Cardinality(Counted(k))
  /\ user.pwd \in 1..MaxPwd

LEMMA CountedFinite ==
  \A k \in Key : IsFiniteSet(Counted(k)) /\ Cardinality(Counted(k)) \in 0..Cardinality(Login)
<1> SUFFICES ASSUME NEW k \in Key
             PROVE  IsFiniteSet(Counted(k)) /\ Cardinality(Counted(k)) \in 0..Cardinality(Login)
  OBVIOUS
<1>1. Counted(k) \subseteq Login /\ IsFiniteSet(Login)
  BY IdentityAssumption DEF Counted
<1> QED
  BY <1>1, FS_Subset, FS_CardinalityType

\* No login goes back: who has counted has counted.
LEMMA CountKept ==
  ASSUME FailuresCounted, \A k \in Key : Counted(k) \subseteq Counted(k)',
         \A k \in Key : fails'[k] \in Nat /\ (fails'[k] = 0 \/ fails'[k] = fails[k]),
         IdTypes, user'.pwd \in 1..MaxPwd
  PROVE  FailuresCounted'
<1> SUFFICES ASSUME NEW k \in Key PROVE fails'[k] <= Cardinality(Counted(k)')
  BY DEF FailuresCounted
<1>1. IsFiniteSet(Counted(k)')
  <2>1. Counted(k)' \subseteq Login /\ IsFiniteSet(Login)
    BY IdentityAssumption DEF Counted
  <2> QED
    BY <2>1, FS_Subset
<1>2. Cardinality(Counted(k)') \in Nat /\ Cardinality(Counted(k)) \in Nat
  BY <1>1, CountedFinite, FS_CardinalityType
<1>3. Cardinality(Counted(k)) <= Cardinality(Counted(k)')
  BY <1>1, FS_Subset
<1>4. fails[k] \in Nat /\ fails[k] <= Cardinality(Counted(k))
  BY DEF IdTypes, FailuresCounted
<1> QED
  BY <1>2, <1>3, <1>4

\* A login that moves stays counted.
LEMMA OnMoving ==
  ASSUME IdTypes, NEW c \in Login, NEW r, login' = [login EXCEPT ![c] = r],
         \A k \in Key : login[c].pc \in CountedPC(k) => r.pc \in CountedPC(k)
  PROVE  \A k \in Key : Counted(k) \subseteq Counted(k)'
BY DEF IdTypes, Counted

LEMMA FailureCounts ==
  ASSUME IdTypes, FailuresCounted, NEW c \in Login, NEW k \in Key, NEW from, NEW to,
         Step(c, from, to), from \notin CountedPC(k), to \in CountedPC(k),
         \A j \in Key : from \in CountedPC(j) => to \in CountedPC(j),
         fails' = [fails EXCEPT ![k] = fails[k] + 1], user' = user
  PROVE  FailuresCounted'
<1>1. /\ login[c].pc = from /\ login'[c].pc = to
      /\ \A d \in Login : d # c => login'[d] = login[d]
  BY DEF Step, IdTypes
<1>2. /\ c \notin Counted(k) /\ Counted(k)' = Counted(k) \cup {c}
      /\ \A j \in Key : Counted(j) \subseteq Counted(j)'
  BY <1>1 DEF Counted
<1>3. \A j \in Key : IsFiniteSet(Counted(j)')
  <2>1. IsFiniteSet(Login) /\ \A j \in Key : Counted(j)' \subseteq Login
    BY IdentityAssumption DEF Counted
  <2> QED
    BY <2>1, FS_Subset
<1>4. Cardinality(Counted(k)') = Cardinality(Counted(k)) + 1
  BY <1>2, CountedFinite, FS_AddElement
<1>5. ASSUME NEW j \in Key PROVE fails'[j] <= Cardinality(Counted(j)')
  <2>1. fails[j] \in Nat /\ fails[j] <= Cardinality(Counted(j)) /\ Cardinality(Counted(j)) \in Nat
    BY CountedFinite DEF IdTypes, FailuresCounted
  <2>2. CASE j = k
    BY <1>4, <2>1, <2>2 DEF IdTypes
  <2>3. CASE j # k
    <3>1. Cardinality(Counted(j)) <= Cardinality(Counted(j)') /\ Cardinality(Counted(j)') \in Nat
      BY <1>2, <1>3, FS_Subset, FS_CardinalityType
    <3>2. fails'[j] = fails[j]
      BY <2>3 DEF IdTypes
    <3> QED
      BY <2>1, <3>1, <3>2
  <2> QED
    BY <2>2, <2>3
<1> QED
  BY <1>5 DEF FailuresCounted

LEMMA RecordCounts ==
  ASSUME IdTypes, IdTypes', FailuresCounted, NEW c \in Login, RecordFailure(c)
  PROVE  FailuresCounted'
<1>1. CASE AddFailure(c, "account", "failAccount", "countAccount")
  <2>1. fails' = [fails EXCEPT !["account"] = fails["account"] + 1] /\ user' = user
    BY <1>1 DEF AddFailure, SameUser
  <2> QED
    BY <1>1, <2>1, FailureCounts DEF AddFailure, CountedPC, Key
<1>2. CASE AddFailure(c, "ip", "failIP", "countIP")
  <2>1. fails' = [fails EXCEPT !["ip"] = fails["ip"] + 1] /\ user' = user
    BY <1>2 DEF AddFailure, SameUser
  <2> QED
    BY <1>2, <2>1, FailureCounts DEF AddFailure, CountedPC, Key
<1>3. CASE \/ SetLock(c, "account", "lockAccount", "failIP") \/ SetLock(c, "ip", "lockIP", "refused")
           \/ CountFailures(c, "account", "countAccount", "lockAccount", "failIP")
           \/ CountFailures(c, "ip", "countIP", "lockIP", "refused")
  <2>1. fails' = fails /\ user' = user
    BY <1>3 DEF SetLock, CountFailures, SameUser, SameLocks
  <2>2. \A k \in Key : Counted(k) \subseteq Counted(k)'
    BY <1>3 DEF SetLock, CountFailures, Step, IdTypes, Counted, CountedPC
  <2> QED
    BY <2>1, <2>2, CountKept DEF IdTypes, FailuresCounted
<1> QED
  BY <1>1, <1>2, <1>3 DEF RecordFailure

LEMMA CountsStep == IdTypes /\ IdTypes' /\ FailuresCounted /\ [IdNext]_idVars => FailuresCounted'
<1> SUFFICES ASSUME IdTypes, IdTypes', FailuresCounted, [IdNext]_idVars PROVE FailuresCounted'
  OBVIOUS
<1>0. \A k \in Key : fails[k] \in Nat /\ fails'[k] \in Nat
  BY DEF IdTypes
<1>1. ASSUME NEW c \in Login,
             \/ CheckIP(c) \/ (\E pwd \in 0..MaxPwd : Verify(c, pwd)) \/ RecordLost(c)
             \/ CheckAccount(c) \/ ResetFailures(c) \/ Issue(c) \/ LoginFails(c)
      PROVE  FailuresCounted'
  <2>1. user' = user
    BY <1>1 DEF CheckIP, Verify, RecordLost, CheckAccount, IfNotLocked, ResetFailures, Issue,
                LoginFails, SameUser
  <2>2. \A k \in Key : fails'[k] = 0 \/ fails'[k] = fails[k]
    BY <1>1 DEF CheckIP, Verify, RecordLost, CheckAccount, IfNotLocked, ResetFailures, Issue,
                LoginFails, SameLocks
  <2>3. \A k \in Key : Counted(k) \subseteq Counted(k)'
    BY <1>1 DEF CheckIP, Verify, RecordLost, CheckAccount, IfNotLocked, ResetFailures, Issue,
                LoginFails, Step, IdTypes, Counted, CountedPC
  <2> QED
    BY <1>0, <2>1, <2>2, <2>3, CountKept DEF FailuresCounted
<1>2. ASSUME UNCHANGED login, user'.pwd \in 1..MaxPwd,
             \A k \in Key : fails'[k] = 0 \/ fails'[k] = fails[k]
      PROVE  FailuresCounted'
  BY <1>0, <1>2, CountKept DEF Counted
<1>3. ASSUME NEW k \in Key, LockExpires(k) \/ WindowPasses(k) PROVE FailuresCounted'
  BY <1>2, <1>3 DEF LockExpires, WindowPasses, SameUser, IdTypes, FailuresCounted
<1>4. user.pwd \in 1..MaxPwd /\ MaxPwd \in Nat
  BY IdentityAssumption DEF FailuresCounted
<1>5. ASSUME user' = [user EXCEPT !.pwd = user.pwd + 1, !.tv = user.tv + 1], user.pwd < MaxPwd
      PROVE  user'.pwd \in 1..MaxPwd
  <2>1. user' = [pwd |-> user.pwd + 1, tv |-> user.tv + 1, status |-> user.status]
    BY <1>5 DEF IdTypes, UserRow
  <2> QED
    BY <1>4, <1>5, <2>1
<1>6. ASSUME NEW k \in Changer, ReadForChange(k) \/ ChangePassword(k) PROVE FailuresCounted'
  <2>1. login' = login /\ fails' = fails
    BY <1>6 DEF ReadForChange, ChangePassword, SameLogins
  <2>2. user'.pwd \in 1..MaxPwd
    BY <1>4, <1>5, <1>6 DEF ReadForChange, ChangePassword
  <2> QED
    BY <1>2, <2>1, <2>2
<1>7. CASE ForceLogout \/ ResetPassword \/ DisableUser \/ DisableRevokes \/ EnableUser
  <2>1. login' = login /\ fails' = fails
    BY <1>7 DEF ForceLogout, ResetPassword, DisableUser, DisableRevokes, EnableUser, SameLogins
  <2>2. CASE ResetPassword
    BY <1>2, <1>5, <2>1, <2>2 DEF ResetPassword
  <2>3. CASE ForceLogout \/ DisableUser \/ DisableRevokes \/ EnableUser
    <3>1. user'.pwd = user.pwd
      BY <2>3 DEF ForceLogout, DisableUser, DisableRevokes, EnableUser, IdTypes, UserRow
    <3> QED
      BY <1>2, <1>4, <2>1, <3>1
  <2> QED
    BY <1>7, <2>2, <2>3
<1>8. CASE DisableHalfDone \/ UNCHANGED idVars
  BY <1>2, <1>4, <1>8 DEF DisableHalfDone, idVars
<1> QED
  BY <1>1, <1>3, <1>6, <1>7, <1>8, RecordCounts DEF IdNext

-----------------------------------------------------------------------------
(***************************************************************************)
(* Rules that were overtaken are not matched for longer than the TTL and   *)
(* the time of a load, for any number of goroutines and changes.           *)
(***************************************************************************)
Load == [pc : {"idle", "listed"}, rules : Nat, since : Nat]

McTypes ==
  /\ dbRules \in 1..MaxRules /\ changing \in Nat /\ now \in Nat
  /\ replacedAt \in [1..MaxRules -> Nat]
  /\ entry \in [cached : BOOLEAN, rules : Nat, loadedAt : Nat, raced : BOOLEAN]
  /\ loading \in [Matcher -> Load]

\* Whoever read rows that are no longer the latest did so before they were
\* overtaken, and has not had the rows for longer than a load takes.
LoadsInTime ==
  \A m \in Matcher : loading[m].pc = "listed" =>
    /\ now - loading[m].since \in 0..LoadTime
    /\ loading[m].rules \in 0..dbRules
    /\ loading[m].rules \in 1..(dbRules - 1) => loading[m].since <= replacedAt[loading[m].rules]

\* So an entry is stored at most that much after its rows were overtaken.
StoredInTime ==
  entry.cached =>
    /\ entry.loadedAt <= now /\ entry.rules \in 0..dbRules
    /\ entry.rules \in 1..(dbRules - 1) => entry.loadedAt <= replacedAt[entry.rules] + LoadTime

\* An entry that differs from the table was raced, or its Invalidate is due.
DropIsDue == entry.cached /\ ~entry.raced /\ entry.rules # dbRules => changing > 0

McInv == McTypes /\ LoadsInTime /\ StoredInTime /\ DropIsDue

LEMMA McInitInv == McInit => McInv
BY MatcherAssumption
   DEF McInit, McInv, McTypes, LoadsInTime, StoredInTime, DropIsDue, NoEntry, NotLoading, Load,
       Builtin

LEMMA RulesRange ==
  McInv => /\ dbRules \in Nat /\ 1 <= dbRules /\ dbRules <= MaxRules /\ MaxRules \in Nat
           /\ \A v \in 1..(dbRules - 1) : v \in 1..MaxRules /\ replacedAt[v] \in Nat
<1> SUFFICES ASSUME McInv
             PROVE  /\ dbRules \in Nat /\ 1 <= dbRules /\ dbRules <= MaxRules /\ MaxRules \in Nat
                    /\ \A v \in 1..(dbRules - 1) : v \in 1..MaxRules /\ replacedAt[v] \in Nat
  OBVIOUS
<1>1. dbRules \in Nat /\ 1 <= dbRules /\ dbRules <= MaxRules /\ MaxRules \in Nat
  BY MatcherAssumption DEF McInv, McTypes
<1>2. \A v \in 1..(dbRules - 1) : v \in 1..MaxRules
  BY <1>1
<1> QED
  BY <1>1, <1>2 DEF McInv, McTypes

LEMMA ListKeeps ==
  ASSUME McInv, NEW m \in Matcher, ListEnabled(m)
  PROVE  McInv'
<1>1. PICK r \in {dbRules, Builtin} :
        loading' = [loading EXCEPT ![m] = [pc |-> "listed", rules |-> r, since |-> now]]
  BY DEF ListEnabled
<1>2. r \in Nat /\ r \in 0..dbRules /\ r \notin 1..(dbRules - 1)
  BY <1>1 DEF McInv, McTypes, Builtin
<1>3. UNCHANGED <<dbRules, replacedAt, entry, changing, now>>
  BY DEF ListEnabled
<1>4. McTypes'
  BY <1>1, <1>2, <1>3 DEF McInv, McTypes, Load
<1>5. LoadsInTime'
  BY <1>1, <1>2, <1>3, MatcherAssumption DEF McInv, McTypes, LoadsInTime
<1> QED
  BY <1>3, <1>4, <1>5 DEF McInv, StoredInTime, DropIsDue

LEMMA StoreKeeps ==
  ASSUME McInv, NEW m \in Matcher, Store(m)
  PROVE  McInv'
<1> USE DEF McInv, McTypes, Store
<1>1. loading[m] \in Load /\ loading[m].rules \in Nat
  BY DEF Load
<1>2. McTypes'
  BY <1>1 DEF Load, NotLoading, Builtin
<1>3. LoadsInTime'
  BY DEF LoadsInTime, NotLoading
<1>4. ASSUME loading[m].rules \in 1..(dbRules - 1)
      PROVE  now <= replacedAt[loading[m].rules] + LoadTime
  <2>1. /\ now - loading[m].since \in 0..LoadTime
        /\ loading[m].since <= replacedAt[loading[m].rules]
    BY <1>4 DEF LoadsInTime
  <2>2. replacedAt[loading[m].rules] \in Nat /\ loading[m].since \in Nat /\ now \in Nat
    BY <1>4, RulesRange DEF Load
  <2> HIDE DEF Store, McInv, McTypes
  <2> QED
    BY <2>1, <2>2, MatcherAssumption
<1>5. StoredInTime'
  BY <1>4 DEF StoredInTime, LoadsInTime
<1>6. DropIsDue'
  BY DEF DropIsDue
<1> QED
  BY <1>2, <1>3, <1>5, <1>6

LEMMA WriteKeeps ==
  ASSUME McInv, NEW answered \in BOOLEAN, WriteRules(answered)
  PROVE  McInv'
<1> USE DEF McInv, McTypes, WriteRules
<1>0. /\ dbRules \in 1..MaxRules /\ dbRules \in Nat /\ dbRules' = dbRules + 1
      /\ dbRules' \in 1..MaxRules
      /\ \A v \in 1..MaxRules : replacedAt'[v] = IF v = dbRules THEN now ELSE replacedAt[v]
  BY MatcherAssumption
<1>1. McTypes'
  <2>1. replacedAt' \in [1..MaxRules -> Nat] /\ changing' \in Nat
    OBVIOUS
  <2>2. entry' \in [cached : BOOLEAN, rules : Nat, loadedAt : Nat, raced : BOOLEAN]
    BY Zenon
  <2> QED
    BY <1>0, <2>1, <2>2
<1>2. LoadsInTime'
  <2> SUFFICES ASSUME NEW m \in Matcher, loading[m].pc = "listed"
               PROVE  /\ now - loading[m].since \in 0..LoadTime
                      /\ loading[m].rules \in 0..dbRules'
                      /\ loading[m].rules \in 1..(dbRules' - 1) =>
                           loading[m].since <= replacedAt'[loading[m].rules]
    BY DEF LoadsInTime
  <2>1. /\ now - loading[m].since \in 0..LoadTime
        /\ loading[m].rules \in 0..dbRules
        /\ loading[m].rules \in 1..(dbRules - 1) => loading[m].since <= replacedAt[loading[m].rules]
    BY DEF LoadsInTime
  <2>2. loading[m].since \in Nat /\ now \in Nat /\ loading[m].rules \in Nat
    BY DEF Load
  <2>3. \A v \in 1..(dbRules' - 1) : v = dbRules \/ v \in 1..(dbRules - 1)
    BY <1>0
  <2>4. \A v \in 1..(dbRules' - 1) : replacedAt'[v] = IF v = dbRules THEN now ELSE replacedAt[v]
    BY <1>0
  <2>5. loading[m].since <= now
    BY <2>1, <2>2, MatcherAssumption
  <2> HIDE DEF WriteRules, McInv, McTypes
  <2> QED
    BY <1>0, <2>1, <2>2, <2>3, <2>4, <2>5
<1>3. StoredInTime'
  <2> SUFFICES ASSUME entry.cached
               PROVE  /\ entry.loadedAt <= now /\ entry.rules \in 0..dbRules'
                      /\ entry.rules \in 1..(dbRules' - 1) =>
                           entry.loadedAt <= replacedAt'[entry.rules] + LoadTime
    BY DEF StoredInTime
  <2>1. /\ entry.loadedAt <= now /\ entry.rules \in 0..dbRules
        /\ entry.rules \in 1..(dbRules - 1) => entry.loadedAt <= replacedAt[entry.rules] + LoadTime
    BY DEF StoredInTime
  <2>2. entry.loadedAt \in Nat /\ now \in Nat
    OBVIOUS
  <2> QED
    BY <1>0, <2>1, <2>2, MatcherAssumption
<1>4. DropIsDue'
  BY DEF DropIsDue
<1> QED
  BY <1>1, <1>2, <1>3, <1>4

LEMMA InvalidateKeeps == McInv /\ Invalidate => McInv'
BY MatcherAssumption
   DEF Invalidate, DropEntry, NoEntry, Builtin, McInv, McTypes, LoadsInTime, StoredInTime, DropIsDue

LEMMA PassesKeeps == McInv /\ Passes => McInv'
<1> SUFFICES ASSUME McInv, Passes PROVE McInv'
  OBVIOUS
<1>1. McTypes'
  BY DEF McInv, McTypes, Passes
<1>2. LoadsInTime'
  <2> SUFFICES ASSUME NEW m \in Matcher, loading[m].pc = "listed"
               PROVE  /\ (now + 1) - loading[m].since \in 0..LoadTime
                      /\ loading[m].rules \in 0..dbRules
                      /\ loading[m].rules \in 1..(dbRules - 1) =>
                           loading[m].since <= replacedAt[loading[m].rules]
    BY DEF LoadsInTime, Passes
  <2>1. now - loading[m].since \in 0..LoadTime /\ now - loading[m].since < LoadTime
    BY DEF Passes, McInv, LoadsInTime
  <2>2. now \in Nat /\ loading[m].since \in Nat
    BY DEF McInv, McTypes, Load
  <2>3. (now + 1) - loading[m].since \in 0..LoadTime
    BY <2>1, <2>2, MatcherAssumption
  <2> QED
    BY <2>3 DEF McInv, LoadsInTime
<1>3. StoredInTime' /\ DropIsDue'
  BY DEF McInv, McTypes, StoredInTime, DropIsDue, Passes
<1> QED
  BY <1>1, <1>2, <1>3 DEF McInv

LEMMA McStep == McInv /\ [McNext]_mcVars => McInv'
<1>1. McInv /\ UNCHANGED mcVars => McInv'
  BY DEF mcVars, McInv, McTypes, LoadsInTime, StoredInTime, DropIsDue
<1> QED
  BY <1>1, ListKeeps, StoreKeeps, WriteKeeps, InvalidateKeeps, PassesKeeps DEF McNext

LEMMA McBound == McInv => StalenessBounded
<1> SUFFICES ASSUME McInv, Hit PROVE OutdatedAtMostTTL /\ InvalidatedUnlessRaced
  BY DEF StalenessBounded, OutdatedAtMostTTL, InvalidatedUnlessRaced
<1>1. ASSUME entry.rules \in 1..(dbRules - 1)
      PROVE  now < replacedAt[entry.rules] + LoadTime + TTL
  <2>1. entry.loadedAt <= replacedAt[entry.rules] + LoadTime
    BY <1>1 DEF Hit, McInv, StoredInTime
  <2>2. now - entry.loadedAt < TTL
    BY DEF Hit, FreshFor
  <2>3. replacedAt[entry.rules] \in Nat /\ entry.loadedAt \in Nat /\ now \in Nat
    BY <1>1, RulesRange DEF McInv, McTypes
  <2> QED
    BY <2>1, <2>2, <2>3, MatcherAssumption
<1>2. ~entry.raced /\ changing = 0 => entry.rules = dbRules
  BY DEF Hit, McInv, DropIsDue
<1> QED
  BY <1>1, <1>2 DEF OutdatedAtMostTTL, InvalidatedUnlessRaced

\* A change of the rules takes effect at once, but for a load under way or a
\* lost answer, and in any case when the entry expires
\* (fingerprint/tenant_matcher.go).
THEOREM StaleRulesExpire == McSpec => []StalenessBounded
<1> QED
  BY McInitInv, McStep, McBound, PTL DEF McSpec

(* ---- the types ---- *)
\* Every handler that is about to invalidate has made a change of its own.
McBounds ==
  /\ changing < dbRules /\ now <= MaxTime
  /\ \A m \in Matcher : loading[m].since <= now
  /\ entry.rules <= dbRules /\ entry.loadedAt <= now

LEMMA McBoundsStep == McInv /\ McBounds /\ [McNext]_mcVars => McBounds'
<1> SUFFICES ASSUME McInv, McBounds, [McNext]_mcVars PROVE McBounds'
  OBVIOUS
<1> USE MatcherAssumption
<1>0. McTypes
  BY DEF McInv
<1>1. ASSUME NEW m \in Matcher, ListEnabled(m) PROVE McBounds'
  BY <1>0, <1>1 DEF ListEnabled, McTypes, McBounds, Load
<1>2. ASSUME NEW m \in Matcher, Store(m) PROVE McBounds'
  <2>1. loading[m].rules \in 0..dbRules
    BY <1>2 DEF Store, McInv, LoadsInTime
  <2>2. /\ entry'.rules = loading[m].rules /\ entry'.loadedAt = now
        /\ UNCHANGED <<dbRules, changing, now>>
    BY <1>2 DEF Store
  <2>3. \A n \in Matcher : loading'[n].since <= now
    BY <1>0, <1>2 DEF Store, McTypes, McBounds, Load, NotLoading
  <2> QED
    BY <1>0, <2>1, <2>2, <2>3 DEF McTypes, McBounds
<1>3. ASSUME NEW answered \in BOOLEAN, WriteRules(answered) PROVE McBounds'
  <2>1. dbRules' = dbRules + 1 /\ changing' \in {changing, changing + 1} /\ now' = now
        /\ loading' = loading
    BY <1>3 DEF WriteRules
  <2>2. entry'.rules = entry.rules /\ entry'.loadedAt = entry.loadedAt
    BY <1>0, <1>3 DEF WriteRules, McTypes
  <2> QED
    BY <1>0, <2>1, <2>2 DEF McTypes, McBounds
<1>4. CASE Invalidate
  BY <1>0, <1>4 DEF Invalidate, DropEntry, NoEntry, Builtin, McTypes, McBounds
<1>5. CASE Passes
  BY <1>0, <1>5 DEF Passes, McTypes, McBounds, Load
<1>6. CASE UNCHANGED mcVars
  BY <1>6 DEF mcVars, McBounds
<1> QED
  BY <1>1, <1>2, <1>3, <1>4, <1>5, <1>6 DEF McNext

LEMMA McTyped == McInv /\ McBounds => McTypeOK
BY MatcherAssumption DEF McInv, McTypes, McBounds, McTypeOK, Load

-----------------------------------------------------------------------------
(***************************************************************************)
(* Every active template has its entry, and every mark of a continuous     *)
(* task its one clone, for any number of templates, tasks and sweepers.    *)
(***************************************************************************)
CronTypes ==
  /\ template \in [Template -> {"absent", "active", "canceled", "deleted"}]
  /\ entries \subseteq Template /\ adding \subseteq Template /\ removing \subseteq Template
  /\ instanceFaults \in Nat

\* A template whose entry is about to go is not active, and never will be
\* again; and nobody changes entries after the process that held them.
RemovalsFinal ==
  /\ \A c \in removing : template[c] \in {"canceled", "deleted"}
  /\ ~up => adding = {} /\ removing = {}

CronInv == CronTypes /\ RemovalsFinal /\ TemplateRegistered

ContTypes ==
  /\ next \in [Continuous -> {"none", "waiting", "due"}]
  /\ popped \in [ContSweeper -> SUBSET Continuous]
  /\ marks \in [Continuous -> Nat] /\ clones \in [Continuous -> Nat]
  /\ finishing \in [Continuous -> Nat] /\ finishes \in [Continuous -> Nat]
  /\ instanceFaults \in Nat

\* A task is marked once for each time it finished, at the most.
MarkedOnce == \A k \in Continuous : marks[k] + finishing[k] <= finishes[k]

ContInv == ContTypes /\ MarkedOnce /\ LoopKept

TiInv == CronInv /\ ContInv

LEMMA TiInitInv == TiInit => TiInv
<1> SUFFICES ASSUME TiInit PROVE TiInv
  OBVIOUS
<1>1. CronInv
  BY DEF TiInit, CronInv, CronTypes, RemovalsFinal, TemplateRegistered
<1>2. ASSUME NEW k \in Continuous PROVE InFlight(k) = 0
  <2>1. {s \in ContSweeper : k \in popped[s]} = {}
    <3>1. \A s \in ContSweeper : popped[s] = {}
      BY DEF TiInit
    <3> QED
      BY <3>1
  <2> QED
    <3>1. clones[k] = 0 /\ next[k] = "none"
      BY DEF TiInit
    <3>2. Cardinality({s \in ContSweeper : k \in popped[s]}) = 0
      BY <2>1, FS_EmptySet
    <3> QED
      BY <3>1, <3>2 DEF InFlight
<1>3. ContTypes /\ MarkedOnce
  BY DEF TiInit, ContTypes, MarkedOnce
<1>4. LoopKept
  BY <1>2 DEF TiInit, LoopKept
<1> QED
  BY <1>1, <1>3, <1>4 DEF TiInv, ContInv

(* ---- the templates ---- *)

LEMMA CronKeeps == CronInv /\ CronNext => CronInv'
<1> SUFFICES ASSUME CronInv, CronNext PROVE CronInv'
  OBVIOUS
<1> USE DEF CronInv, CronTypes, RemovalsFinal, TemplateRegistered, InstanceFault,
            SameInstanceFaults
<1>1. ASSUME NEW c \in Template, CreateTemplate(c) PROVE CronInv'
  BY <1>1 DEF CreateTemplate
<1>2. ASSUME NEW c \in Template, AddEntry(c) PROVE CronInv'
  BY <1>2 DEF AddEntry
<1>3. ASSUME NEW c \in Template, CancelTemplate(c) PROVE CronInv'
  BY <1>3 DEF CancelTemplate
<1>4. ASSUME NEW c \in Template, DeleteTemplate(c) PROVE CronInv'
  BY <1>4 DEF DeleteTemplate
<1>5. ASSUME NEW c \in Template, RemoveEntry(c) PROVE CronInv'
  BY <1>5 DEF RemoveEntry
<1>6. ASSUME NEW c \in Template, TriggerCronTask(c) PROVE CronInv'
  BY <1>6 DEF TriggerCronTask, Gone
<1>7. CASE ServerStops
  BY <1>7 DEF ServerStops
<1>8. CASE ServerStarts
  BY <1>8 DEF ServerStarts, LoadAll
<1> QED
  BY <1>1, <1>2, <1>3, <1>4, <1>5, <1>6, <1>7, <1>8 DEF CronNext

\* The two parts share only the count of faults, which never falls.
LEMMA CronApart == CronInv /\ UNCHANGED cronVars /\ instanceFaults' \in Nat
                     /\ instanceFaults' >= instanceFaults => CronInv'
BY DEF cronVars, CronInv, CronTypes, RemovalsFinal, TemplateRegistered

LEMMA ContApart == ContInv /\ UNCHANGED contVars /\ instanceFaults' \in Nat
                     /\ instanceFaults' >= instanceFaults => ContInv'
<1> SUFFICES ASSUME ContInv, UNCHANGED contVars, instanceFaults' \in Nat,
                    instanceFaults' >= instanceFaults
             PROVE  ContInv'
  OBVIOUS
<1>1. ContTypes' /\ MarkedOnce'
  BY DEF contVars, ContInv, ContTypes, MarkedOnce
<1>2. \A k \in Continuous : InFlight(k)' = InFlight(k)
  BY DEF contVars, InFlight
<1>3. instanceFaults' = 0 => instanceFaults = 0
  BY DEF ContInv, ContTypes
<1> QED
  BY <1>1, <1>2, <1>3 DEF contVars, ContInv, LoopKept

LEMMA FaultsGrow == instanceFaults \in Nat /\ (CronNext \/ ContinuousNext) =>
                      instanceFaults' \in Nat /\ instanceFaults' >= instanceFaults
<1>1. InstanceFault \/ SameInstanceFaults <=>
        \/ instanceFaults < MaxInstanceFaults /\ instanceFaults' = instanceFaults + 1
        \/ instanceFaults' = instanceFaults
  BY DEF InstanceFault, SameInstanceFaults
<1>2. CronNext => InstanceFault \/ SameInstanceFaults
  BY DEF CronNext, CreateTemplate, AddEntry, CancelTemplate, DeleteTemplate, RemoveEntry,
         TriggerCronTask, ServerStops, ServerStarts
<1>3. ContinuousNext => InstanceFault \/ SameInstanceFaults
  BY DEF ContinuousNext, Finish, SetNextContinuousAt, HoursPass, DeleteContinuous,
         PopDueContinuous, SweepDies, Clone
<1> QED
  BY <1>1, <1>2, <1>3

(* ---- the continuous tasks ---- *)
\* The sweepers that have taken k's mark and not cloned it yet.
Holders(k) == {s \in ContSweeper : k \in popped[s]}
NextMark(k) == IF next[k] = "none" THEN 0 ELSE 1

LEMMA HoldersFinite ==
  \A k : /\ IsFiniteSet(Holders(k)) /\ Cardinality(Holders(k)) \in Nat
         /\ IsFiniteSet(Holders(k)') /\ Cardinality(Holders(k)') \in Nat
<1> TAKE k
<1>1. Holders(k) \in SUBSET ContSweeper /\ Holders(k)' \in SUBSET ContSweeper
  BY DEF Holders
<1>2. IsFiniteSet(Holders(k)) /\ IsFiniteSet(Holders(k)')
  BY <1>1, InstancesAssumption, FS_Subset
<1> QED
  BY <1>2, FS_CardinalityType

LEMMA InFlightSum ==
  \A k : /\ InFlight(k) = clones[k] + Cardinality(Holders(k)) + NextMark(k)
         /\ InFlight(k)' = clones'[k] + Cardinality(Holders(k)') + NextMark(k)'
<1> TAKE k
<1>1. InFlight(k) = clones[k] + Cardinality(Holders(k)) + NextMark(k)
  BY Zenon DEF InFlight, Holders, NextMark
<1>2. InFlight(k)' = clones'[k] + Cardinality(Holders(k)') + NextMark(k)'
  BY Zenon DEF InFlight, Holders, NextMark
<1> QED
  BY <1>1, <1>2

\* A step that keeps the sum for every task, but for the one it marks.
LEMMA SumKept ==
  ASSUME ContInv, ContTypes', MarkedOnce', instanceFaults' >= instanceFaults,
         \A k \in Continuous :
            /\ marks'[k] >= marks[k]
            /\ InFlight(k)' <= InFlight(k) + (marks'[k] - marks[k])
            /\ instanceFaults' = 0 => InFlight(k)' >= InFlight(k)
            /\ instanceFaults' = 0 /\ marks'[k] > marks[k] => InFlight(k)' > 0
  PROVE  ContInv'
<1>1. ASSUME NEW k \in Continuous
      PROVE  /\ InFlight(k)' <= marks'[k]
             /\ instanceFaults' = 0 /\ marks'[k] > 0 => InFlight(k)' > 0
  <2>1. /\ marks[k] \in Nat /\ marks'[k] \in Nat
        /\ instanceFaults \in Nat /\ instanceFaults' \in Nat
    BY DEF ContInv, ContTypes
  <2>2. InFlight(k) \in Nat /\ InFlight(k)' \in Nat
    <3>1. clones[k] \in Nat /\ clones'[k] \in Nat
      BY DEF ContInv, ContTypes
    <3>2. NextMark(k) \in Nat /\ NextMark(k)' \in Nat
      BY DEF NextMark
    <3>3. Cardinality(Holders(k)) \in Nat /\ Cardinality(Holders(k)') \in Nat
      BY HoldersFinite
    <3> QED
      BY <3>1, <3>2, <3>3, InFlightSum
  <2>3. /\ InFlight(k) <= marks[k]
        /\ instanceFaults = 0 /\ marks[k] > 0 => InFlight(k) > 0
    BY DEF ContInv, LoopKept
  <2> QED
    BY <2>1, <2>2, <2>3
<1> QED
  BY <1>1 DEF ContInv, LoopKept

LEMMA SetNextKeeps ==
  ASSUME ContInv, NEW k \in Continuous, SetNextContinuousAt(k)
  PROVE  ContInv'
<1> USE DEF SetNextContinuousAt, SameInstanceFaults, InstanceFault
<1>1. ContTypes'
  BY DEF ContInv, ContTypes
<1>2. MarkedOnce'
  BY DEF ContInv, ContTypes, MarkedOnce
<1>3. instanceFaults' >= instanceFaults
  BY DEF ContInv, ContTypes
<1>4. ASSUME NEW j \in Continuous
      PROVE  /\ marks'[j] >= marks[j]
             /\ InFlight(j)' <= InFlight(j) + (marks'[j] - marks[j])
             /\ instanceFaults' = 0 => InFlight(j)' >= InFlight(j)
             /\ instanceFaults' = 0 /\ marks'[j] > marks[j] => InFlight(j)' > 0
  <2>1. /\ clones[j] \in Nat /\ clones'[j] = clones[j] /\ marks[j] \in Nat
        /\ Cardinality(Holders(j)) \in Nat /\ Holders(j)' = Holders(j)
    BY HoldersFinite DEF ContInv, ContTypes, Holders
  <2>2. \/ /\ j = k /\ next'[j] = "waiting" /\ marks'[j] = marks[j] + 1
        \/ UNCHANGED <<next[j], marks[j]>>
    BY DEF ContInv, ContTypes
  <2>3. NextMark(j) \in {0, 1} /\ NextMark(j)' \in {0, 1}
        /\ (next'[j] = "waiting" => NextMark(j)' = 1)
        /\ (next'[j] = next[j] => NextMark(j)' = NextMark(j))
    BY DEF NextMark
  <2> HIDE DEF SetNextContinuousAt
  <2> QED
    BY <2>1, <2>2, <2>3, InFlightSum
<1> QED
  BY <1>1, <1>2, <1>3, <1>4, SumKept

\* The sweeper that pops a due mark takes the mark over.
LEMMA PopKeeps ==
  ASSUME ContInv, NEW s \in ContSweeper, PopDueContinuous(s)
  PROVE  ContInv'
<1>0. PICK due \in SUBSET Continuous :
        /\ \A k \in due : next[k] = "due"
        /\ popped[s] = {} /\ popped' = [popped EXCEPT ![s] = due]
        /\ next' = [k \in Continuous |-> IF k \in due THEN "none" ELSE next[k]]
  BY DEF PopDueContinuous, Clear
<1>1. UNCHANGED <<finishing, finishes, deletedTask, marks, clones, instanceFaults>>
  BY DEF PopDueContinuous, SameInstanceFaults
<1>2. ContTypes' /\ MarkedOnce'
  BY <1>0, <1>1 DEF ContInv, ContTypes, MarkedOnce
<1>3. instanceFaults' >= instanceFaults
  BY <1>1 DEF ContInv, ContTypes
<1>4. ASSUME NEW k \in Continuous PROVE InFlight(k)' = InFlight(k) /\ InFlight(k) \in Nat
  <2>1. clones[k] \in Nat /\ clones'[k] = clones[k] /\ Cardinality(Holders(k)) \in Nat
    BY <1>1, HoldersFinite DEF ContInv, ContTypes
  <2>2. CASE k \in due
    <3>1. Holders(k)' = Holders(k) \cup {s} /\ s \notin Holders(k)
      BY <1>0, <2>2 DEF ContInv, ContTypes, Holders
    <3>2. Cardinality(Holders(k)') = Cardinality(Holders(k)) + 1
      BY <3>1, HoldersFinite, FS_AddElement
    <3>3. NextMark(k) = 1 /\ NextMark(k)' = 0
      BY <1>0, <2>2 DEF NextMark
    <3> QED
      BY <2>1, <3>2, <3>3, InFlightSum
  <2>3. CASE k \notin due
    <3>1. Holders(k)' = Holders(k)
      BY <1>0, <2>3 DEF ContInv, ContTypes, Holders
    <3>2. NextMark(k)' = NextMark(k) /\ NextMark(k) \in Nat
      BY <1>0, <2>3 DEF NextMark
    <3> QED
      BY <2>1, <3>1, <3>2, InFlightSum
  <2> QED
    BY <2>2, <2>3
<1>5. \A k \in Continuous : marks'[k] = marks[k] /\ marks[k] \in Nat
  BY <1>1 DEF ContInv, ContTypes
<1> QED
  BY <1>2, <1>3, <1>4, <1>5, SumKept

\* What sweeper s stops holding of the tasks lost: cloned, or not.
LEMMA ReleaseKeeps ==
  ASSUME ContInv, ContTypes', NEW s \in ContSweeper, NEW lost \in SUBSET popped[s],
         popped' = [popped EXCEPT ![s] = @ \ lost],
         UNCHANGED <<finishing, finishes, next, marks>>,
         instanceFaults' >= instanceFaults,
         \A k \in Continuous :
            \/ clones'[k] = clones[k] /\ (k \in lost => instanceFaults' # 0)
            \/ clones'[k] = clones[k] + 1 /\ k \in lost
  PROVE  ContInv'
<1>1. MarkedOnce'
  BY DEF ContInv, MarkedOnce
<1>2. ASSUME NEW k \in Continuous
      PROVE  /\ InFlight(k)' <= InFlight(k) /\ InFlight(k) \in Nat
             /\ instanceFaults' = 0 => InFlight(k)' >= InFlight(k)
  <2>1. /\ clones[k] \in Nat /\ Cardinality(Holders(k)) \in Nat
        /\ NextMark(k)' = NextMark(k) /\ NextMark(k) \in Nat
    BY HoldersFinite DEF ContInv, ContTypes, NextMark
  <2>2. CASE k \in lost
    <3>1. Holders(k)' = Holders(k) \ {s} /\ s \in Holders(k)
      BY <2>2 DEF ContInv, ContTypes, Holders
    <3>2. Cardinality(Holders(k)') = Cardinality(Holders(k)) - 1
      BY <3>1, HoldersFinite, FS_RemoveElement
    <3> QED
      BY <2>1, <2>2, <3>2, InFlightSum
  <2>3. CASE k \notin lost
    <3>1. Holders(k)' = Holders(k)
      BY <2>3 DEF ContInv, ContTypes, Holders
    <3> QED
      BY <2>1, <2>3, <3>1, InFlightSum
  <2> QED
    BY <2>2, <2>3
<1>3. \A k \in Continuous : marks'[k] = marks[k] /\ marks[k] \in Nat
  BY DEF ContInv, ContTypes
<1> QED
  BY <1>1, <1>2, <1>3, SumKept

LEMMA ContKeeps == ContInv /\ ContinuousNext => ContInv'
<1> SUFFICES ASSUME ContInv, ContinuousNext PROVE ContInv'
  OBVIOUS
<1> USE DEF SameInstanceFaults, InstanceFault
<1>1. ASSUME NEW k \in Continuous, Finish(k) PROVE ContInv'
  <2>1. ContTypes'
    BY <1>1 DEF Finish, TerminalStatus, ContInv, ContTypes
  <2>2. MarkedOnce'
    BY <1>1 DEF Finish, TerminalStatus, ContInv, ContTypes, MarkedOnce
  <2>3. LoopKept'
    BY <1>1 DEF Finish, ContInv, LoopKept, InFlight
  <2> QED
    BY <2>1, <2>2, <2>3 DEF ContInv
<1>2. ASSUME NEW k \in Continuous, HoursPass(k) PROVE ContInv'
  <2>1. ContTypes' /\ MarkedOnce'
    BY <1>2 DEF HoursPass, ContInv, ContTypes, MarkedOnce
  <2>2. \A j \in Continuous : NextMark(j)' = NextMark(j)
    BY <1>2 DEF HoursPass, ContInv, ContTypes, NextMark
  <2>3. \A j \in Continuous : InFlight(j)' = InFlight(j)
    BY <1>2, <2>2 DEF HoursPass, InFlight, NextMark
  <2> QED
    BY <1>2, <2>1, <2>3 DEF HoursPass, ContInv, LoopKept
<1>3. ASSUME NEW k \in Continuous, DeleteContinuous(k) PROVE ContInv'
  BY <1>3 DEF DeleteContinuous, ContInv, ContTypes, MarkedOnce, LoopKept, InFlight
<1>4. ASSUME NEW s \in ContSweeper, NEW k \in Continuous, Clone(s, k) PROVE ContInv'
  <2> USE <1>4 DEF Clone
  <2>1. ContTypes' /\ instanceFaults' >= instanceFaults
    BY DEF ContInv, ContTypes
  <2>2. \A j \in Continuous :
          \/ clones'[j] = clones[j] /\ (j \in {k} => instanceFaults' # 0)
          \/ clones'[j] = clones[j] + 1 /\ j \in {k}
    BY DEF ContInv, ContTypes
  <2>3. /\ popped' = [popped EXCEPT ![s] = @ \ {k}] /\ {k} \in SUBSET popped[s]
        /\ UNCHANGED <<finishing, finishes, next, marks>>
    OBVIOUS
  <2> HIDE DEF Clone
  <2> QED
    BY <2>1, <2>2, <2>3, ReleaseKeeps
<1>5. ASSUME NEW s \in ContSweeper, SweepDies(s) PROVE ContInv'
  <2> USE <1>5 DEF SweepDies
  <2>1. ContTypes' /\ instanceFaults' >= instanceFaults /\ instanceFaults' # 0
    BY DEF ContInv, ContTypes
  <2>2. popped' = [popped EXCEPT ![s] = @ \ popped[s]]
    OBVIOUS
  <2>3. \A j \in Continuous : clones'[j] = clones[j]
    OBVIOUS
  <2>4. popped[s] \in SUBSET popped[s]
    OBVIOUS
  <2> QED
    BY <2>1, <2>2, <2>3, <2>4, ReleaseKeeps
<1> QED
  BY <1>1, <1>2, <1>3, <1>4, <1>5, SetNextKeeps, PopKeeps DEF ContinuousNext

LEMMA TiStep == TiInv /\ [TiNext]_tiVars => TiInv'
<1> SUFFICES ASSUME TiInv, [TiNext]_tiVars PROVE TiInv'
  OBVIOUS
<1>1. CASE CronStep
  <2>1. CronInv' /\ instanceFaults' \in Nat /\ instanceFaults' >= instanceFaults
    BY <1>1, CronKeeps, FaultsGrow DEF CronStep, TiInv, CronInv, CronTypes
  <2> QED
    BY <1>1, <2>1, ContApart DEF CronStep, TiInv
<1>2. CASE ContinuousStep
  <2>1. ContInv' /\ instanceFaults' \in Nat /\ instanceFaults' >= instanceFaults
    BY <1>2, ContKeeps, FaultsGrow DEF ContinuousStep, TiInv, ContInv, ContTypes
  <2> QED
    BY <1>2, <2>1, CronApart DEF ContinuousStep, TiInv
<1>3. CASE UNCHANGED tiVars
  <2>1. instanceFaults \in Nat
    BY DEF TiInv, ContInv, ContTypes
  <2> QED
    BY <1>3, <2>1, ContApart, CronApart DEF tiVars, TiInv
<1> QED
  BY <1>1, <1>2, <1>3 DEF TiNext

\* The scheduler of a running server has the entry of every active template
\* whose call has returned, across restarts (scan/scheduler).
THEOREM ActiveTemplatesFire == TiSpec => []TemplateRegistered
<1>1. TiInv => TemplateRegistered
  BY DEF TiInv, CronInv
<1> QED
  BY <1>1, TiInitInv, TiStep, PTL DEF TiSpec

\* A mark of a continuous task is cloned once at the most, and without faults
\* not lost (scan/sweeper).
THEOREM MarksCloneOnce == TiSpec => []LoopKept
<1>1. TiInv => LoopKept
  BY DEF TiInv, ContInv
<1> QED
  BY <1>1, TiInitInv, TiStep, PTL DEF TiSpec

LEMMA TiTyped == TiInv => TiTypeOK
BY DEF TiInv, CronInv, CronTypes, ContInv, ContTypes, MarkedOnce, TiTypeOK

-----------------------------------------------------------------------------
(***************************************************************************)
(* A project that knows a certificate is told that it expires, and not     *)
(* twice within DedupeWindow, for any number of projects and any windows.  *)
(***************************************************************************)
CeEvents == \A p \in Project : \A i \in DOMAIN told[p] : told[p][i] <= round

SeenInPast == \A p \in Project : seen[p] # Never => seen[p] <= round /\ seen[p] < NotAfter

EventsSpaced == \A p \in Project : Spaced(p)

\* A sweep that tells one project tells every one that knows the certificate:
\* if p has no event, every event there is was made before p knew it.
ToldTogether ==
  \A p \in Project : seen[p] # Never /\ told[p] = <<>> =>
    \A q \in Project : \A i \in DOMAIN told[q] : told[q][i] <= seen[p]

\* So nothing keeps the sweep of the last round from telling p.
ToldByLastSweep ==
  missed = 0 /\ (round = NotAfter \/ (round = NotAfter - 1 /\ swept)) =>
    \A p \in Project : ToldBefore(p)

CeInv == CeTypeOK /\ CeEvents /\ SeenInPast /\ EventsSpaced /\ ToldTogether /\ ToldByLastSweep

LEMMA Appended ==
  ASSUME NEW S, NEW s \in Seq(S), NEW x \in S
  PROVE  /\ Append(s, x) \in Seq(S) /\ Append(s, x) # <<>>
         /\ DOMAIN s = 1..Len(s) /\ Len(s) \in Nat
         /\ DOMAIN Append(s, x) = 1..(Len(s) + 1)
         /\ \A i \in 1..Len(s) : Append(s, x)[i] = s[i]
         /\ Append(s, x)[Len(s) + 1] = x
  OBVIOUS

LEMMA CeNumbers ==
  CeTypeOK => /\ round \in Nat /\ missed \in Nat /\ swept \in BOOLEAN /\ round <= NotAfter
              /\ NotAfter \in Nat /\ ExpiryWindow \in Nat /\ DedupeWindow \in Nat
              /\ NotAfter >= 1 /\ ExpiryWindow >= 1 /\ DedupeWindow >= 1
              /\ \A p \in Project : /\ seen[p] \in Nat
                                    /\ \A i \in DOMAIN told[p] : told[p][i] \in Nat
<1> SUFFICES ASSUME CeTypeOK
             PROVE  /\ round \in Nat /\ missed \in Nat /\ swept \in BOOLEAN /\ round <= NotAfter
                    /\ NotAfter \in Nat /\ ExpiryWindow \in Nat /\ DedupeWindow \in Nat
                    /\ NotAfter >= 1 /\ ExpiryWindow >= 1 /\ DedupeWindow >= 1
                    /\ \A p \in Project : /\ seen[p] \in Nat
                                          /\ \A i \in DOMAIN told[p] : told[p][i] \in Nat
  OBVIOUS
<1>1. /\ NotAfter \in Nat /\ ExpiryWindow \in Nat /\ DedupeWindow \in Nat
      /\ NotAfter >= 1 /\ ExpiryWindow >= 1 /\ DedupeWindow >= 1
  BY ExpiryAssumption
<1>2. round \in Nat /\ missed \in Nat /\ swept \in BOOLEAN /\ round <= NotAfter
  BY <1>1, ExpiryAssumption DEF CeTypeOK
<1>3. ASSUME NEW p \in Project
      PROVE  /\ seen[p] \in Nat
             /\ \A i \in DOMAIN told[p] : told[p][i] \in Nat
  <2>1. seen[p] \in 0..Never /\ told[p] \in Seq(0..NotAfter - 1)
    BY <1>3 DEF CeTypeOK
  <2>2. seen[p] \in Nat
    BY <1>1, <2>1 DEF Never
  <2>3. ASSUME NEW i \in DOMAIN told[p] PROVE told[p][i] \in 0..NotAfter - 1
    BY <2>1, <2>3, ElementOfSeq, LenProperties
  <2> QED
    BY <1>1, <2>2, <2>3
<1> QED
  BY <1>1, <1>2, <1>3

LEMMA CeInitInv == CeInit => CeInv
<1> SUFFICES ASSUME CeInit PROVE CeInv
  OBVIOUS
<1>1. /\ NotAfter \in Nat /\ ExpiryWindow \in Nat /\ DedupeWindow \in Nat
      /\ NotAfter >= 1 /\ ExpiryWindow >= 1 /\ DedupeWindow >= 1 /\ MaxMissed \in Nat
  BY ExpiryAssumption
<1>2. \A p \in Project : told[p] = <<>> /\ seen[p] = Never
  BY DEF CeInit
<1>3. CeTypeOK
  <2>1. Never \in 0..Never /\ 0 \in 0..NotAfter /\ 0 \in 0..MaxMissed
    BY <1>1 DEF Never
  <2>2. told \in [Project -> Seq(0..NotAfter - 1)]
    BY DEF CeInit
  <2> QED
    BY <2>1, <2>2 DEF CeInit, CeTypeOK
<1>4. CeEvents /\ SeenInPast /\ EventsSpaced /\ ToldTogether
  BY <1>2 DEF CeEvents, SeenInPast, EventsSpaced, Spaced, ToldTogether
<1>5. ToldByLastSweep
  BY <1>1, <1>2 DEF CeInit, ToldByLastSweep, ToldBefore, Never
<1> QED
  BY <1>3, <1>4, <1>5 DEF CeInv

LEMMA ResultKeeps ==
  ASSUME CeInv, NEW p \in Project, TlsResult(p)
  PROVE  CeInv'
<1> USE DEF CeInv
<1>1. /\ \A q \in Project : seen'[q] = IF q = p THEN round ELSE seen[q]
      /\ UNCHANGED <<round, swept, told, missed>> /\ round < NotAfter
  BY DEF TlsResult, CeTypeOK
<1>2. CeTypeOK'
  <2>1. round \in 0..Never
    BY <1>1, CeNumbers DEF Never
  <2> QED
    BY <1>1, <2>1 DEF TlsResult, CeTypeOK
<1>3. CeEvents' /\ EventsSpaced'
  BY <1>1 DEF CeEvents, EventsSpaced, Spaced
<1>4. SeenInPast'
  BY <1>1, CeNumbers DEF SeenInPast
<1>5. ToldTogether'
  BY <1>1 DEF ToldTogether, CeEvents
<1>6. ToldByLastSweep'
  BY <1>1, CeNumbers DEF ToldByLastSweep, ToldBefore
<1> QED
  BY <1>2, <1>3, <1>4, <1>5, <1>6

LEMMA SweepKeeps ==
  ASSUME CeInv, SweepCertsExpiring
  PROVE  CeInv'
<1> USE DEF CeInv
<1>0. UNCHANGED <<round, seen, missed>> /\ swept' = TRUE
  BY DEF SweepCertsExpiring
<1>1. ASSUME NEW p \in Project
      PROVE  /\ p \in ToTell => told'[p] = Append(told[p], round)
             /\ p \notin ToTell => told'[p] = told[p]
  BY DEF SweepCertsExpiring
<1>2. ASSUME NEW p \in Project, p \in ToTell
      PROVE  /\ round < NotAfter
             /\ \A q \in Project : seen[q] # Never => q \in ToTell
             /\ \A q \in Project : \A i \in DOMAIN told[q] : told[q][i] + DedupeWindow <= round
  <2>1. Expiring /\ ~RecentlyTold
    BY <1>2 DEF ToTell
  <2>2. \A q \in Project : \A i \in DOMAIN told[q] : ~(round < told[q][i] + DedupeWindow)
    BY <2>1 DEF RecentlyTold, EventsSince
  <2> QED
    BY <2>1, <2>2, CeNumbers DEF Expiring, ToTell
<1>3. ASSUME NEW p \in Project, p \in ToTell
      PROVE  /\ told'[p] \in Seq(0..NotAfter - 1) /\ told'[p] # <<>>
             /\ DOMAIN told[p] = 1..Len(told[p]) /\ Len(told[p]) \in Nat
             /\ DOMAIN told'[p] = 1..(Len(told[p]) + 1)
             /\ \A i \in 1..Len(told[p]) : told'[p][i] = told[p][i]
             /\ told'[p][Len(told[p]) + 1] = round
  <2>1. round \in 0..NotAfter - 1
    BY <1>2, <1>3, CeNumbers
  <2>2. told[p] \in Seq(0..NotAfter - 1)
    BY DEF CeTypeOK
  <2>3. told'[p] = Append(told[p], round)
    BY <1>1, <1>3
  <2> HIDE DEF CeInv
  <2> QED
    BY ONLY <2>1, <2>2, <2>3, Appended
<1>4. CeTypeOK'
  <2>1. ASSUME NEW p \in Project PROVE told'[p] \in Seq(0..NotAfter - 1)
    <3>1. told[p] \in Seq(0..NotAfter - 1)
      BY DEF CeTypeOK
    <3> QED
      BY <1>1, <1>3, <3>1
  <2>2. told' \in [Project -> Seq(0..NotAfter - 1)]
    BY <2>1 DEF SweepCertsExpiring
  <2> QED
    BY <1>0, <2>2 DEF CeTypeOK
<1>5. CeEvents'
  <2> SUFFICES ASSUME NEW p \in Project, NEW i \in DOMAIN told'[p] PROVE told'[p][i] <= round
    BY <1>0 DEF CeEvents
  <2>1. CASE p \in ToTell
    <3>1. i \in 1..Len(told[p]) \/ i = Len(told[p]) + 1
      BY <1>3, <2>1
    <3>2. CASE i = Len(told[p]) + 1
      BY <1>3, <2>1, <3>2, CeNumbers
    <3>3. CASE i \in 1..Len(told[p])
      BY <1>3, <2>1, <3>3 DEF CeEvents
    <3> QED
      BY <3>1, <3>2, <3>3
  <2> QED
    BY <1>1, <2>1 DEF CeEvents
<1>6. SeenInPast'
  BY <1>0 DEF SeenInPast
<1>7. EventsSpaced'
  <2> SUFFICES ASSUME NEW p \in Project, NEW i \in DOMAIN told'[p], NEW j \in DOMAIN told'[p],
                      i < j
               PROVE  told'[p][i] + DedupeWindow <= told'[p][j]
    BY DEF EventsSpaced, Spaced
  <2>1. CASE p \in ToTell
    <3>0. /\ Len(told[p]) \in Nat /\ i \in 1..(Len(told[p]) + 1)
          /\ j \in 1..(Len(told[p]) + 1)
      BY <1>3, <2>1
    <3>1. i \in 1..Len(told[p])
      BY <3>0
    <3>2. CASE j = Len(told[p]) + 1
      BY <1>2, <1>3, <2>1, <3>1, <3>2
    <3>3. CASE j \in 1..Len(told[p])
      BY <1>3, <2>1, <3>1, <3>3 DEF EventsSpaced, Spaced
    <3> QED
      BY <3>0, <3>2, <3>3
  <2> QED
    BY <1>1, <2>1 DEF EventsSpaced, Spaced
<1>8. ToldTogether'
  <2> SUFFICES ASSUME NEW p \in Project, seen[p] # Never, told'[p] = <<>>,
                      NEW q \in Project, NEW i \in DOMAIN told'[q]
               PROVE  told'[q][i] <= seen[p]
    BY <1>0 DEF ToldTogether, Never
  <2>1. p \notin ToTell /\ q \notin ToTell
    BY <1>2, <1>3
  <2> QED
    BY <1>1, <2>1 DEF ToldTogether
<1>9. ToldByLastSweep'
  <2> SUFFICES ASSUME missed = 0, round = NotAfter \/ round = NotAfter - 1, NEW p \in Project,
                      seen[p] + DedupeWindow < NotAfter
               PROVE  told'[p] # <<>>
    BY <1>0 DEF ToldByLastSweep, ToldBefore
  <2>1. CASE told[p] # <<>>
    BY <1>1, <1>3, <2>1
  <2>2. CASE told[p] = <<>>
    <3>1. round # NotAfter
      BY <2>2 DEF ToldByLastSweep, ToldBefore
    <3>2. round < NotAfter /\ NotAfter <= round + ExpiryWindow
      BY <3>1, CeNumbers
    <3>3. seen[p] # Never /\ seen[p] + DedupeWindow <= round
      BY <3>1, CeNumbers DEF Never
    <3>4. ~RecentlyTold
      <4>1. \A q \in Project : \A i \in DOMAIN told[q] : told[q][i] <= seen[p]
        BY <2>2, <3>3 DEF ToldTogether
      <4> QED
        BY <3>3, <4>1, CeNumbers DEF RecentlyTold, EventsSince
    <3>5. p \in ToTell
      BY <3>2, <3>3, <3>4 DEF ToTell, Expiring
    <3> QED
      BY <1>3, <3>5
  <2> QED
    BY <2>1, <2>2
<1> QED
  BY <1>4, <1>5, <1>6, <1>7, <1>8, <1>9

LEMMA RoundKeeps ==
  ASSUME CeInv, SweepMissed \/ NextRound \/ UNCHANGED ceVars
  PROVE  CeInv'
<1> USE DEF CeInv
<1>1. /\ seen' = seen /\ told' = told /\ round' >= round /\ round' \in Nat
      /\ round' = round \/ (round' = round + 1 /\ swept /\ missed' = missed)
      /\ missed' \in Nat
      /\ round' = round => missed' = missed + 1 \/ (swept' = swept /\ missed' = missed)
      /\ round' = round + 1 => swept' = FALSE
  BY CeNumbers DEF SweepMissed, NextRound, ceVars
<1>2. CeTypeOK'
  <2>1. /\ round \in Nat /\ missed \in Nat /\ NotAfter \in Nat /\ MaxMissed \in Nat
        /\ round \in 0..NotAfter /\ missed \in 0..MaxMissed /\ swept \in BOOLEAN
    BY CeNumbers, ExpiryAssumption DEF CeTypeOK
  <2>2. round' \in 0..NotAfter /\ missed' \in 0..MaxMissed /\ swept' \in BOOLEAN
    <3> HIDE DEF CeInv
    <3>1. CASE SweepMissed
      BY <2>1, <3>1 DEF SweepMissed
    <3>2. CASE NextRound
      <4>1. round' = round + 1 /\ round < NotAfter /\ missed' = missed /\ swept' = FALSE
        BY <3>2 DEF NextRound
      <4>2. round' \in 0..NotAfter
        BY <2>1, <4>1
      <4> QED
        BY <2>1, <4>1, <4>2
    <3>3. CASE UNCHANGED ceVars
      BY <2>1, <3>3 DEF ceVars
    <3> QED
      BY <3>1, <3>2, <3>3
  <2>3. UNCHANGED <<seen, told>>
    BY <1>1
  <2> QED
    BY <2>2, <2>3 DEF CeTypeOK, Never
<1>3. CeEvents' /\ SeenInPast'
  <2>1. ASSUME NEW p \in Project, NEW i \in DOMAIN told[p] PROVE told[p][i] <= round'
    BY <1>1, CeNumbers DEF CeEvents
  <2>2. ASSUME NEW p \in Project, seen[p] # Never PROVE seen[p] <= round' /\ seen[p] < NotAfter
    BY <1>1, <2>2, CeNumbers DEF SeenInPast
  <2> QED
    BY <1>1, <2>1, <2>2 DEF CeEvents, SeenInPast, Never
<1>4. EventsSpaced' /\ ToldTogether'
  BY <1>1 DEF EventsSpaced, Spaced, ToldTogether, Never
<1>5. ToldByLastSweep'
  <2> SUFFICES ASSUME missed' = 0, round' = NotAfter \/ (round' = NotAfter - 1 /\ swept'),
                      NEW p \in Project
               PROVE  ToldBefore(p)
    BY <1>1 DEF ToldByLastSweep, ToldBefore
  <2>1. missed = 0 /\ (round = NotAfter \/ (round = NotAfter - 1 /\ swept))
    BY <1>1, CeNumbers
  <2> QED
    BY <2>1 DEF ToldByLastSweep
<1> QED
  BY <1>2, <1>3, <1>4, <1>5

LEMMA CeStep == CeInv /\ [CeNext]_ceVars => CeInv'
BY ResultKeeps, SweepKeeps, RoundKeeps DEF CeNext

\* However often the server restarts and sweeps, a project is told in time,
\* unless sweeps were missed, and not twice within DedupeWindow
\* (asset/repo/event_pg.go, SweepCertsExpiring).
THEOREM ProjectsToldInTime == CeSpec => []ExpiryToldInTime
<1>1. CeInv => ExpiryToldInTime
  BY DEF CeInv, EventsSpaced, ToldByLastSweep, ExpiryToldInTime
<1> QED
  BY <1>1, CeInitInv, CeStep, PTL DEF CeSpec

-----------------------------------------------------------------------------
(***************************************************************************)
(* The puller installs only what some package was uploaded with, and the   *)
(* manifest tells which, for any number of uploads, versions and keys.     *)
(***************************************************************************)
SomeBinary == Binary \cup {NoBinary}
SomeKey == SigningKey \cup {NoKey}
PkgRow == [sha : SomeBinary, key : SomeKey, active : BOOLEAN, deprecated : BOOLEAN]
UploadCall == [pc : UploadPC, v : Version, bin : SomeBinary]
PullerPC == {"keys", "latest", "url", "download", "verify", "manifest"}
PullerRec == [pc : PullerPC, v : Nat, sha : SomeBinary, key : SomeKey, tmp : SomeBinary]
ManifestEntry == [v : Nat, sha : SomeBinary]

PrTypes ==
  /\ pkg \in [Version -> PkgRow] /\ object \in [Version -> SomeBinary]
  /\ upload \in [Upload -> UploadCall]
  /\ revoked \subseteq SigningKey /\ keys \subseteq SigningKey /\ serverKey \in SigningKey
  /\ puller \in PullerRec
  /\ manifest \in [mem : ManifestEntry, disk : ManifestEntry]
  /\ installed \in SomeBinary
  /\ admin \in 0..MaxAdmin /\ pluginFaults \in 0..MaxPluginFaults

\* An upload that is about to insert its row has a binary; a row that is on
\* offer exists.
RowsHaveBinary ==
  /\ \A u \in Upload : upload[u].pc = "insert" => upload[u].bin \in Binary
  /\ \A v \in Version : pkg[v].active => Exists(v)

\* The round of the puller is about a row that exists, and whose binary never
\* changes any more; once it has verified what it downloaded, it installs it.
RoundIsOfRow ==
  /\ puller.pc \in {"url", "download", "verify", "manifest"} =>
       /\ puller.v \in Version /\ Exists(puller.v) /\ puller.sha = pkg[puller.v].sha
  /\ puller.pc = "manifest" => puller.tmp = puller.sha /\ installed = puller.tmp

PrInv == PrTypes /\ RowsHaveBinary /\ RoundIsOfRow /\ InstalledVerified

LEMMA RoundOverType == RoundOver \in PullerRec /\ RoundOver.pc = "keys"
BY DEF RoundOver, PullerRec, PullerPC, SomeBinary, SomeKey

LEMMA PrInitInv == PrInit => PrInv
<1> SUFFICES ASSUME PrInit PROVE PrInv
  OBVIOUS
<1>1. (CHOOSE k \in SigningKey : TRUE) \in SigningKey
  BY PluginAssumption
<1>2. 1 \in Version /\ 0 \in 0..MaxAdmin /\ 0 \in 0..MaxPluginFaults
  BY PluginAssumption DEF Version
<1>3. NoRow \in PkgRow /\ NoBinary \in SomeBinary
  BY DEF NoRow, PkgRow, SomeBinary, SomeKey
<1>4. [pc |-> "idle", v |-> 1, bin |-> NoBinary] \in UploadCall
  BY <1>2, <1>3 DEF UploadCall, UploadPC
<1>5. [mem |-> NotInManifest, disk |-> NotInManifest] \in [mem : ManifestEntry, disk : ManifestEntry]
  BY <1>3 DEF NotInManifest, ManifestEntry
<1>6. PrTypes
  BY <1>1, <1>2, <1>3, <1>4, <1>5, RoundOverType DEF PrInit, PrTypes
<1>7. RowsHaveBinary
  BY DEF PrInit, RowsHaveBinary, NoRow
<1>8. RoundIsOfRow /\ InstalledVerified
  BY RoundOverType DEF PrInit, RoundIsOfRow, InstalledVerified, NotInManifest
<1> QED
  BY <1>6, <1>7, <1>8 DEF PrInv

(* ---- the registry ---- *)

\* What the registry may do for the puller's part to hold: a row that has a
\* binary keeps it, and the faults do not go back.
LEMMA RegistryKeeps ==
  ASSUME PrInv, PrTypes', RowsHaveBinary', SameAgent,
         \A v \in Version : Exists(v) => pkg'[v].sha = pkg[v].sha,
         pluginFaults' = 0 => pluginFaults = 0
  PROVE  PrInv'
<1>1. RoundIsOfRow'
  BY DEF PrInv, RoundIsOfRow, SameAgent, Exists
<1>2. InstalledVerified'
  BY DEF PrInv, InstalledVerified, SameAgent, Exists
<1> QED
  BY <1>1, <1>2 DEF PrInv

LEMMA UploadsKeep ==
  ASSUME PrInv, NEW u \in Upload,
         \/ \E v \in Version, bin \in Binary : PutObject(u, v, bin)
         \/ InsertPackage(u) \/ RemoveObject(u) \/ UploadFails(u)
  PROVE  PrInv'
<1> USE DEF PrInv, PrTypes
<1>0. /\ upload[u] \in UploadCall /\ upload[u].v \in Version /\ upload[u].bin \in SomeBinary
      /\ \A c \in UploadPC : [upload[u] EXCEPT !.pc = c] \in UploadCall
      /\ \A c \in UploadPC : [upload[u] EXCEPT !.pc = c].pc = c
      /\ Binary \subseteq SomeBinary /\ NoBinary \in SomeBinary
      /\ pluginFaults \in Nat /\ MaxPluginFaults \in Nat
  BY PluginAssumption DEF UploadCall, SomeBinary
<1>1. ASSUME NEW v \in Version, NEW bin \in Binary, PutObject(u, v, bin) PROVE PrInv'
  <2> USE <1>1 DEF PutObject
  <2>1. [pc |-> "insert", v |-> v, bin |-> bin] \in UploadCall
    BY <1>0 DEF UploadCall, UploadPC
  <2>2. PrTypes'
    BY <1>0, <2>1 DEF SameAgent
  <2>3. RowsHaveBinary'
    BY DEF RowsHaveBinary, Exists
  <2> QED
    BY <2>2, <2>3, RegistryKeeps
<1>2. CASE InsertPackage(u)
  <2> USE <1>2 DEF InsertPackage
  <2>1. UNCHANGED <<object, revoked, serverKey, admin, pluginFaults>> /\ SameAgent
    OBVIOUS
  <2>2. CASE Exists(upload[u].v)
    <3>1. /\ upload' = [upload EXCEPT ![u] = [upload[u] EXCEPT !.pc = "remove"]]
          /\ UNCHANGED pkg
      BY <2>2
    <3>2. PrTypes'
      BY <1>0, <2>1, <3>1 DEF SameAgent, UploadPC
    <3>3. RowsHaveBinary'
      BY <1>0, <3>1 DEF RowsHaveBinary, Exists, UploadPC
    <3> QED
      BY <2>1, <3>1, <3>2, <3>3, RegistryKeeps
  <2>3. CASE ~Exists(upload[u].v)
    <3> DEFINE row == [sha |-> upload[u].bin, key |-> serverKey, active |-> TRUE,
                       deprecated |-> FALSE]
    <3>1. /\ upload' = [upload EXCEPT ![u] = [upload[u] EXCEPT !.pc = "done"]]
          /\ pkg' = [pkg EXCEPT ![upload[u].v] = row]
      BY <2>3
    <3>2. row \in PkgRow /\ row.sha \in Binary
      BY <1>0 DEF PkgRow, SomeKey, RowsHaveBinary
    <3> HIDE DEF row
    <3>3. PrTypes'
      BY <1>0, <2>1, <3>1, <3>2 DEF SameAgent, UploadPC
    <3>4. RowsHaveBinary'
      <4>1. \A w \in Upload : upload'[w].pc = "insert" => upload'[w].bin \in Binary
        BY <1>0, <3>1 DEF RowsHaveBinary, UploadPC
      <4>2. \A v \in Version : pkg'[v].active => pkg'[v].sha # NoBinary
        BY <1>0, <3>1, <3>2, PluginAssumption DEF RowsHaveBinary, Exists
      <4> QED
        BY <4>1, <4>2 DEF RowsHaveBinary, Exists
    <3>5. \A v \in Version : Exists(v) => pkg'[v].sha = pkg[v].sha
      BY <2>3, <3>1
    <3> QED
      BY <2>1, <3>3, <3>4, <3>5, RegistryKeeps
  <2> QED
    BY <2>2, <2>3
<1>3. CASE RemoveObject(u)
  <2> USE <1>3 DEF RemoveObject
  <2>1. upload' = [upload EXCEPT ![u] = [upload[u] EXCEPT !.pc = "done"]]
    OBVIOUS
  <2>2. PrTypes'
    BY <1>0, <2>1 DEF SameAgent, UploadPC
  <2>3. RowsHaveBinary'
    BY <1>0, <2>1 DEF RowsHaveBinary, Exists, UploadPC
  <2> QED
    BY <2>2, <2>3, RegistryKeeps
<1>4. CASE UploadFails(u)
  <2> USE <1>4 DEF UploadFails, PluginFault
  <2>1. PICK c \in {"done", "remove"} :
          upload' = [upload EXCEPT ![u] = [upload[u] EXCEPT !.pc = c]]
    OBVIOUS
  <2>2. PrTypes'
    BY <1>0, <2>1 DEF SameAgent, UploadPC
  <2>3. RowsHaveBinary'
    BY <1>0, <2>1 DEF RowsHaveBinary, Exists, UploadPC
  <2>4. pluginFaults' # 0
    BY <1>0
  <2> QED
    BY <2>2, <2>3, <2>4, RegistryKeeps
<1> QED
  BY <1>1, <1>2, <1>3, <1>4

LEMMA RowsKeep ==
  ASSUME PrInv,
         \/ \E v \in Version : Deprecate(v) \/ \E on \in BOOLEAN : SetActive(v, on)
         \/ \E k \in SigningKey : RevokeKey(k)
         \/ RotateKey
  PROVE  PrInv'
<1> USE DEF PrInv, PrTypes
<1>0. MaxAdmin \in Nat /\ (Admin => admin' \in 0..MaxAdmin)
  BY PluginAssumption DEF Admin
<1>1. ASSUME NEW v \in Version, NEW row \in PkgRow, pkg' = [pkg EXCEPT ![v] = row],
             row.sha = pkg[v].sha, Exists(v), Admin, SameAgent,
             UNCHANGED <<object, upload, revoked, serverKey, pluginFaults>>
      PROVE  PrInv'
  <2>1. PrTypes'
    BY <1>0, <1>1 DEF SameAgent
  <2>2. RowsHaveBinary'
    BY <1>1 DEF RowsHaveBinary, Exists
  <2>3. \A w \in Version : pkg'[w].sha = pkg[w].sha
    BY <1>1
  <2> QED
    BY <1>1, <2>1, <2>2, <2>3, RegistryKeeps
<1>2. ASSUME NEW v \in Version, NEW on \in BOOLEAN, SetActive(v, on) PROVE PrInv'
  <2>1. pkg' = [pkg EXCEPT ![v] = [pkg[v] EXCEPT !.active = on]] /\ pkg[v] \in PkgRow
    BY <1>2 DEF SetActive
  <2>2. [pkg[v] EXCEPT !.active = on] \in PkgRow /\ [pkg[v] EXCEPT !.active = on].sha = pkg[v].sha
    BY <2>1 DEF PkgRow
  <2> QED
    BY <1>1, <1>2, <2>1, <2>2 DEF SetActive
<1>3. ASSUME NEW v \in Version, Deprecate(v) PROVE PrInv'
  <2> DEFINE row == [pkg[v] EXCEPT !.deprecated = TRUE, !.active = FALSE]
  <2>1. pkg' = [pkg EXCEPT ![v] = row] /\ pkg[v] \in PkgRow
    BY <1>3 DEF Deprecate
  <2>2. row \in PkgRow /\ row.sha = pkg[v].sha
    BY <2>1 DEF PkgRow
  <2> QED
    BY <1>1, <1>3, <2>1, <2>2 DEF Deprecate
<1>4. ASSUME NEW k \in SigningKey, RevokeKey(k) PROVE PrInv'
  <2>1. PrTypes' /\ RowsHaveBinary'
    BY <1>0, <1>4 DEF RevokeKey, SameAgent, RowsHaveBinary, Exists
  <2> QED
    BY <1>4, <2>1, RegistryKeeps DEF RevokeKey
<1>5. CASE RotateKey
  <2>1. PrTypes' /\ RowsHaveBinary'
    BY <1>5 DEF RotateKey, SameAgent, RowsHaveBinary, Exists
  <2> QED
    BY <1>5, <2>1, RegistryKeeps DEF RotateKey
<1> QED
  BY <1>2, <1>3, <1>4, <1>5
(* ---- the puller ---- *)

\* A step of the agent, with the round p and the rest as it leaves them.
LEMMA AgentKeeps ==
  ASSUME PrInv, SameRegistry, NEW p \in PullerRec, puller' = p, keys' \subseteq SigningKey,
         manifest' \in [mem : ManifestEntry, disk : ManifestEntry],
         installed' \in SomeBinary, pluginFaults' \in 0..MaxPluginFaults,
         RoundIsOfRow', InstalledVerified'
  PROVE  PrInv'
<1>1. PrTypes'
  BY DEF PrInv, PrTypes, SameRegistry
<1>2. RowsHaveBinary'
  BY DEF PrInv, RowsHaveBinary, SameRegistry, Exists
<1> QED
  BY <1>1, <1>2 DEF PrInv

\* The round goes on to pc, or is over, and nothing was installed.
LEMMA PullKeeps ==
  ASSUME PrInv, SameRegistry, NEW p \in PullerRec, puller' = p, keys' \subseteq SigningKey,
         UNCHANGED <<manifest, installed>>, pluginFaults' \in 0..MaxPluginFaults,
         pluginFaults' = 0 => pluginFaults = 0,
         p.pc # "manifest", puller.pc # "manifest",
         p.pc \in {"url", "download", "verify"} =>
           p.v \in Version /\ Exists(p.v) /\ p.sha = pkg[p.v].sha
  PROVE  PrInv'
<1>1. RoundIsOfRow'
  BY DEF RoundIsOfRow, SameRegistry, Exists
<1>2. InstalledVerified'
  BY DEF PrInv, InstalledVerified, SameRegistry
<1> QED
  BY <1>1, <1>2, AgentKeeps DEF PrInv, PrTypes

LEMMA PullerKeeps ==
  ASSUME PrInv, PullerStep \/ PullFails \/ AgentRestarts
  PROVE  PrInv'
<1>0. /\ puller \in PullerRec /\ pluginFaults \in Nat /\ MaxPluginFaults \in Nat
      /\ pluginFaults \in 0..MaxPluginFaults
      /\ (PluginFault => pluginFaults' \in 0..MaxPluginFaults /\ pluginFaults' # 0)
      /\ keys \subseteq SigningKey /\ RoundOver \in PullerRec /\ RoundOver.pc = "keys"
      /\ \A c \in PullerPC : /\ [puller EXCEPT !.pc = c] \in PullerRec
                             /\ [puller EXCEPT !.pc = c].pc = c
                             /\ [puller EXCEPT !.pc = c].v = puller.v
                             /\ [puller EXCEPT !.pc = c].sha = puller.sha
                             /\ [puller EXCEPT !.pc = c].tmp = puller.tmp
  BY PluginAssumption, RoundOverType DEF PrInv, PrTypes, PullerRec, PluginFault
<1>1. CASE RefreshKeys
  BY <1>0, <1>1, PullKeeps DEF RefreshKeys, FetchedKeys, PullerPC
<1>2. CASE CheckLatest
  <2>1. ASSUME NEW v \in GetLatestVersion,
               puller' = [puller EXCEPT !.pc = "url", !.v = v, !.sha = pkg[v].sha,
                                        !.key = pkg[v].key]
        PROVE  PrInv'
    <3> DEFINE p == [puller EXCEPT !.pc = "url", !.v = v, !.sha = pkg[v].sha,
                                   !.key = pkg[v].key]
    <3>1. v \in Version /\ pkg[v].active /\ v \in Nat
      BY <2>1 DEF GetLatestVersion, Newest, Offered, Version
    <3>2. pkg[v].sha \in SomeBinary /\ pkg[v].key \in SomeKey /\ Exists(v)
      BY <3>1 DEF PrInv, PrTypes, PkgRow, RowsHaveBinary
    <3>3. p \in PullerRec /\ p.pc = "url" /\ p.v = v /\ p.sha = pkg[v].sha
      BY <1>0, <3>1, <3>2 DEF PullerRec, PullerPC
    <3> HIDE DEF p
    <3>4. puller' = p
      BY <2>1 DEF p
    <3> QED
      BY <1>0, <1>2, <3>1, <3>2, <3>3, <3>4, PullKeeps DEF CheckLatest
  <2>2. CASE puller' = RoundOver
    BY <1>0, <1>2, <2>2, PullKeeps DEF CheckLatest
  <2> QED
    BY <1>2, <2>1, <2>2 DEF CheckLatest
<1>3. CASE GetDownloadURL
  <2>1. CASE puller' = [puller EXCEPT !.pc = "download"]
    <3> DEFINE p == [puller EXCEPT !.pc = "download"]
    <3>1. puller.v \in Version /\ Exists(puller.v) /\ puller.sha = pkg[puller.v].sha
      BY <1>3 DEF GetDownloadURL, PrInv, RoundIsOfRow
    <3>2. p \in PullerRec /\ p.pc = "download" /\ p.v = puller.v /\ p.sha = puller.sha
      BY <1>0 DEF PullerPC
    <3>3. puller' = p
      BY <2>1
    <3> HIDE DEF p
    <3> QED
      BY <1>0, <1>3, <3>1, <3>2, <3>3, PullKeeps DEF GetDownloadURL
  <2>2. CASE puller' = RoundOver
    BY <1>0, <1>3, <2>2, PullKeeps DEF GetDownloadURL
  <2> QED
    BY <1>3, <2>1, <2>2 DEF GetDownloadURL
<1>4. CASE Download
  <2>1. CASE puller' = [puller EXCEPT !.pc = "verify", !.tmp = object[puller.v]]
    <3> DEFINE p == [puller EXCEPT !.pc = "verify", !.tmp = object[puller.v]]
    <3>1. puller.v \in Version /\ Exists(puller.v) /\ puller.sha = pkg[puller.v].sha
      BY <1>4 DEF Download, PrInv, RoundIsOfRow
    <3>2. p \in PullerRec /\ p.pc = "verify" /\ p.v = puller.v /\ p.sha = puller.sha
      BY <1>0, <3>1 DEF PullerRec, PullerPC, PrInv, PrTypes
    <3>3. puller' = p
      BY <2>1
    <3> HIDE DEF p
    <3> QED
      BY <1>0, <1>4, <3>1, <3>2, <3>3, PullKeeps DEF Download
  <2>2. CASE puller' = RoundOver
    BY <1>0, <1>4, <2>2, PullKeeps DEF Download
  <2> QED
    BY <1>4, <2>1, <2>2 DEF Download
<1>5. CASE Install
  <2>1. CASE Verified(puller)
    <3>1. /\ puller' = [puller EXCEPT !.pc = "manifest"] /\ installed' = puller.tmp
          /\ puller.pc = "verify" /\ UNCHANGED <<keys, manifest, pluginFaults>> /\ SameRegistry
      BY <1>5, <2>1 DEF Install
    <3>2. /\ puller.tmp = puller.sha /\ puller.v \in Version /\ Exists(puller.v)
          /\ puller.sha = pkg[puller.v].sha /\ puller.tmp \in SomeBinary
      BY <1>0, <2>1, <3>1 DEF Verified, PrInv, RoundIsOfRow, PullerRec
    <3>3. RoundIsOfRow'
      BY <1>0, <3>1, <3>2 DEF RoundIsOfRow, SameRegistry, Exists, PullerPC
    <3>4. InstalledVerified'
      BY <1>0, <3>1, <3>2 DEF InstalledVerified, SameRegistry, PullerPC
    <3> QED
      BY <1>0, <3>1, <3>2, <3>3, <3>4, AgentKeeps DEF PullerPC, PrInv, PrTypes
  <2>2. CASE ~Verified(puller)
    BY <1>0, <1>5, <2>2, PullKeeps DEF Install
  <2> QED
    BY <2>1, <2>2
<1>6. CASE PutManifest
  <2> DEFINE e == [v |-> puller.v, sha |-> puller.tmp]
  <2>1. /\ puller.pc = "manifest" /\ puller' = RoundOver /\ SameRegistry
        /\ UNCHANGED <<keys, installed>>
        /\ \/ manifest' = [mem |-> e, disk |-> e] /\ UNCHANGED pluginFaults
           \/ manifest' = [manifest EXCEPT !.mem = e] /\ PluginFault
    BY <1>6 DEF PutManifest
  <2>2. e \in ManifestEntry /\ e.sha = installed
    BY <1>0, <2>1 DEF ManifestEntry, PullerRec, PrInv, RoundIsOfRow
  <2> HIDE DEF e
  <2>3. /\ manifest' \in [mem : ManifestEntry, disk : ManifestEntry]
        /\ manifest'.mem = e
    BY <2>1, <2>2 DEF PrInv, PrTypes
  <2>4. RoundIsOfRow'
    BY <1>0, <2>1 DEF RoundIsOfRow
  <2>5. InstalledVerified'
    BY <2>1, <2>2, <2>3 DEF PrInv, InstalledVerified, SameRegistry
  <2> QED
    BY <1>0, <2>1, <2>3, <2>4, <2>5, AgentKeeps DEF PrInv, PrTypes
<1>7. CASE PullFails
  BY <1>0, <1>7, PullKeeps DEF PullFails
<1>8. CASE AgentRestarts
  <2>1. /\ puller' = RoundOver /\ keys' = {} /\ SameRegistry /\ PluginFault /\ UNCHANGED installed
        /\ manifest' = [manifest EXCEPT !.mem = manifest.disk]
    BY <1>8 DEF AgentRestarts
  <2>2. manifest' \in [mem : ManifestEntry, disk : ManifestEntry]
    BY <2>1 DEF PrInv, PrTypes
  <2>3. RoundIsOfRow'
    BY <1>0, <2>1 DEF RoundIsOfRow
  <2>4. InstalledVerified'
    BY <1>0, <2>1 DEF PrInv, InstalledVerified, SameRegistry
  <2> QED
    BY <1>0, <2>1, <2>2, <2>3, <2>4, AgentKeeps DEF PrInv, PrTypes
<1> QED
  BY <1>1, <1>2, <1>3, <1>4, <1>5, <1>6, <1>7, <1>8 DEF PullerStep

LEMMA PrStep == PrInv /\ [PrNext]_prVars => PrInv'
<1>1. PrInv /\ UNCHANGED prVars => PrInv'
  BY DEF prVars, PrInv, PrTypes, RowsHaveBinary, RoundIsOfRow, InstalledVerified, Exists
<1> QED
  BY <1>1, UploadsKeep, RowsKeep, PullerKeeps DEF PrNext

\* What is installed is what some package was uploaded with, although uploads
\* overwrite and remove the object that is being downloaded
\* (agent/pluginpuller, pluginpkg/service.go UploadPackage).
THEOREM OnlyVerifiedInstalled == PrSpec => []InstalledVerified
<1>1. PrInv => InstalledVerified
  BY DEF PrInv
<1> QED
  BY <1>1, PrInitInv, PrStep, PTL DEF PrSpec

LEMMA PrTyped == PrInv => PrTypeOK
BY DEF PrInv, PrTypes, PkgRow, UploadCall, PullerRec, PullerPC, SomeBinary, PrTypeOK

-----------------------------------------------------------------------------
(***************************************************************************)
(* The types of the three components that have their invariants elsewhere, *)
(* or that need none.                                                      *)
(***************************************************************************)
NfBounds ==
  /\ \A a \in Agent : /\ issued[a] <= MaxCerts[a]
                      /\ expired[a] \in Nat /\ expired[a] <= issued[a]
  /\ DOMAIN expired = Agent
  /\ beat \in [Agent -> {"none", "waited", "left"}]

LEMMA NfBoundsStep == NfInv /\ NfBounds /\ [NfNext]_nfVars => NfBounds'
<1> SUFFICES ASSUME NfInv, NfBounds, [NfNext]_nfVars PROVE NfBounds'
  OBVIOUS
<1>0. issued \in [Agent -> Nat] /\ MaxCerts \in [Agent -> Nat]
  BY FleetAssumption DEF NfInv, NfTypes
<1>1. ASSUME UNCHANGED <<issued, expired>>, beat' \in [Agent -> {"none", "waited", "left"}]
      PROVE  NfBounds'
  BY <1>1 DEF NfBounds
<1>2. ASSUME NEW a \in Agent,
             \/ StartEnrolled(a) \/ (\E t \in Token : Redeem(a, t)) \/ MarkUsed(a) \/ InsertNode(a)
             \/ SaveFile(a) \/ SaveFails(a) \/ RevokeCert(a) \/ Renew(a) \/ RenewFails(a)
             \/ AgentDies(a) \/ EnableNode(a) \/ DisableNode(a) \/ DeleteNode(a)
      PROVE  NfBounds'
  BY <1>1, <1>2
     DEF StartEnrolled, Redeem, MarkUsed, InsertNode, SaveFile, SaveFails, RevokeCert, Renew,
         RenewFails, AgentDies, EnableNode, DisableNode, DeleteNode, SetStatus, SameCerts, NfBounds
<1>3. ASSUME NEW a \in Agent, HeartbeatCheck(a) \/ TouchLastSeen(a) \/ AgentStops(a)
      PROVE  NfBounds'
  BY <1>1, <1>3 DEF HeartbeatCheck, TouchLastSeen, AgentStops, SameCerts, NfBounds
<1>4. ASSUME NEW a \in Agent, SignCert(a) PROVE NfBounds'
  BY <1>0, <1>4 DEF SignCert, NfBounds
<1>5. ASSUME NEW a \in Agent, CertExpires(a) PROVE NfBounds'
  BY <1>0, <1>5 DEF CertExpires, NfBounds
<1>6. ASSUME NEW t \in Token, ExpireToken(t) \/ RevokeToken(t) PROVE NfBounds'
  BY <1>1, <1>6 DEF ExpireToken, RevokeToken, SameCerts, NfBounds
<1>7. CASE UNCHANGED nfVars
  BY <1>7 DEF nfVars, NfBounds
<1> QED
  BY <1>2, <1>3, <1>4, <1>5, <1>6, <1>7 DEF NfNext

LEMMA NfTyped == NfInv /\ NfBounds => NfTypeOK
<1> SUFFICES ASSUME NfInv, NfBounds PROVE NfTypeOK
  OBVIOUS
<1>1. ASSUME NEW a \in Agent
      PROVE  /\ agent[a].pc \in AgentPC /\ agent[a].file \in File /\ agent[a].client \in Nat
             /\ issued[a] \in Nat /\ MaxCerts[a] \in Nat /\ disk[a][PrivateKey] \in Nat
  BY Files, FleetAssumption DEF NfInv, NfTypes, AgentRec
<1>2. ASSUME NEW a \in Agent
      PROVE  /\ \A f \in File : disk[a][f] <= issued[a]
             /\ disk[a][PrivateKey] <= issued[a] /\ agent[a].client <= disk[a][PrivateKey]
  BY Files DEF NfInv, FilesInOrder, FilesOf
<1>3. ASSUME NEW a \in Agent PROVE issued[a] \in 0..MaxCerts[a] /\ agent[a].client <= issued[a]
  BY <1>1, <1>2 DEF NfBounds
<1> QED
  BY <1>1, <1>2, <1>3 DEF NfInv, NfTypes, NfBounds, NfTypeOK

PnStatuses ==
  /\ project \in {"active", "archived", "deleted"}
  /\ nodeRow \in [ProjectNode -> {"online", "away", "deleted"}]

LEMMA PnStatusesStep == PnStatuses /\ [PnNext]_pnVars => PnStatuses'
<1> SUFFICES ASSUME PnStatuses, [PnNext]_pnVars PROVE PnStatuses'
  OBVIOUS
<1>1. ASSUME NEW s \in SetCall,
             \/ \E ids \in (SUBSET ProjectNode) \ {{}} : SetBegin(s, ids)
             \/ DeleteAllowed(s) \/ CommitAllowed(s) \/ SetFails(s)
      PROVE  PnStatuses'
  BY <1>1 DEF SetBegin, DeleteAllowed, CommitAllowed, SetFails, SameTasks, PnStatuses
<1>2. ASSUME NEW c \in CreateCall,
             CreateTask(c) \/ GetAllowed(c) \/ ListOnline(c) \/ InsertBulk(c) \/ DispatchFails(c)
      PROVE  PnStatuses'
  BY <1>2 DEF CreateTask, GetAllowed, ListOnline, InsertBulk, DispatchFails, SameRest, PnStatuses
<1>3. CASE ClearAll \/ UNCHANGED pnVars
  BY <1>3 DEF ClearAll, SameTasks, pnVars, PnStatuses
<1>4. ASSUME NEW status \in {"active", "archived", "deleted"}, ChangeProject(status)
      PROVE  PnStatuses'
  BY <1>4 DEF ChangeProject, PnStatuses
<1>5. ASSUME NEW n \in ProjectNode, NEW status \in {"online", "away", "deleted"},
             ChangeNode(n, status)
      PROVE  PnStatuses'
  BY <1>5 DEF ChangeNode, PnStatuses
<1> QED
  BY <1>1, <1>2, <1>3, <1>4, <1>5 DEF PnNext

LEMMA PnTyped == PnInv /\ PnStatuses => PnTypeOK
BY DEF PnInv, RowInv, RowTypes, WhitelistRow, TaskInv, PnStatuses, PnTypeOK

-----------------------------------------------------------------------------
(***************************************************************************)
(* Every plan covers what was named (TargetPlan), for addresses of any     *)
(* size, any number of items and nodes and any limit.  Of the expansion:   *)
(* as long as the limit is kept to, the list has all that was named so     *)
(* far, and it is never longer than what was named; so that a full list,   *)
(* a block cut short or a range left early means that the limit is         *)
(* exceeded.  Of the slicing: the end of the k-th shard as a formula.      *)
(***************************************************************************)

\* Where the k-th shard ends.
ShardEnd(n, m, k) == k * (n \div m) + (IF k <= n % m THEN k ELSE n % m)

LEMMA Division ==
  ASSUME NEW n \in Nat, NEW m \in Nat \ {0}
  PROVE  /\ n \div m \in Nat /\ n % m \in 0..(m - 1)
         /\ n = m * (n \div m) + (n % m)
         /\ n >= m => n \div m > 0
  BY Z3

LEMMA Distributive ==
  ASSUME NEW k \in Nat, NEW l \in Nat, NEW b \in Nat
  PROVE  (k + l) * b = k * b + l * b /\ k * b \in Nat /\ l * b \in Nat
  OBVIOUS

LEMMA ShardEnds ==
  ASSUME NEW n \in Nat, NEW m \in Nat \ {0}
  PROVE  /\ \A k \in 0..m : ShardEnd(n, m, k) \in 0..n
         /\ ShardEnd(n, m, 0) = 0 /\ ShardEnd(n, m, m) = n
         /\ \A k \in 1..m : ShardEnd(n, m, k) = ShardEnd(n, m, k - 1) + ShardSize(n, m, k)
         /\ \A k, l \in 0..m : k <= l => ShardEnd(n, m, k) <= ShardEnd(n, m, l)
<1> DEFINE b == n \div m
           x == n % m
<1>1. b \in Nat /\ x \in 0..(m - 1) /\ n = m * b + x
  BY Division
<1>2. \A k, l \in 0..m : k <= l => ShardEnd(n, m, k) <= ShardEnd(n, m, l)
  <2> SUFFICES ASSUME NEW k \in 0..m, NEW l \in 0..m, k <= l
               PROVE  ShardEnd(n, m, k) <= ShardEnd(n, m, l)
    OBVIOUS
  <2>1. k * b <= l * b /\ k * b \in Nat /\ l * b \in Nat
    <3>1. k \in Nat /\ l - k \in Nat /\ k + (l - k) = l
      OBVIOUS
    <3>2. (k + (l - k)) * b = k * b + (l - k) * b /\ k * b \in Nat /\ (l - k) * b \in Nat
      BY <1>1, <3>1, Distributive
    <3> HIDE DEF b
    <3> QED
      BY <3>1, <3>2
  <2> HIDE DEF b, x
  <2> QED
    BY <1>1, <2>1 DEF ShardEnd, b, x
<1>3. ShardEnd(n, m, 0) = 0 /\ ShardEnd(n, m, m) = n
  BY <1>1 DEF ShardEnd
<1>4. \A k \in 0..m : ShardEnd(n, m, k) \in 0..n
  <2> SUFFICES ASSUME NEW k \in 0..m PROVE ShardEnd(n, m, k) \in 0..n
    OBVIOUS
  <2>1. ShardEnd(n, m, k) \in Nat
    <3>1. k * b \in Nat
      BY <1>1
    <3> QED
      BY <1>1, <3>1 DEF ShardEnd
  <2>2. ShardEnd(n, m, k) <= ShardEnd(n, m, m)
    BY <1>2
  <2> QED
    BY <1>3, <2>1, <2>2
<1>5. \A k \in 1..m : ShardEnd(n, m, k) = ShardEnd(n, m, k - 1) + ShardSize(n, m, k)
  <2> SUFFICES ASSUME NEW k \in 1..m
               PROVE  ShardEnd(n, m, k) = ShardEnd(n, m, k - 1) + ShardSize(n, m, k)
    OBVIOUS
  <2>1. k * b = (k - 1) * b + b
    <3>1. \A c \in Nat : (c + 1) * b = c * b + 1 * b
      BY <1>1, Distributive
    <3>2. b \in Nat /\ k - 1 \in Nat /\ (k - 1) + 1 = k
      BY <1>1
    <3> HIDE DEF b
    <3> QED
      BY <3>1, <3>2
  <2> QED
    BY <1>1, <2>1 DEF ShardEnd, ShardSize
<1> QED
  BY <1>2, <1>3, <1>4, <1>5

LEMMA ItemFacts ==
  ASSUME NEW item \in Item, ~RangeReversed(item)
  PROVE  /\ item.kind \in {"host", "ip", "cidr", "range"}
         /\ ItemCount(item) \in Nat \ {0}
         /\ item.kind = "cidr" => ItemCount(item) = CIDRCount(item)
         /\ Single(item) => ItemCount(item) = 1
<1>1. Addr \subseteq Nat
  BY PlanAssumption DEF Addr
<1>2. CASE item \in [kind : {"host"}, host : HostName]
  BY <1>2 DEF ItemCount, Single
<1>3. CASE item \in [kind : {"ip"}, addr : Addr]
  BY <1>3 DEF ItemCount, Single
<1>4. CASE item \in [kind : {"cidr"}, addr : Addr, ones : 0..AddrBits]
  <2>1. item.kind = "cidr" /\ AddrBits - item.ones \in 0..AddrBits
    BY <1>4, PlanAssumption
  <2>2. CIDRCount(item) \in Nat \ {0}
    BY <2>1, PlanAssumption DEF CIDRCount
  <2> QED
    BY <2>1, <2>2 DEF ItemCount, Single
<1>5. CASE item \in [kind : {"range"}, addr : Addr, last : Addr]
  BY <1>1, <1>5 DEF ItemCount, Single, RangeReversed
<1> QED
  BY <1>2, <1>3, <1>4, <1>5 DEF Item

LEMMA WalkFacts ==
  ASSUME NEW item \in Item, ~RangeReversed(item), limit \in Nat \ {0}
  PROVE  /\ Walk(item) \in 1..ItemCount(item)
         /\ Walk(item) < ItemCount(item) => item.kind = "cidr" /\ Walk(item) = limit
BY ItemFacts DEF Walk

LEMMA NothingCut ==
  \A n \in Nat, m \in Nat \ {0} :
    /\ 0 = ShardEnd(n, m, 0)
    /\ 0 = IF n \div m > 0 THEN 0 ELSE IF 0 <= n % m THEN 0 ELSE n % m
<1> SUFFICES ASSUME NEW n \in Nat, NEW m \in Nat \ {0}
             PROVE  0 = ShardEnd(n, m, 0) /\ 0 <= n % m
  OBVIOUS
<1>1. n % m \in 0..(m - 1)
  BY Division
<1>2. ShardEnd(n, m, 0) = 0
  BY ShardEnds
<1> QED
  BY <1>1, <1>2

(* ---- the expansion ---- *)

ExpansionTypes ==
  /\ raw \in Seq(Item) /\ limit \in 1..MaxExpansion
  /\ expansion \in [pc : {"items", "done", "invalid"}, item : Nat \ {0}, walked : Nat,
                    out : Seq(AllNamed), total : Nat, truncated : BOOLEAN]
  /\ expansion.item <= Len(raw) + 1

\* No more of an item is walked than it stands for.
Walking ==
  expansion.walked > 0 =>
    /\ expansion.item <= Len(raw) /\ ~RangeReversed(Current)
    /\ expansion.walked <= Walk(Current)

Distinct ==
  \A i, j \in DOMAIN expansion.out : expansion.out[i] = expansion.out[j] => i = j

\* The list is not longer than what has been named, nor than the limit.
Bounded ==
  Len(expansion.out) <= limit /\ Len(expansion.out) <= expansion.total + expansion.walked

\* As long as the limit is kept to, nothing that was named is missing; and
\* what says that something is cut off only does so beyond the limit.
Missed == expansion.total + expansion.walked > limit
NothingMissed ==
  ~Missed => /\ \A i \in 1..(expansion.item - 1) : NamedBy(raw[i]) \subseteq Seen
             /\ \A j \in 1..expansion.walked : ItemTarget(Current, j) \in Seen
TruncatedRightly ==
  /\ expansion.truncated => Missed
  /\ expansion.pc = "done" =>
       /\ expansion.item = Len(raw) + 1
       /\ expansion.total > limit => expansion.truncated

ExpansionInv ==
  ExpansionTypes /\ Walking /\ Distinct /\ Bounded /\ NothingMissed /\ TruncatedRightly

LEMMA ExpansionInit ==
  ASSUME raw \in Seq(Item), limit \in 1..MaxExpansion, TpIdle
  PROVE  ExpansionInv
<1>1. /\ expansion.pc = "items" /\ expansion.item = 1 /\ expansion.walked = 0
      /\ expansion.out = <<>> /\ expansion.total = 0 /\ expansion.truncated = FALSE
  BY DEF TpIdle
<1>2. Len(raw) \in Nat /\ <<>> \in Seq(AllNamed)
  OBVIOUS
<1>3. ExpansionTypes
  BY <1>1, <1>2 DEF ExpansionTypes, TpIdle
<1> QED
  BY <1>1, <1>3, PlanAssumption
     DEF ExpansionInv, Walking, Distinct, Bounded, NothingMissed, TruncatedRightly

LEMMA EmitKeeps == ExpansionInv /\ Emit => ExpansionInv'
<1> SUFFICES ASSUME ExpansionInv, Emit PROVE ExpansionInv'
  OBVIOUS
<1> DEFINE e == expansion
           target == ItemTarget(Current, e.walked + 1)
           wanted == target \notin Seen
           full == ~NotFull
<1>1. /\ raw \in Seq(Item) /\ limit \in Nat \ {0} /\ Len(raw) \in Nat
      /\ e.item \in 1..Len(raw) /\ e.walked \in Nat /\ e.total \in Nat
      /\ e.out \in Seq(AllNamed) /\ Len(e.out) \in Nat /\ e.pc = "items"
  BY DEF ExpansionInv, ExpansionTypes, Emit, Expanding
<1>2. Current \in Item /\ ~RangeReversed(Current) /\ e.walked + 1 <= Walk(Current)
  <2>1. Current \in Item /\ ~RangeReversed(Current) /\ e.walked < Walk(Current)
    BY <1>1 DEF Current, Emit, MoreToWalk
  <2>2. Walk(Current) \in Nat
    BY <1>1, <2>1, WalkFacts
  <2> QED
    BY <1>1, <2>1, <2>2
<1>3. /\ Walk(Current) \in 1..ItemCount(Current) /\ ItemCount(Current) \in Nat
      /\ Single(Current) => ItemCount(Current) = 1
  BY <1>1, <1>2, ItemFacts, WalkFacts
<1>4. target \in AllNamed
  <2>1. e.walked + 1 \in 1..ItemCount(Current)
    BY <1>1, <1>2, <1>3
  <2>2. target \in NamedBy(raw[e.item])
    BY <2>1 DEF NamedBy, Current
  <2>3. e.item \in DOMAIN raw
    BY <1>1
  <2> QED
    BY <2>2, <2>3 DEF AllNamed
<1>5. /\ e' = [e EXCEPT !.walked = e.walked + 1,
                        !.out = IF wanted /\ ~full THEN Append(e.out, target) ELSE e.out,
                        !.truncated = e.truncated \/ (Single(Current) /\ wanted /\ full)]
      /\ UNCHANGED <<raw, limit>>
  BY DEF Emit
<1>6. /\ e'.walked = e.walked + 1 /\ e'.pc = e.pc /\ e'.item = e.item /\ e'.total = e.total
      /\ e'.out = IF wanted /\ ~full THEN Append(e.out, target) ELSE e.out
      /\ e'.truncated = (e.truncated \/ (Single(Current) /\ wanted /\ full))
  BY <1>5 DEF ExpansionInv, ExpansionTypes
<1>7. Current' = Current /\ AllNamed' = AllNamed
  BY <1>5, <1>6 DEF Current, AllNamed
<1>8. ExpansionTypes'
  <2>1. e'.out \in Seq(AllNamed)
    BY <1>1, <1>4, <1>6
  <2>2. e'.truncated \in BOOLEAN
    BY <1>6
  <2> HIDE DEF target, wanted, full
  <2>3. e' = [pc |-> e.pc, item |-> e.item, walked |-> e.walked + 1, out |-> e'.out,
              total |-> e.total, truncated |-> e'.truncated]
    BY <1>5, <1>6 DEF ExpansionInv, ExpansionTypes
  <2>4. e' \in [pc : {"items", "done", "invalid"}, item : Nat \ {0}, walked : Nat,
                out : Seq(AllNamed), total : Nat, truncated : BOOLEAN]
    BY <1>1, <2>1, <2>2, <2>3
  <2> QED
    BY <1>1, <1>5, <1>6, <1>7, <2>4 DEF ExpansionInv, ExpansionTypes
<1>9. Walking'
  BY <1>1, <1>2, <1>5, <1>6, <1>7 DEF Walking, RangeReversed, Walk, ItemCount, CIDRCount
<1>10. /\ Seen' = IF wanted /\ ~full THEN Seen \cup {target} ELSE Seen
       /\ Seen \subseteq Seen'
  <2> HIDE DEF target, wanted, full
  <2>1. CASE wanted /\ ~full
    <3>1. e'.out = Append(e.out, target)
      BY <1>6, <2>1
    <3>2. /\ DOMAIN e'.out = 1..(Len(e.out) + 1) /\ e'.out[Len(e.out) + 1] = target
          /\ DOMAIN e.out = 1..Len(e.out) /\ \A i \in 1..Len(e.out) : e'.out[i] = e.out[i]
      BY <1>1, <1>4, <3>1
    <3>3. \A v : v \in Seen <=> \E i \in 1..Len(e.out) : e.out[i] = v
      BY <3>2 DEF Seen
    <3>4. \A v : v \in Seen' <=> \E i \in 1..(Len(e.out) + 1) : e'.out[i] = v
      BY <3>2 DEF Seen
    <3>5. \A i : i \in 1..(Len(e.out) + 1) <=> i \in 1..Len(e.out) \/ i = Len(e.out) + 1
      BY <1>1
    <3>6. \A v : v \in Seen' <=> v \in Seen \/ v = target
      BY <3>2, <3>3, <3>4, <3>5
    <3> QED
      BY <2>1, <3>6
  <2>2. CASE ~(wanted /\ ~full)
    BY <1>6, <2>2 DEF Seen
  <2> QED
    BY <2>1, <2>2
<1>11. Distinct'
  BY <1>1, <1>6 DEF ExpansionInv, Distinct, Seen
<1>12. Bounded'
  BY <1>1, <1>5, <1>6 DEF ExpansionInv, Bounded, NotFull
<1>13. NothingMissed'
  <2> SUFFICES ASSUME ~Missed'
               PROVE  /\ \A i \in 1..(e.item - 1) : NamedBy(raw[i]) \subseteq Seen'
                      /\ \A j \in 1..(e.walked + 1) : ItemTarget(Current, j) \in Seen'
    BY <1>5, <1>6, <1>7 DEF NothingMissed, NamedBy, ItemTarget, ItemCount, CIDRBase, CIDRCount
  <2>1. ~Missed /\ ~full
    BY <1>1, <1>5, <1>6 DEF Missed, ExpansionInv, Bounded, NotFull
  <2>2. target \in Seen'
    BY <1>10, <2>1
  <2>3. /\ \A i \in 1..(e.item - 1) : NamedBy(raw[i]) \subseteq Seen
        /\ \A j \in 1..e.walked : ItemTarget(Current, j) \in Seen
    BY <2>1 DEF ExpansionInv, NothingMissed
  <2>4. \A j \in 1..(e.walked + 1) : j \in 1..e.walked \/ j = e.walked + 1
    BY <1>1
  <2> QED
    BY <1>10, <2>2, <2>3, <2>4
<1>14. TruncatedRightly'
  <2>1. ASSUME e.truncated PROVE Missed'
    BY <1>1, <1>5, <1>6, <2>1 DEF ExpansionInv, TruncatedRightly, Missed
  <2>2. ASSUME full PROVE Missed'
    BY <1>1, <1>5, <1>6, <2>2 DEF ExpansionInv, Bounded, Missed, NotFull
  <2>3. e'.truncated => Missed'
    BY <1>6, <2>1, <2>2
  <2> QED
    BY <1>1, <1>6, <2>3 DEF TruncatedRightly
<1> QED
  BY <1>8, <1>9, <1>11, <1>12, <1>13, <1>14 DEF ExpansionInv

LEMMA EndItemKeeps == ExpansionInv /\ EndItem => ExpansionInv'
<1> SUFFICES ASSUME ExpansionInv, EndItem PROVE ExpansionInv'
  OBVIOUS
<1> DEFINE e == expansion
           count == ItemCount(Current)
<1>1. /\ raw \in Seq(Item) /\ limit \in Nat \ {0} /\ Len(raw) \in Nat
      /\ e.item \in 1..Len(raw) /\ e.walked \in Nat /\ e.total \in Nat
      /\ e.out \in Seq(AllNamed) /\ Len(e.out) \in Nat /\ e.pc = "items"
  BY DEF ExpansionInv, ExpansionTypes, EndItem, Expanding
<1>2. Current \in Item /\ ~RangeReversed(Current)
  BY <1>1 DEF Current, EndItem
<1>3. /\ count \in Nat \ {0} /\ Walk(Current) \in 1..count
      /\ Walk(Current) < count => Current.kind = "cidr" /\ Walk(Current) = limit
  BY <1>1, <1>2, ItemFacts, WalkFacts
<1>4. /\ e' = [e EXCEPT !.item = e.item + 1, !.walked = 0, !.total = e.total + count,
                        !.truncated = \/ e.truncated
                                      \/ (~Single(Current) /\ count > e.walked)
                                      \/ (Current.kind = "range" /\ e.total + count > limit)]
      /\ UNCHANGED <<raw, limit>>
  BY DEF EndItem
<1>5. /\ e'.item = e.item + 1 /\ e'.walked = 0 /\ e'.total = e.total + count /\ e'.pc = e.pc
      /\ e'.out = e.out
      /\ e'.truncated = (\/ e.truncated \/ (~Single(Current) /\ count > e.walked)
                         \/ (Current.kind = "range" /\ e.total + count > limit))
  BY <1>4 DEF ExpansionInv, ExpansionTypes
<1>6. e.walked <= count
  BY <1>1, <1>3 DEF ExpansionInv, Walking
\* A target that is not walked is beyond the limit.
<1>7. count > e.walked => e.total + count > limit
  <2>1. CASE e.walked = Walk(Current)
    BY <1>1, <1>3, <2>1
  <2>2. CASE e.walked # Walk(Current)
    <3>1. e.walked < Walk(Current)
      BY <1>1, <1>3, <2>2 DEF ExpansionInv, Walking
    <3>2. ~NotFull
      BY <3>1 DEF EndItem, MoreToWalk
    <3> QED
      BY <1>1, <1>3, <3>2 DEF NotFull, ExpansionInv, Bounded
  <2> QED
    BY <2>1, <2>2
<1>8. AllNamed' = AllNamed /\ Seen' = Seen
  BY <1>4, <1>5 DEF AllNamed, Seen
<1>9. ExpansionTypes'
  <2>1. e'.truncated \in BOOLEAN
    BY <1>5
  <2> HIDE DEF count
  <2>2. e' = [pc |-> e.pc, item |-> e.item + 1, walked |-> 0, out |-> e.out,
              total |-> e.total + count, truncated |-> e'.truncated]
    BY <1>4, <1>5 DEF ExpansionInv, ExpansionTypes
  <2>3. e' \in [pc : {"items", "done", "invalid"}, item : Nat \ {0}, walked : Nat,
                out : Seq(AllNamed), total : Nat, truncated : BOOLEAN]
    BY <1>1, <1>3, <2>1, <2>2
  <2> QED
    BY <1>1, <1>4, <1>5, <1>8, <2>3 DEF ExpansionInv, ExpansionTypes
<1>10. Walking' /\ Distinct'
  BY <1>5 DEF ExpansionInv, Walking, Distinct
<1>11. Bounded'
  <2> HIDE DEF count
  <2> QED
    BY <1>1, <1>3, <1>4, <1>5, <1>6 DEF ExpansionInv, Bounded
<1>12. Missed' <=> e.total + count > limit
  <2> HIDE DEF count
  <2> QED
    BY <1>1, <1>3, <1>4, <1>5 DEF Missed
<1>13. NothingMissed'
  <2> SUFFICES ASSUME ~Missed'
               PROVE  \A i \in 1..e.item : NamedBy(raw[i]) \subseteq Seen
    <3>1. \A i : NamedBy(raw[i])' = NamedBy(raw[i])
      BY <1>4 DEF NamedBy, ItemTarget, ItemCount, CIDRBase, CIDRCount
    <3>2. e'.item - 1 = e.item
      BY <1>1, <1>5
    <3>3. e'.walked = 0
      BY <1>5
    <3> QED
      BY <1>4, <1>8, <3>1, <3>2, <3>3 DEF NothingMissed
  <2>1. e.walked = count /\ ~Missed
    <3> HIDE DEF count
    <3> QED
      BY <1>1, <1>3, <1>6, <1>7, <1>12 DEF Missed
  <2>2. /\ \A i \in 1..(e.item - 1) : NamedBy(raw[i]) \subseteq Seen
        /\ \A j \in 1..count : ItemTarget(Current, j) \in Seen
    BY <2>1 DEF ExpansionInv, NothingMissed
  <2>3. NamedBy(raw[e.item]) \subseteq Seen
    BY <2>2 DEF NamedBy, Current
  <2>4. \A i \in 1..e.item : i \in 1..(e.item - 1) \/ i = e.item
    BY <1>1
  <2> QED
    BY <2>2, <2>3, <2>4
<1>14. TruncatedRightly'
  <2>1. ASSUME e.truncated PROVE Missed'
    <3>1. Missed
      BY <2>1 DEF ExpansionInv, TruncatedRightly
    <3> HIDE DEF count
    <3> QED
      BY <1>1, <1>3, <1>6, <1>12, <3>1 DEF Missed
  <2>2. e'.truncated => Missed'
    BY <1>5, <1>7, <1>12, <2>1
  <2> QED
    BY <1>1, <1>5, <2>2 DEF TruncatedRightly
<1> QED
  BY <1>9, <1>10, <1>11, <1>13, <1>14 DEF ExpansionInv

LEMMA EndExpansionKeeps == ExpansionInv /\ EndExpansion => ExpansionInv'
<1> SUFFICES ASSUME ExpansionInv, EndExpansion PROVE ExpansionInv'
  OBVIOUS
<1> DEFINE e == expansion
<1>1. /\ limit \in Nat \ {0} /\ Len(raw) \in Nat /\ e.item = Len(raw) + 1 /\ e.total \in Nat
      /\ e.walked = 0 /\ e.out \in Seq(AllNamed)
  BY DEF ExpansionInv, ExpansionTypes, EndExpansion, Walking
<1>2. /\ e' = [e EXCEPT !.pc = "done", !.truncated = e.truncated \/ e.total > limit]
      /\ UNCHANGED <<raw, limit>>
  BY DEF EndExpansion
<1>3. /\ e'.item = e.item /\ e'.walked = e.walked /\ e'.total = e.total /\ e'.out = e.out
      /\ e'.pc = "done" /\ e'.truncated = (e.truncated \/ e.total > limit)
  BY <1>2 DEF ExpansionInv, ExpansionTypes
<1>4. AllNamed' = AllNamed /\ Seen' = Seen /\ (Missed' <=> Missed)
  BY <1>2, <1>3 DEF AllNamed, Seen, Missed
<1>5. ExpansionTypes'
  <2>1. e' = [pc |-> "done", item |-> e.item, walked |-> e.walked, out |-> e.out,
              total |-> e.total, truncated |-> e'.truncated]
    BY <1>2, <1>3 DEF ExpansionInv, ExpansionTypes
  <2>2. e'.truncated \in BOOLEAN
    BY <1>3
  <2>3. e' \in [pc : {"items", "done", "invalid"}, item : Nat \ {0}, walked : Nat,
                out : Seq(AllNamed), total : Nat, truncated : BOOLEAN]
    BY <1>1, <2>1, <2>2
  <2> QED
    BY <1>1, <1>2, <1>3, <1>4, <2>3 DEF ExpansionInv, ExpansionTypes
<1>6. Walking' /\ Distinct' /\ Bounded'
  BY <1>1, <1>2, <1>3 DEF ExpansionInv, Walking, Distinct, Bounded
<1>7. NothingMissed'
  <2>1. \A i : NamedBy(raw[i])' = NamedBy(raw[i])
    BY <1>2 DEF NamedBy, ItemTarget, ItemCount, CIDRBase, CIDRCount
  <2>2. 1..e'.walked = {}
    BY <1>1, <1>3
  <2> QED
    BY <1>2, <1>3, <1>4, <2>1, <2>2 DEF ExpansionInv, NothingMissed
<1>8. TruncatedRightly'
  <2>1. e.truncated \/ e.total > limit => Missed
    BY <1>1 DEF ExpansionInv, TruncatedRightly, Missed
  <2> QED
    BY <1>1, <1>2, <1>3, <1>4, <2>1 DEF TruncatedRightly
<1> QED
  BY <1>5, <1>6, <1>7, <1>8 DEF ExpansionInv

LEMMA RefuseItemKeeps == ExpansionInv /\ RefuseItem => ExpansionInv'
<1> SUFFICES ASSUME ExpansionInv, RefuseItem PROVE ExpansionInv'
  OBVIOUS
<1> DEFINE e == expansion
<1>1. e' = [e EXCEPT !.pc = "invalid"] /\ UNCHANGED <<raw, limit>>
  BY DEF RefuseItem
<1>2. /\ e'.item = e.item /\ e'.walked = e.walked /\ e'.total = e.total /\ e'.out = e.out
      /\ e'.pc = "invalid" /\ e'.truncated = e.truncated
  BY <1>1 DEF ExpansionInv, ExpansionTypes
<1>3. AllNamed' = AllNamed /\ Seen' = Seen /\ (Missed' <=> Missed) /\ Current' = Current
  BY <1>1, <1>2 DEF AllNamed, Seen, Missed, Current
<1>4. ExpansionTypes'
  BY <1>1, <1>2, <1>3 DEF ExpansionInv, ExpansionTypes
<1>5. Walking' /\ Distinct' /\ Bounded'
  BY <1>1, <1>2, <1>3
     DEF ExpansionInv, Walking, Distinct, Bounded, RangeReversed, Walk, ItemCount, CIDRCount
<1>6. NothingMissed'
  BY <1>1, <1>2, <1>3
     DEF ExpansionInv, NothingMissed, NamedBy, ItemTarget, ItemCount, CIDRBase, CIDRCount
<1>7. TruncatedRightly'
  BY <1>2, <1>3 DEF ExpansionInv, TruncatedRightly
<1> QED
  BY <1>4, <1>5, <1>6, <1>7 DEF ExpansionInv

LEMMA ExpansionStep == ExpansionInv /\ [TpNext]_tpVars => ExpansionInv'
<1> SUFFICES ASSUME ExpansionInv, [TpNext]_tpVars PROVE ExpansionInv'
  OBVIOUS
<1>1. CASE UNCHANGED <<raw, limit, expansion>>
  <2>1. AllNamed' = AllNamed /\ Seen' = Seen /\ (Missed' <=> Missed) /\ Current' = Current
    BY <1>1 DEF AllNamed, Seen, Missed, Current
  <2>2. ExpansionTypes'
    BY <1>1, <2>1 DEF ExpansionInv, ExpansionTypes
  <2>3. Walking' /\ Distinct' /\ Bounded'
    BY <1>1, <2>1
       DEF ExpansionInv, Walking, Distinct, Bounded, RangeReversed, Walk, ItemCount, CIDRCount
  <2>4. NothingMissed'
    BY <1>1, <2>1
       DEF ExpansionInv, NothingMissed, NamedBy, ItemTarget, ItemCount, CIDRBase, CIDRCount
  <2>5. TruncatedRightly'
    BY <1>1, <2>1 DEF ExpansionInv, TruncatedRightly
  <2> QED
    BY <2>2, <2>3, <2>4, <2>5 DEF ExpansionInv
<1>2. AcceptTargets \/ CutShard \/ EndDispatch \/ UNCHANGED tpVars
      => UNCHANGED <<raw, limit, expansion>>
  BY DEF AcceptTargets, CutShard, EndDispatch, tpVars
<1> QED
  BY <1>1, <1>2, EmitKeeps, EndItemKeeps, EndExpansionKeeps, RefuseItemKeeps DEF TpNext

LEMMA PreviewIsTruthful == ExpansionInv => PreviewTruthful
<1> SUFFICES ASSUME ExpansionInv, expansion.pc = "done"
             PROVE  /\ Seen \subseteq AllNamed /\ Len(expansion.out) <= limit
                    /\ expansion.truncated <=> (expansion.total > limit)
                    /\ ~expansion.truncated => Seen = AllNamed
  BY DEF PreviewTruthful
<1>1. /\ expansion.item = Len(raw) + 1 /\ Len(raw) \in Nat /\ expansion.total \in Nat
      /\ expansion.walked = 0 /\ limit \in Nat /\ expansion.out \in Seq(AllNamed)
      /\ DOMAIN raw = 1..Len(raw)
  BY DEF ExpansionInv, ExpansionTypes, TruncatedRightly, Walking
<1>2. expansion.truncated <=> (expansion.total > limit)
  BY <1>1 DEF ExpansionInv, TruncatedRightly, Missed
<1>3. Seen \subseteq AllNamed
  BY <1>1 DEF Seen
<1>4. ASSUME ~expansion.truncated PROVE AllNamed \subseteq Seen
  <2>1. ~Missed
    BY <1>1, <1>2, <1>4 DEF Missed
  <2>2. \A i \in 1..Len(raw) : NamedBy(raw[i]) \subseteq Seen
    BY <1>1, <2>1 DEF ExpansionInv, NothingMissed
  <2> QED
    BY <1>1, <2>2 DEF AllNamed
<1> QED
  BY <1>2, <1>3, <1>4 DEF ExpansionInv, Bounded

(* ---- the slicing ---- *)

SlicingTypes ==
  /\ online \in 0..MaxOnline
  /\ slicing \in [pc : {"none", "refused", "cut", "done"}, next : Nat \ {0}, idx : Nat,
                   shards : Seq([from : Nat, to : Nat])]
  /\ slicing.next <= online + 1 /\ slicing.idx <= Len(expansion.out)

\* dispatch begins with an expansion that is over and was within the limit.
WithinLimit ==
  /\ slicing.pc # "none" => expansion.pc = "done"
  /\ slicing.pc \in {"cut", "done"} => expansion.total <= limit
  /\ slicing.pc \in {"none", "refused"} => slicing.next = 1 /\ slicing.idx = 0 /\ slicing.shards = <<>>
  /\ slicing.pc = "done" => slicing.next = online + 1

\* The shards cut so far: how many, where each of them lies, and that they leave
\* no gap.
ShardsCut ==
  LET n == Len(expansion.out)
      s == slicing.shards
      cut == slicing.next - 1 IN
  online > 0 =>
    /\ slicing.idx = ShardEnd(n, online, cut)
    /\ Len(s) = IF n \div online > 0 THEN cut ELSE IF cut <= n % online THEN cut ELSE n % online
    /\ \A i \in DOMAIN s : s[i] = [from |-> ShardEnd(n, online, i - 1), to |-> ShardEnd(n, online, i)]
    /\ \A p \in 1..slicing.idx : \E i \in DOMAIN s : p \in Window(s[i])

PlanInv == ExpansionInv /\ SlicingTypes /\ WithinLimit /\ ShardsCut

LEMMA PlanInit ==
  ASSUME raw \in Seq(Item), limit \in 1..MaxExpansion, TpIdle
  PROVE  PlanInv
<1>1. online = 0 /\ slicing = NotSliced /\ expansion.out = <<>>
  BY DEF TpIdle
<1>2. SlicingTypes
  BY <1>1, PlanAssumption DEF SlicingTypes, NotSliced
<1>3. WithinLimit /\ ShardsCut
  BY <1>1 DEF WithinLimit, ShardsCut, NotSliced
<1> QED
  BY <1>2, <1>3, ExpansionInit DEF PlanInv

LEMMA PlanInits == TpInit => PlanInv
<1> SUFFICES ASSUME TpInit PROVE PlanInv
  OBVIOUS
<1>1. PICK n \in 1..MaxItems : raw \in [1..n -> Item]
  BY DEF TpInit
<1>2. raw \in Seq(Item)
  BY <1>1, PlanAssumption
<1> QED
  BY <1>2, PlanInit DEF TpInit

LEMMA PlanExpands ==
  ASSUME PlanInv, Emit \/ EndItem \/ RefuseItem \/ EndExpansion
  PROVE  SlicingTypes' /\ WithinLimit' /\ ShardsCut'
<1>1. expansion.pc = "items" /\ UNCHANGED <<online, slicing, limit>>
  BY DEF Emit, EndItem, RefuseItem, EndExpansion, Expanding
<1>2. slicing.pc = "none" /\ slicing.next = 1 /\ slicing.idx = 0 /\ slicing.shards = <<>>
  BY <1>1 DEF PlanInv, SlicingTypes, WithinLimit
<1>3. Len(expansion.out)' \in Nat
  <2>1. ExpansionInv'
    BY ExpansionStep DEF PlanInv, TpNext
  <2> QED
    BY <2>1 DEF ExpansionInv, ExpansionTypes
<1>4. SlicingTypes' /\ WithinLimit'
  BY <1>1, <1>2, <1>3 DEF PlanInv, SlicingTypes, WithinLimit
<1>5. ShardsCut'
  <2> SUFFICES ASSUME online > 0
               PROVE  /\ 0 = ShardEnd(Len(expansion'.out), online, 0)
                      /\ 0 = IF Len(expansion'.out) \div online > 0 THEN 0
                             ELSE IF 0 <= Len(expansion'.out) % online THEN 0
                             ELSE Len(expansion'.out) % online
    BY <1>1, <1>2 DEF ShardsCut
  <2>1. online \in Nat \ {0}
    BY PlanAssumption DEF PlanInv, SlicingTypes
  <2> QED
    BY <1>3, <2>1, NothingCut
<1> QED
  BY <1>4, <1>5

LEMMA PlanAccepts == PlanInv /\ AcceptTargets => SlicingTypes' /\ WithinLimit' /\ ShardsCut'
<1> SUFFICES ASSUME PlanInv, AcceptTargets PROVE SlicingTypes' /\ WithinLimit' /\ ShardsCut'
  OBVIOUS
<1>1. /\ slicing.pc = "none" /\ slicing.next = 1 /\ slicing.idx = 0 /\ slicing.shards = <<>>
      /\ expansion.pc = "done" /\ UNCHANGED <<limit, expansion>>
      /\ expansion.total \in Nat /\ limit \in Nat /\ Len(expansion.out) \in Nat
  BY DEF PlanInv, AcceptTargets, WithinLimit, ExpansionInv, ExpansionTypes
<1>2. /\ slicing'.next = 1 /\ slicing'.idx = 0 /\ slicing'.shards = <<>>
      /\ slicing'.pc = IF expansion.total > limit THEN "refused" ELSE "cut"
      /\ online' \in 0..MaxOnline
  BY <1>1 DEF PlanInv, AcceptTargets, SlicingTypes
<1>3. SlicingTypes'
  <2>1. slicing' = [pc |-> slicing'.pc, next |-> 1, idx |-> 0, shards |-> <<>>]
    BY <1>1, <1>2 DEF PlanInv, AcceptTargets, SlicingTypes
  <2>2. slicing'.pc \in {"refused", "cut"} /\ <<>> \in Seq([from : Nat, to : Nat])
    BY <1>2
  <2>3. slicing' \in [pc : {"none", "refused", "cut", "done"}, next : Nat \ {0}, idx : Nat,
                      shards : Seq([from : Nat, to : Nat])]
    <3>1. 1 \in Nat \ {0} /\ 0 \in Nat
      OBVIOUS
    <3>2. PICK pc : pc \in {"refused", "cut"} /\ slicing'.pc = pc
      BY <2>2
    <3>3. slicing' = [pc |-> pc, next |-> 1, idx |-> 0, shards |-> <<>>]
      BY <2>1, <3>2
    <3>4. [pc |-> pc, next |-> 1, idx |-> 0, shards |-> <<>>]
            \in [pc : {"none", "refused", "cut", "done"}, next : Nat \ {0}, idx : Nat,
                shards : Seq([from : Nat, to : Nat])]
      BY <2>2, <3>1, <3>2
    <3> QED
      BY <3>3, <3>4
  <2>4. slicing'.next <= online' + 1 /\ slicing'.idx <= Len(expansion'.out)
    <3>1. online' \in Nat
      BY <1>2, PlanAssumption
    <3>2. Len(expansion'.out) \in Nat
      BY <1>1
    <3>3. slicing'.next = 1 /\ slicing'.idx = 0
      BY <1>2
    <3>4. 1 <= online' + 1
      <4>1. \A k \in Nat : 1 <= k + 1
        OBVIOUS
      <4> QED
        BY <3>1, <4>1
    <3>5. 0 <= Len(expansion'.out)
      BY <3>2
    <3> QED
      BY <3>3, <3>4, <3>5
  <2> QED
    BY <1>2, <2>3, <2>4 DEF SlicingTypes
<1>4. WithinLimit'
  BY <1>1, <1>2, PlanAssumption DEF WithinLimit
<1>5. ShardsCut'
  <2> SUFFICES ASSUME online' > 0
               PROVE  /\ 0 = ShardEnd(Len(expansion.out), online', 0)
                      /\ 0 = IF Len(expansion.out) \div online' > 0 THEN 0
                             ELSE IF 0 <= Len(expansion.out) % online' THEN 0
                             ELSE Len(expansion.out) % online'
    BY <1>1, <1>2 DEF ShardsCut
  <2>1. online' \in Nat \ {0}
    BY <1>2, PlanAssumption
  <2> QED
    BY <1>1, <2>1, NothingCut
<1> QED
  BY <1>3, <1>4, <1>5

LEMMA PlanCuts == PlanInv /\ CutShard => SlicingTypes' /\ WithinLimit' /\ ShardsCut'
<1> SUFFICES ASSUME PlanInv, CutShard PROVE SlicingTypes' /\ WithinLimit' /\ ShardsCut'
  OBVIOUS
<1> DEFINE n == Len(expansion.out)
           m == online
           k == slicing.next
           s == slicing.shards
           shard == [from |-> ShardEnd(n, m, k - 1), to |-> ShardEnd(n, m, k)]
<1>1. /\ n \in Nat /\ m \in Nat \ {0} /\ k \in 1..m /\ s \in Seq([from : Nat, to : Nat])
      /\ Len(s) \in Nat /\ UNCHANGED <<limit, online, expansion>> /\ slicing.pc = "cut"
  BY PlanAssumption DEF PlanInv, SlicingTypes, ExpansionInv, ExpansionTypes, CutShard
<1>2. /\ ShardEnd(n, m, k - 1) \in Nat /\ ShardEnd(n, m, k) \in 0..n
      /\ ShardEnd(n, m, k) = ShardEnd(n, m, k - 1) + ShardSize(n, m, k)
  <2>1. k - 1 \in 0..m /\ k \in 0..m
    BY <1>1
  <2>2. ShardEnd(n, m, k - 1) \in 0..n /\ ShardEnd(n, m, k) \in 0..n
    BY <1>1, <2>1, ShardEnds
  <2>3. ShardEnd(n, m, k) = ShardEnd(n, m, k - 1) + ShardSize(n, m, k)
    BY <1>1, ShardEnds
  <2> QED
    BY <2>2, <2>3
<1>3. n \div m \in Nat /\ n % m \in Nat
  <2>1. n \in Nat /\ m \in Nat \ {0}
    BY <1>1
  <2> HIDE DEF n, m
  <2>2. n \div m \in Nat /\ n % m \in 0..(m - 1)
    BY <2>1, Division
  <2> QED
    BY <2>2
<1>4. /\ slicing.idx = ShardEnd(n, m, k - 1)
      /\ Len(s) = IF n \div m > 0 THEN k - 1 ELSE IF k - 1 <= n % m THEN k - 1 ELSE n % m
      /\ \A i \in DOMAIN s : s[i] = [from |-> ShardEnd(n, m, i - 1), to |-> ShardEnd(n, m, i)]
      /\ \A p \in 1..slicing.idx : \E i \in DOMAIN s : p \in Window(s[i])
  BY <1>1 DEF PlanInv, ShardsCut
<1>5. ShardSize(n, m, k) = (n \div m) + (IF k <= n % m THEN 1 ELSE 0)
  BY DEF ShardSize
<1>6. /\ slicing' = [slicing EXCEPT !.next = k + 1, !.idx = ShardEnd(n, m, k),
                        !.shards = IF ShardEnd(n, m, k) = ShardEnd(n, m, k - 1) THEN s
                                   ELSE Append(s, shard)]
  <2>1. ShardSize(n, m, k) \in Nat
    BY <1>3, <1>5
  <2>2. (IF slicing.idx + ShardSize(n, m, k) > n THEN n ELSE slicing.idx + ShardSize(n, m, k))
          = ShardEnd(n, m, k)
    BY <1>1, <1>2, <1>4, <2>1
  <2> QED
    BY <1>4, <2>2 DEF CutShard
<1>7. /\ slicing'.next = k + 1 /\ slicing'.idx = ShardEnd(n, m, k) /\ slicing'.pc = "cut"
      /\ slicing'.shards = IF ShardEnd(n, m, k) = ShardEnd(n, m, k - 1) THEN s
                           ELSE Append(s, shard)
  BY <1>1, <1>6 DEF PlanInv, SlicingTypes
<1>8. slicing'.shards \in Seq([from : Nat, to : Nat])
  <2>1. shard \in [from : Nat, to : Nat]
    BY <1>2
  <2>2. Append(s, shard) \in Seq([from : Nat, to : Nat])
    BY <1>1, <2>1
  <2> HIDE DEF shard
  <2> QED
    BY <1>1, <1>7, <2>2
<1>9. SlicingTypes'
  <2>1. slicing' = [pc |-> "cut", next |-> k + 1, idx |-> ShardEnd(n, m, k),
                    shards |-> slicing'.shards]
    BY <1>6, <1>7 DEF PlanInv, SlicingTypes
  <2>2. k + 1 \in Nat \ {0} /\ ShardEnd(n, m, k) \in Nat /\ k + 1 <= m + 1
    BY <1>1, <1>2
  <2>3. slicing' \in [pc : {"none", "refused", "cut", "done"}, next : Nat \ {0}, idx : Nat,
                      shards : Seq([from : Nat, to : Nat])]
    BY <1>8, <2>1, <2>2
  <2> QED
    BY <1>1, <1>2, <1>7, <2>2, <2>3 DEF PlanInv, SlicingTypes
<1>10. WithinLimit'
  BY <1>1, <1>7 DEF PlanInv, WithinLimit
<1>11. /\ Len(slicing'.shards) = IF n \div m > 0 THEN k ELSE IF k <= n % m THEN k ELSE n % m
       /\ \A i \in DOMAIN slicing'.shards :
            slicing'.shards[i] = [from |-> ShardEnd(n, m, i - 1), to |-> ShardEnd(n, m, i)]
       /\ \A p \in 1..ShardEnd(n, m, k) :
            \E i \in DOMAIN slicing'.shards : p \in Window(slicing'.shards[i])
  <2>1. CASE ShardSize(n, m, k) = 0
    <3> HIDE DEF n, m, k, s, shard
    <3>1. slicing'.shards = s /\ ShardEnd(n, m, k) = slicing.idx
      BY <1>2, <1>4, <1>7, <2>1
    <3>2. n \div m = 0 /\ k > n % m
      BY <1>1, <1>3, <1>5, <2>1
    <3>3. Len(s) = n % m
      BY <1>1, <1>3, <1>4, <3>2
    <3> QED
      <4>1. ~(n \div m > 0) /\ ~(k <= n % m)
        BY <1>1, <1>3, <3>2
      <4> QED
        BY <1>4, <3>1, <3>3, <4>1
  <2>2. CASE ShardSize(n, m, k) # 0
    <3> HIDE DEF n, m, k, s, shard
    <3>1. slicing'.shards = Append(s, shard)
      BY <1>2, <1>3, <1>5, <1>7, <2>2
    <3>2. n \div m > 0 \/ k <= n % m
      BY <1>1, <1>3, <1>5, <2>2
    <3>3. Len(s) = k - 1
      BY <1>1, <1>3, <1>4, <3>2
    <3>4. /\ Len(slicing'.shards) = k /\ DOMAIN slicing'.shards = 1..k
          /\ slicing'.shards[k] = shard
          /\ DOMAIN s = 1..(k - 1) /\ \A i \in 1..(k - 1) : slicing'.shards[i] = s[i]
      <4>1. shard \in [from : Nat, to : Nat]
        BY <1>2 DEF shard
      <4> QED
        BY <1>1, <3>1, <3>3, <4>1
    <3>5. \A i \in 1..k : i \in 1..(k - 1) \/ i = k
      BY <1>1
    <3>6. \A p \in 1..ShardEnd(n, m, k) :
            p \in 1..ShardEnd(n, m, k - 1) \/ p \in (ShardEnd(n, m, k - 1) + 1)..ShardEnd(n, m, k)
      BY <1>2
    <3>7. ASSUME NEW p \in 1..ShardEnd(n, m, k)
          PROVE  \E i \in DOMAIN slicing'.shards : p \in Window(slicing'.shards[i])
      <4>1. CASE p \in 1..ShardEnd(n, m, k - 1)
        <5>1. PICK i \in DOMAIN s : p \in Window(s[i])
          BY <1>4, <4>1
        <5>2. i \in DOMAIN slicing'.shards /\ slicing'.shards[i] = s[i]
          BY <1>1, <3>4, <5>1
        <5> QED
          BY <5>1, <5>2
      <4>2. CASE p \in (ShardEnd(n, m, k - 1) + 1)..ShardEnd(n, m, k)
        <5>1. p \in Window(shard)
          BY <4>2 DEF Window, shard
        <5>2. k \in DOMAIN slicing'.shards
          BY <1>1, <3>4
        <5> QED
          BY <3>4, <5>1, <5>2
      <4> QED
        BY <3>6, <4>1, <4>2
    <3>8. \A i \in DOMAIN slicing'.shards :
            slicing'.shards[i] = [from |-> ShardEnd(n, m, i - 1), to |-> ShardEnd(n, m, i)]
      BY <1>4, <3>4, <3>5 DEF shard
    <3> QED
      BY <3>2, <3>4, <3>7, <3>8
  <2> QED
    BY <2>1, <2>2
<1>12. ShardsCut'
  <2>1. slicing'.next - 1 = k
    BY <1>1, <1>7
  <2> QED
    BY <1>1, <1>7, <1>11, <2>1 DEF ShardsCut
<1> QED
  BY <1>9, <1>10, <1>12

LEMMA PlanStep == PlanInv /\ [TpNext]_tpVars => PlanInv'
<1> SUFFICES ASSUME PlanInv, [TpNext]_tpVars PROVE PlanInv'
  OBVIOUS
<1>1. ExpansionInv'
  BY ExpansionStep DEF PlanInv
<1>2. CASE EndDispatch
  <2>1. /\ slicing' = [slicing EXCEPT !.pc = "done"] /\ UNCHANGED <<limit, online, expansion>>
        /\ slicing.pc = "cut" /\ slicing.next > online
    BY <1>2 DEF EndDispatch
  <2>2. /\ slicing'.next = slicing.next /\ slicing'.idx = slicing.idx
        /\ slicing'.shards = slicing.shards /\ slicing'.pc = "done"
    BY <2>1 DEF PlanInv, SlicingTypes
  <2>3. SlicingTypes'
    BY <2>1, <2>2 DEF PlanInv, SlicingTypes
  <2>4. WithinLimit'
    BY <2>1, <2>2, PlanAssumption DEF PlanInv, SlicingTypes, WithinLimit
  <2>5. ShardsCut'
    BY <2>1, <2>2 DEF PlanInv, ShardsCut
  <2> QED
    BY <1>1, <2>3, <2>4, <2>5 DEF PlanInv
<1>3. CASE UNCHANGED tpVars
  BY <1>1, <1>3 DEF tpVars, PlanInv, SlicingTypes, WithinLimit, ShardsCut
<1> QED
  BY <1>1, <1>2, <1>3, PlanExpands, PlanAccepts, PlanCuts DEF TpNext, PlanInv

LEMMA PlanKeepsToCode == PlanInv => PlanCovers /\ TpTypeOK
<1> SUFFICES ASSUME PlanInv PROVE PlanCovers /\ TpTypeOK
  OBVIOUS
<1>1. PreviewTruthful
  BY PreviewIsTruthful DEF PlanInv
<1>2. ShardsCover
  <2> SUFFICES ASSUME slicing.pc = "done", online > 0 PROVE ShardsCover
    BY DEF ShardsCover
  <2> DEFINE n == Len(expansion.out)
             m == online
             s == slicing.shards
             out == expansion.out
  <2>1. /\ n \in Nat /\ m \in Nat \ {0} /\ slicing.next = m + 1 /\ slicing.next - 1 = m
        /\ s \in Seq([from : Nat, to : Nat]) /\ DOMAIN out = 1..n /\ DOMAIN s = 1..Len(s)
        /\ expansion.pc = "done" /\ expansion.total <= limit
        /\ expansion.total \in Nat /\ limit \in Nat
    BY PlanAssumption DEF PlanInv, SlicingTypes, WithinLimit, ExpansionInv, ExpansionTypes
  <2>2. Seen = AllNamed
    BY <1>1, <2>1 DEF PreviewTruthful
  <2>3. /\ n \div m \in Nat /\ n % m \in 0..(m - 1) /\ (n >= m => n \div m > 0)
    BY <2>1, Division
  <2>4. /\ slicing.idx = n
        /\ Len(s) = IF n \div m > 0 THEN m ELSE IF m <= n % m THEN m ELSE n % m
        /\ \A i \in DOMAIN s : s[i] = [from |-> ShardEnd(n, m, i - 1), to |-> ShardEnd(n, m, i)]
        /\ \A p \in 1..slicing.idx : \E i \in DOMAIN s : p \in Window(s[i])
    <3>1. ShardEnd(n, m, m) = n
      BY <2>1, ShardEnds
    <3> QED
      BY <2>1, <3>1 DEF PlanInv, ShardsCut
  <2> HIDE DEF n, m, s, out
  <2>5. /\ Len(s) \in 0..m /\ (n >= m => Len(s) = m)
        /\ n \div m > 0 \/ Len(s) <= n % m
    BY <2>1, <2>3, <2>4
  <2>6. \A i \in DOMAIN s :
          /\ i \in 1..m /\ i - 1 \in 0..m /\ i \in 0..m
          /\ ShardEnd(n, m, i - 1) \in 0..n /\ ShardEnd(n, m, i) \in 0..n
          /\ Window(s[i]) = (ShardEnd(n, m, i - 1) + 1)..ShardEnd(n, m, i)
          /\ Size(s[i]) = ShardSize(n, m, i)
    <3> SUFFICES ASSUME NEW i \in DOMAIN s
                 PROVE  /\ i \in 1..m /\ i - 1 \in 0..m /\ i \in 0..m
                        /\ ShardEnd(n, m, i - 1) \in 0..n /\ ShardEnd(n, m, i) \in 0..n
                        /\ Window(s[i]) = (ShardEnd(n, m, i - 1) + 1)..ShardEnd(n, m, i)
                        /\ Size(s[i]) = ShardSize(n, m, i)
      OBVIOUS
    <3>1. i \in 1..m /\ i - 1 \in 0..m /\ i \in 0..m
      <4>1. i \in 1..Len(s) /\ Len(s) \in 0..m /\ m \in Nat
        BY <2>1, <2>5
      <4> QED
        BY <4>1
    <3>2. /\ ShardEnd(n, m, i - 1) \in 0..n /\ ShardEnd(n, m, i) \in 0..n
          /\ ShardEnd(n, m, i) = ShardEnd(n, m, i - 1) + ShardSize(n, m, i)
      BY <2>1, <3>1, ShardEnds
    <3>3. s[i].from = ShardEnd(n, m, i - 1) /\ s[i].to = ShardEnd(n, m, i)
      BY <2>4
    <3>4. ShardSize(n, m, i) \in Nat
      BY <2>3, <3>1 DEF ShardSize
    <3>5. Size(s[i]) = ShardSize(n, m, i)
      BY <3>2, <3>3, <3>4 DEF Size
    <3> QED
      BY <3>1, <3>2, <3>3, <3>5 DEF Window
  <2>7. \A i, j \in DOMAIN s : Size(s[i]) > 0 /\ Size(s[i]) <= Size(s[j]) + 1
    <3> SUFFICES ASSUME NEW i \in DOMAIN s, NEW j \in DOMAIN s
                 PROVE  ShardSize(n, m, i) > 0 /\ ShardSize(n, m, i) <= ShardSize(n, m, j) + 1
      BY <2>6
    <3>1. i \in 1..Len(s) /\ Len(s) \in Nat
      <4>1. i \in 1..Len(s)
        BY <2>1
      <4>2. Len(s) \in 0..m /\ m \in Nat
        BY <2>1, <2>5
      <4> QED
        BY <4>1, <4>2
    <3>2. n \div m \in Nat /\ n % m \in Nat
      BY <2>3
    <3>3. n \div m > 0 \/ i <= n % m
      BY <2>5, <3>1, <3>2
    <3> QED
      BY <3>2, <3>3 DEF ShardSize
  <2>8. \A i \in DOMAIN s : Window(s[i]) \subseteq 1..n
    <3>1. \A a, b \in 0..n : (a + 1)..b \subseteq 1..n
      BY <2>1
    <3> QED
      BY <2>6, <3>1
  <2>9. UNION {{out[p] : p \in Window(s[i])} : i \in DOMAIN s} = AllNamed
    <3>1. \A v : v \in AllNamed <=> \E p \in 1..n : out[p] = v
      BY <2>1, <2>2 DEF Seen, out
    <3>2. \A p \in 1..n : \E i \in DOMAIN s : p \in Window(s[i])
      BY <2>4
    <3>3. \A v : v \in UNION {{out[p] : p \in Window(s[i])} : i \in DOMAIN s}
                 <=> \E i \in DOMAIN s : \E p \in Window(s[i]) : out[p] = v
      OBVIOUS
    <3> QED
      BY <2>8, <3>1, <3>2, <3>3
  <2>10. \A i, j \in DOMAIN s : \A p \in Window(s[i]), q \in Window(s[j]) :
           out[p] = out[q] => i = j /\ p = q
    <3> SUFFICES ASSUME NEW i \in DOMAIN s, NEW j \in DOMAIN s,
                        NEW p \in Window(s[i]), NEW q \in Window(s[j]), out[p] = out[q]
                 PROVE  i = j /\ p = q
      OBVIOUS
    <3>1. p \in 1..n /\ q \in 1..n
      BY <2>8
    <3>2. p = q
      BY <2>1, <3>1 DEF PlanInv, ExpansionInv, Distinct, out
    <3>3. \A a, b \in DOMAIN s : a < b => ShardEnd(n, m, a) <= ShardEnd(n, m, b - 1)
      <4> SUFFICES ASSUME NEW a \in DOMAIN s, NEW b \in DOMAIN s, a < b
                   PROVE  ShardEnd(n, m, a) <= ShardEnd(n, m, b - 1)
        OBVIOUS
      <4>1. a \in 0..m /\ b - 1 \in 0..m /\ b \in 1..m /\ m \in Nat
        BY <2>1, <2>6
      <4>2. a <= b - 1
        BY <4>1
      <4> QED
        BY <2>1, <4>1, <4>2, ShardEnds
    <3>4. /\ ShardEnd(n, m, i - 1) < p /\ p <= ShardEnd(n, m, i)
          /\ ShardEnd(n, m, j - 1) < p /\ p <= ShardEnd(n, m, j)
          /\ ShardEnd(n, m, i - 1) \in Nat /\ ShardEnd(n, m, i) \in Nat
          /\ ShardEnd(n, m, j - 1) \in Nat /\ ShardEnd(n, m, j) \in Nat
          /\ p \in Nat /\ i \in Nat /\ j \in Nat
      <4>1. /\ p \in (ShardEnd(n, m, i - 1) + 1)..ShardEnd(n, m, i)
            /\ p \in (ShardEnd(n, m, j - 1) + 1)..ShardEnd(n, m, j)
        BY <2>6, <3>2
      <4>2. /\ ShardEnd(n, m, i - 1) \in Nat /\ ShardEnd(n, m, i) \in Nat
            /\ ShardEnd(n, m, j - 1) \in Nat /\ ShardEnd(n, m, j) \in Nat
        BY <2>6
      <4>3. i \in 1..m /\ j \in 1..m
        BY <2>6
      <4> QED
        BY <3>1, <4>1, <4>2, <4>3
    <3>5. ~(i < j) /\ ~(j < i)
      BY <3>3, <3>4
    <3> QED
      BY <3>2, <3>4, <3>5
  <2> QED
    BY <2>5, <2>7, <2>9, <2>10 DEF ShardsCover, n, m, s, out
<1>3. TpTypeOK
  <2>1. Len(raw) \in Nat /\ Len(expansion.out) \in Nat /\ online \in Nat
    BY PlanAssumption DEF PlanInv, SlicingTypes, ExpansionInv, ExpansionTypes
  <2> QED
    BY <2>1 DEF PlanInv, SlicingTypes, ExpansionInv, ExpansionTypes, Bounded, TpTypeOK
<1> QED
  BY <1>1, <1>2, <1>3 DEF PlanCovers

\* Whatever blocks and ranges overlap and whatever the limit: an accepted plan
\* has every target that was named on exactly one node, evenly, and a preview
\* says truthfully whether it was cut off.
THEOREM PlansCover == TpSpec => []PlanCovers
BY PlanInits, PlanStep, PlanKeepsToCode, PTL DEF TpSpec

-----------------------------------------------------------------------------
(***************************************************************************)
(* The run checks the components in one specification, in which a scene    *)
(* lets one of them move.  Each of them behaves there as its own           *)
(* specification says, so that what is proved of it holds of the run.      *)
(***************************************************************************)

LEMMA SceneSteps ==
  [Next]_vars => /\ [AcNext]_acVars /\ [IdNext]_idVars /\ [FwNext]_fwVars /\ [McNext]_mcVars
                 /\ [PrNext]_prVars /\ [NfNext]_nfVars /\ [TiNext]_tiVars /\ [TpNext]_tpVars
                 /\ [PnNext]_pnVars /\ [CeNext]_ceVars
<1> SUFFICES ASSUME [Next]_vars
             PROVE  /\ [AcNext]_acVars /\ [IdNext]_idVars /\ [FwNext]_fwVars /\ [McNext]_mcVars
                    /\ [PrNext]_prVars /\ [NfNext]_nfVars /\ [TiNext]_tiVars /\ [TpNext]_tpVars
                    /\ [PnNext]_pnVars /\ [CeNext]_ceVars
  OBVIOUS
<1>1. CASE InAudit(AcNext)
  BY <1>1 DEF InAudit
<1>2. CASE InIdentity(IdNext)
  BY <1>2 DEF InIdentity
<1>3. CASE InFindings(FwNext)
  BY <1>3 DEF InFindings
<1>4. CASE InMatcher(McNext)
  BY <1>4 DEF InMatcher
<1>5. CASE InPlugins(PrNext)
  BY <1>5 DEF InPlugins
<1>6. CASE InFleet(NfNext)
  BY <1>6 DEF InFleet
<1>7. CASE InTargets(TpNext)
  BY <1>7 DEF InTargets
<1>8. CASE InNodes(PnNext)
  BY <1>8 DEF InNodes
<1>9. CASE InInstances("cron", CronStep) \/ InInstances("continuous", ContinuousStep)
  BY <1>9 DEF InInstances, TiNext
<1>10. CASE InCerts(CeNext)
  BY <1>10 DEF InCerts
<1>11. CASE UNCHANGED vars
  BY <1>11 DEF vars
<1> QED
  BY <1>1, <1>2, <1>3, <1>4, <1>5, <1>6, <1>7, <1>8, <1>9, <1>10, <1>11 DEF Next

\* What the components keep beside what their own theorems need.
ServicesInv ==
  /\ AcBounds /\ IdInv /\ FailuresCounted /\ HistoryInv /\ FwBounds /\ McInv /\ McBounds
  /\ PrInv /\ NfInv /\ NfBounds /\ TiInv /\ PlanInv /\ PnInv /\ PnStatuses /\ CeInv

LEMMA ServicesInit == Init => ServicesInv
<1> SUFFICES ASSUME Init PROVE ServicesInv
  OBVIOUS
<1>1. AcBounds /\ IdInv /\ HistoryInv /\ McInv /\ PrInv /\ NfInv /\ TiInv /\ PnInv /\ CeInv
  BY AcInitBounds, IdInitInv, HistoryInit, McInitInv, PrInitInv, NfInitInv, TiInitInv, PnInitInv,
     CeInitInv DEF Init
<1>2. FailuresCounted
  <2>1. \A k \in Key : fails[k] = 0 /\ Cardinality(Counted(k)) \in Nat
    BY CountedFinite, IdentityAssumption, FS_CardinalityType DEF Init, IdInit
  <2>2. user.pwd = 1 /\ MaxPwd \in Nat \ {0}
    BY IdentityAssumption DEF Init, IdInit
  <2> QED
    BY <2>1, <2>2 DEF FailuresCounted
<1>3. FwBounds
  BY FindingAssumption DEF Init, FwInit, FwBounds, Unseen, FwIdle, CallPC
<1>4. McBounds
  BY MatcherAssumption DEF Init, McInit, McBounds, NoEntry, NotLoading, Builtin
<1>5. NfBounds
  BY FleetAssumption DEF Init, NfInit, NfBounds
<1>6. PnStatuses
  BY DEF Init, PnInit, PnStatuses
<1>7. PlanInv
  <2>1. CASE scene = "targets"
    BY <2>1, PlanInits DEF Init
  <2>2. CASE scene # "targets"
    BY <2>2, PlanAssumption, PlanInit DEF Init, NoTargets
  <2> QED
    BY <2>1, <2>2
<1> QED
  BY <1>1, <1>2, <1>3, <1>4, <1>5, <1>6, <1>7 DEF ServicesInv

LEMMA ServicesStep == ServicesInv /\ [Next]_vars => ServicesInv'
<1> SUFFICES ASSUME ServicesInv, [Next]_vars PROVE ServicesInv'
  OBVIOUS
<1>1. AcBounds' /\ HistoryInv' /\ FwBounds' /\ McInv' /\ McBounds' /\ PrInv'
  BY SceneSteps, AcBoundsStep, HistoryStep, FwBoundsStep, McStep, McBoundsStep, PrStep
     DEF ServicesInv
<1>2. IdInv' /\ FailuresCounted'
  <2>1. IdInv /\ FailuresCounted /\ [IdNext]_idVars
    BY SceneSteps DEF ServicesInv
  <2>2. IdInv'
    BY <2>1, IdStep
  <2>3. IdTypes /\ IdTypes'
    BY <2>1, <2>2 DEF IdInv
  <2> QED
    BY <2>1, <2>2, <2>3, CountsStep
<1>3. NfInv' /\ NfBounds' /\ TiInv' /\ PlanInv' /\ PnInv' /\ PnStatuses'
  BY SceneSteps, NfStep, NfBoundsStep, TiStep, PlanStep, PnStep, PnStatusesStep DEF ServicesInv
<1>4. CeInv'
  BY SceneSteps, CeStep DEF ServicesInv
<1> QED
  BY <1>1, <1>2, <1>3, <1>4 DEF ServicesInv

\* However the calls, sweeps, faults and restarts of the services interleave,
\* their rows, counters and local states keep to what the code can tell apart,
\* and each bound of the model to what it bounds.
THEOREM ServicesTypes == Spec => []ServicesTypeOK
<1>1. ServicesInv => ServicesTypeOK
  <2> SUFFICES ASSUME ServicesInv PROVE ServicesTypeOK
    OBVIOUS
  <2>1. IdTypeOK
    <3>1. IdInv /\ FailuresCounted
      BY DEF ServicesInv
    <3>2. \A k \in Key : fails[k] \in 0..Cardinality(Login)
      <4> SUFFICES ASSUME NEW k \in Key PROVE fails[k] \in 0..Cardinality(Login)
        OBVIOUS
      <4>1. fails[k] \in Nat /\ fails[k] <= Cardinality(Counted(k))
        BY <3>1 DEF FailuresCounted, IdInv, IdTypes
      <4>2. Cardinality(Counted(k)) \in 0..Cardinality(Login) /\ Cardinality(Login) \in Nat
        BY CountedFinite, IdentityAssumption, FS_CardinalityType
      <4> QED
        BY <4>1, <4>2
    <3> QED
      BY <3>1, <3>2 DEF IdInv, IdTypes, UserRow, VersionsBehind, FailuresCounted, IdTypeOK
  <2>2. CeTypeOK
    BY DEF ServicesInv, CeInv
  <2> QED
    BY <2>1, <2>2, AcTyped, FwTyped, McTyped, PrTyped, NfTyped, TiTyped, PnTyped, PlanKeepsToCode
       DEF ServicesInv, ServicesTypeOK
<1> QED
  BY <1>1, ServicesInit, ServicesStep, PTL DEF Spec

=============================================================================
