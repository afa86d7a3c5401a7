----------------------------- MODULE AuditChain -----------------------------
(***************************************************************************)
(* The audit log (internal/audit): one hash chain per tenant.  Log takes   *)
(* the tenant's mutex of this process, reads the hash of the latest row,   *)
(* stamps the new row with the clock, computes its hash and inserts it.    *)
(* VerifyChain reads the rows back and computes every hash again.          *)
(*                                                                         *)
(* A hash is the tuple of what went into it, so that equal hashes have     *)
(* equal inputs.  The column created_at is a TIMESTAMPTZ: it keeps         *)
(* microseconds, the clock the hash is computed from has nanoseconds.      *)
(* Two rows of one tenant are assumed to be stamped in different           *)
(* microseconds, by a clock that never goes back.                          *)
(***************************************************************************)
EXTENDS Naturals, Sequences, FiniteSets

CONSTANTS
  AuditTenant,
  Writer,        \* goroutines in Log
  TenantOf,      \* TenantOf[w]: the tenant w writes for
  MaxRows,       \* bound: rows per tenant
  Ticks          \* nanoseconds of the clock per microsecond of the column

ASSUME AuditAssumption ==
  /\ TenantOf \in [Writer -> AuditTenant]
  /\ MaxRows \in Nat /\ Ticks \in Nat \ {0}

VARIABLES
  log,        \* log[t]: rows of audit_logs of tenant t, in the order of created_at
  tenantMu,   \* tenantMu[t]: the goroutines that hold the mutex of t
  writer,     \* writer[w]: [pc, prev]
  clock       \* time.Now(), in nanoseconds

acVars == <<log, tenantMu, writer, clock>>

GenesisPrevHash == <<>>
WriterIdle == [pc |-> "idle", prev |-> GenesisPrevHash]

AcInit ==
  /\ log = [t \in AuditTenant |-> <<>>]
  /\ tenantMu = [t \in AuditTenant |-> {}]
  /\ writer = [w \in Writer |-> WriterIdle]
  /\ clock = 0

\* ComputeHash: the inputs, the previous hash and the time among them
ComputeHash(prev, t, at) == <<prev, t, at>>
\* What INSERT keeps of a time: TIMESTAMPTZ drops the nanoseconds.
Stored(at) == at - (at % Ticks)

\* A mutex per tenant and process; here there is one process.
LockFree(t) == TRUE
LockTenant(t) == tenantMu[t] = {}

LogBegin(w) ==
  LET t == TenantOf[w] IN
  /\ writer[w].pc = "idle" /\ Len(log[t]) + Cardinality(tenantMu[t]) < MaxRows
  /\ LockTenant(t)
  /\ tenantMu' = [tenantMu EXCEPT ![t] = @ \cup {w}]
  /\ writer' = [writer EXCEPT ![w].pc = "latest"]
  /\ UNCHANGED <<log, clock>>

\* ORDER BY created_at DESC LIMIT 1
LatestHash(t) == IF log[t] = <<>> THEN GenesisPrevHash ELSE log[t][Len(log[t])].hash
ReadLatest(w) ==
  /\ writer[w].pc = "latest"
  /\ writer' = [writer EXCEPT ![w] = [pc |-> "insert", prev |-> LatestHash(TenantOf[w])]]
  /\ UNCHANGED <<log, tenantMu, clock>>

Unlock(w) ==
  /\ writer' = [writer EXCEPT ![w] = WriterIdle]
  /\ tenantMu' = [tenantMu EXCEPT ![TenantOf[w]] = @ \ {w}]

\* s.now(), ComputeForLog, Insert, and the deferred unlock
InsertLog(w) ==
  LET t == TenantOf[w] IN
  /\ writer[w].pc = "insert"
  /\ \E nano \in 0..(Ticks - 1) : clock' = Stored(clock) + Ticks + nano
  /\ log' = [log EXCEPT ![t] = Append(@,
       [prev |-> writer[w].prev, at |-> Stored(clock'),
        hash |-> ComputeHash(writer[w].prev, t, clock')])]
  /\ Unlock(w)

\* LatestHash or Insert fails: logged by the caller, nothing is retried.
LogFails(w) ==
  /\ writer[w].pc # "idle"
  /\ Unlock(w) /\ UNCHANGED <<log, clock>>

\* The server process dies and is started again: the mutexes are gone too.
AuditProcessDies ==
  /\ \E w \in Writer : writer[w].pc # "idle"
  /\ writer' = [w \in Writer |-> WriterIdle]
  /\ tenantMu' = [t \in AuditTenant |-> {}]
  /\ UNCHANGED <<log, clock>>

AcNext ==
  \/ \E w \in Writer : LogBegin(w) \/ ReadLatest(w) \/ InsertLog(w) \/ LogFails(w)
  \/ AuditProcessDies

AcSpec == AcInit /\ [][AcNext]_acVars

\* VerifyChainSegment over the rows from .. to of tenant t, as they are read
\* back: each row links to the one before it, and each hash is computed again.
VerifyChainSegment(t, from, to) ==
  \A i \in from..to :
    LET row == log[t][i] IN
    /\ i > from => row.prev = log[t][i - 1].hash
    /\ row.hash = ComputeHash(row.prev, t, row.at)

(* ---- properties ---- *)

AcTypeOK ==
  /\ DOMAIN log = AuditTenant /\ \A t \in AuditTenant : Len(log[t]) <= MaxRows
  /\ tenantMu \in [AuditTenant -> SUBSET Writer]
  /\ \A w \in Writer : writer[w].pc \in {"idle", "latest", "insert"}
  /\ clock \in Nat

\* However goroutines of Log race, fail or die: the rows of a tenant are one
\* chain from the first on, each linked to the row before it and hashed with a
\* time that the column keeps as its created_at.
ChainContinues ==
  \A t \in AuditTenant : \A i \in 1..Len(log[t]) :
    LET row == log[t][i] IN
    /\ row.prev = IF i = 1 THEN GenesisPrevHash ELSE log[t][i - 1].hash
    /\ \E at \in row.at..(row.at + Ticks - 1) : row.hash = ComputeHash(row.prev, t, at)

\* VerifyChain finds no fault with rows that nobody changed, whichever writers
\* raced, failed or died, and whatever segment is verified (audit/service.go).
UntouchedChainVerifies ==
  \A t \in AuditTenant :
    \A from, to \in 1..Len(log[t]) : VerifyChainSegment(t, from, to)
=============================================================================
