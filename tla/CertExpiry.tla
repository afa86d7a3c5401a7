----------------------------- MODULE CertExpiry -----------------------------
(***************************************************************************)
(* The sweep over expiring certificates (internal/asset/repo/event_pg.go): *)
(* one certificate that the TLS scans of several projects have found, of   *)
(* one tenant or of several.  A sweep is one INSERT ... SELECT; it runs    *)
(* once in a round of asset_sweeper.go, and once more when the server      *)
(* starts.  Time is counted in rounds.                                     *)
(***************************************************************************)
EXTENDS Naturals, Sequences

CONSTANTS
  Project,
  NotAfter,       \* round in which the certificate expires
  ExpiryWindow,   \* CertExpiringWindow
  DedupeWindow,   \* CertExpiringDedupeWindow
  MaxEvents,      \* bound on the events of one project
  MaxMissed       \* bound on the rounds without a sweep

ASSUME ExpiryAssumption ==
  /\ {NotAfter, ExpiryWindow, DedupeWindow} \subseteq Nat \ {0}
  /\ MaxEvents \in Nat /\ MaxMissed \in Nat

VARIABLES
  round,
  swept,    \* the ticker has fired in this round
  seen,     \* seen[p]: round of p's first tls_scan result with the certificate
  told,     \* told[p]: created_at of p's cert_expiring_soon events
  missed    \* rounds whose sweep failed, or in which no server ran

ceVars == <<round, swept, seen, told, missed>>

Never == NotAfter + 1

CeInit ==
  /\ round = 0 /\ swept = FALSE /\ missed = 0
  /\ seen = [p \in Project |-> Never] /\ told = [p \in Project |-> <<>>]

TlsResult(p) ==
  /\ seen[p] = Never /\ round < NotAfter
  /\ seen' = [seen EXCEPT ![p] = round]
  /\ UNCHANGED <<round, swept, told, missed>>

\* not_after in (now, now + window]
Expiring == round < NotAfter /\ NotAfter <= round + ExpiryWindow

\* NOT EXISTS: an event with this fingerprint, whichever project it is of
EventsSince(age) == \E p \in Project : \E i \in DOMAIN told[p] : round < told[p][i] + age
EverTold == EventsSince(NotAfter)
RecentlyTold == EventsSince(DedupeWindow)

\* DISTINCT ON (tenant, project, fingerprint): one event for each project
ToTell == {p \in Project : Expiring /\ seen[p] # Never /\ ~RecentlyTold}

SweepCertsExpiring ==
  /\ swept' = TRUE
  /\ \A p \in ToTell : Len(told[p]) < MaxEvents
  /\ told' = [p \in Project |-> IF p \in ToTell THEN Append(told[p], round) ELSE told[p]]
  /\ UNCHANGED <<round, seen, missed>>

SweepMissed ==
  /\ ~swept /\ missed < MaxMissed /\ missed' = missed + 1 /\ swept' = TRUE
  /\ UNCHANGED <<round, seen, told>>

NextRound ==
  /\ swept /\ round < NotAfter
  /\ round' = round + 1 /\ swept' = FALSE
  /\ UNCHANGED <<seen, told, missed>>

CeNext ==
  (\E p \in Project : TlsResult(p)) \/ SweepCertsExpiring \/ SweepMissed \/ NextRound

CeSpec == CeInit /\ [][CeNext]_ceVars

(* ---- properties ---- *)

\* Types; an event is of a certificate that is still valid.
CeTypeOK ==
  /\ round \in 0..NotAfter /\ swept \in BOOLEAN /\ missed \in 0..MaxMissed
  /\ seen \in [Project -> 0..Never]
  /\ told \in [Project -> Seq(0..NotAfter - 1)]

\* The events of one project are DedupeWindow apart; who has known the
\* certificate for longer than that when it expires has an event.
Spaced(p) == \A i, j \in DOMAIN told[p] : i < j => told[p][i] + DedupeWindow <= told[p][j]
ToldBefore(p) == seen[p] + DedupeWindow < NotAfter => told[p] # <<>>

\* However often the server restarts and sweeps, and whichever projects find
\* the certificate meanwhile, no project is told twice within DedupeWindow, and
\* one that knew it for longer than DedupeWindow is told before it expires,
\* unless sweeps were missed (SweepCertsExpiring).
ExpiryToldInTime ==
  \A p \in Project : Spaced(p) /\ (round = NotAfter /\ missed = 0 => ToldBefore(p))
=============================================================================
