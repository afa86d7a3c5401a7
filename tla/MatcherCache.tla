---------------------------- MODULE MatcherCache ----------------------------
(***************************************************************************)
(* The fingerprint rules of one tenant (internal/fingerprint): the rows in *)
(* the database, changed by the handlers of the rule API, and the entry of *)
(* TenantMatcher's cache, filled by the goroutines that match results.     *)
(* A change is numbered; 0 stands for the built-in rules alone.            *)
(***************************************************************************)
EXTENDS Integers

CONSTANTS
  Matcher,       \* goroutines in rulesFor
  TTL,           \* of an entry
  LoadTime,      \* assumption: from the SELECT to the store at most this long
  MaxRules,      \* bound: changes of the rules
  MaxTime        \* bound: the clock

ASSUME MatcherAssumption ==
  TTL \in Nat \ {0} /\ LoadTime \in Nat /\ MaxRules \in Nat \ {0} /\ MaxTime \in Nat

VARIABLES
  dbRules,       \* the latest change in custom_fingerprint_rules
  replacedAt,    \* replacedAt[v]: when change v was overtaken by the next one
  entry,         \* cache[tenant]: [cached, rules, loadedAt], and raced, a ghost
  loading,       \* loading[m]: [pc, rules, since], rules being what SELECT returned
  changing,      \* handlers between their write and Invalidate
  now

mcVars == <<dbRules, replacedAt, entry, loading, changing, now>>

Builtin == 0
NoEntry == [cached |-> FALSE, rules |-> Builtin, loadedAt |-> 0, raced |-> FALSE]
NotLoading == [pc |-> "idle", rules |-> Builtin, since |-> 0]

McInit ==
  /\ dbRules = 1 /\ replacedAt = [v \in 1..MaxRules |-> MaxTime + 1]
  /\ entry = NoEntry /\ loading = [m \in Matcher |-> NotLoading]
  /\ changing = 0 /\ now = 0

\* A hit: Match works with entry.rules.
FreshUpTo(t) == now - entry.loadedAt <= t
FreshFor(t) == now - entry.loadedAt < t
Hit == entry.cached /\ FreshFor(TTL)

\* The lock is released before the SELECT: every goroutine that misses loads.
ListEnabled(m) ==
  /\ loading[m].pc = "idle" /\ ~Hit
  /\ \E r \in {dbRules, Builtin} :    \* an error of the SELECT: built-in rules
       loading' = [loading EXCEPT ![m] = [pc |-> "listed", rules |-> r, since |-> now]]
  /\ UNCHANGED <<dbRules, replacedAt, entry, changing, now>>

Store(m) ==
  /\ loading[m].pc = "listed"
  /\ entry' = [cached |-> TRUE, rules |-> loading[m].rules, loadedAt |-> now,
               raced |-> loading[m].rules # dbRules]
  /\ loading' = [loading EXCEPT ![m] = NotLoading]
  /\ UNCHANGED <<dbRules, replacedAt, changing, now>>

\* Insert, SoftDelete, ToggleEnabled or the statements of an import, and the
\* Invalidate that follows.  The handler gives up when the statement reports an
\* error, though it may have been executed.
WriteRules(answered) ==
  /\ dbRules < MaxRules
  /\ dbRules' = dbRules + 1 /\ replacedAt' = [replacedAt EXCEPT ![dbRules] = now]
  /\ IF answered THEN changing' = changing + 1 /\ UNCHANGED entry
     ELSE entry' = [entry EXCEPT !.raced = TRUE] /\ UNCHANGED changing
  /\ UNCHANGED <<loading, now>>
DropEntry == NoEntry
Invalidate ==
  /\ changing > 0 /\ changing' = changing - 1
  /\ entry' = DropEntry
  /\ UNCHANGED <<dbRules, replacedAt, loading, now>>

Passes ==
  /\ now < MaxTime
  /\ \A m \in Matcher : loading[m].pc = "listed" => now - loading[m].since < LoadTime
  /\ now' = now + 1
  /\ UNCHANGED <<dbRules, replacedAt, entry, loading, changing>>

McNext ==
  \/ \E m \in Matcher : ListEnabled(m) \/ Store(m)
  \/ \E answered \in BOOLEAN : WriteRules(answered)
  \/ Invalidate \/ Passes
McSpec == McInit /\ [][McNext]_mcVars

(* ---- properties ---- *)

McTypeOK ==
  /\ dbRules \in 1..MaxRules /\ changing \in 0..MaxRules /\ now \in 0..MaxTime
  /\ DOMAIN replacedAt = 1..MaxRules /\ entry.rules \in 0..MaxRules /\ entry.loadedAt <= now
  /\ \A m \in Matcher : loading[m].pc \in {"idle", "listed"} /\ loading[m].since <= now

\* Rules that were overtaken are matched for the TTL, and the time their load
\* took, at the longest: also when Invalidate came before the store of a load
\* that had read the older rows, or did not come at all.
OutdatedAtMostTTL ==
  Hit /\ entry.rules \in 1..(dbRules - 1)
    => now < replacedAt[entry.rules] + LoadTime + TTL

\* After Invalidate, the old rules are matched only because of a load that was
\* under way, or of a change whose answer was lost.
InvalidatedUnlessRaced ==
  Hit /\ ~entry.raced /\ changing = 0 => entry.rules = dbRules

\* Both: a change of the rules takes effect at once, but for these races, and
\* in any case when the entry expires (fingerprint/tenant_matcher.go).
StalenessBounded == OutdatedAtMostTTL /\ InvalidatedUnlessRaced
=============================================================================
