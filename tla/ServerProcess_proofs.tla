------------------------ MODULE ServerProcess_proofs ------------------------
(***************************************************************************)
(* The shutdown of cmd/server/main.go, for any number of other sweepers:   *)
(* what main has waited for stays that way until it closes the pool.       *)
(***************************************************************************)
EXTENDS ServerProcess, TLAPS

(***************************************************************************)
(* The stages of main.  Returning: its deferred calls run.  SuiteStopped,  *)
(* ScanStopped: Stop of that scheduler was called; SuiteDrained,           *)
(* ScanDrained: and returned.  Stopping: a signal was seen in the select.  *)
(***************************************************************************)
ScanDrained == {"close", "exited"}
SuiteDrained == {"scanWait"} \cup ScanDrained
SuiteStopped == {"suiteWait"} \cup SuiteDrained
Returning == {"return"} \cup SuiteStopped
HttpDrained == {"agentShutdown", "relayWait", "sweeperWait"}
Stopping == {"shutdown", "shutdownFailed"} \cup HttpDrained
MainPC ==
  {"boot", "agentServer", "bootstrap", "listen", "listenFailed", "serve"}
    \cup Stopping \cup Returning

ActivityState == {"off", "idle", "done", "sql", "busy"}

SrvTypeOK ==
  /\ main \in MainPC
  /\ code \in {"none", "ok", "failed"}
  /\ ctx \in {"live", "done"}
  /\ act \in [Activity -> ActivityState]
  /\ accepting \subseteq Scheduler \cup Server
  /\ pool \in {"open", "closing", "closed"}

\* main has an exit code exactly while its deferred calls run, and the pool
\* is closed by the last of them.
StageOfClose ==
  /\ pool # "open" <=> main \in ScanDrained
  /\ code # "none" <=> main \in Returning

\* A scheduler that was stopped begins no job, and once its Stop returned it
\* runs none.
SchedulersStopped ==
  /\ main \in SuiteStopped => "suite" \notin accepting
  /\ main \in SuiteDrained => "scan" \notin accepting /\ act["suite"] = "idle"
  /\ main \in ScanDrained => act["scan"] = "idle"

\* What the way out with exit code 0 has waited for, stage by stage.
OrderlySoFar ==
  /\ main \in Stopping \/ code = "ok" => ctx = "done" /\ "http" \notin accepting
  /\ main \in HttpDrained \/ code = "ok" => act["http"] = "idle"
  /\ main = "sweeperWait" \/ code = "ok" => act["relay"] = "done"
  /\ code = "ok" => act["sweeper"] = "done"

SrvInv == SrvTypeOK /\ StageOfClose /\ SchedulersStopped /\ OrderlySoFar

(***************************************************************************)
(* What one step of a sweeper, a scheduler or a server does to act: it     *)
(* moves a single activity, never one that is done, and an idle one only   *)
(* when it may begin or is a loop whose context ended.                     *)
(***************************************************************************)
ActivityStep(a) ==
  RoundBegins(a) \/ Query(a) \/ Answer(a) \/ RoundEnds(a) \/ LoopLeaves(a)

LEMMA ActivityStepEffect ==
  ASSUME SrvTypeOK, NEW a \in Activity, ActivityStep(a)
  PROVE  /\ UNCHANGED <<main, code, ctx, accepting, pool>>
         /\ act' \in [Activity -> ActivityState]
         /\ \A b \in Activity \ {a} : act'[b] = act[b]
         /\ act[a] # "done"
         /\ act[a] = "idle" => MayBegin(a) \/ a \in Loop
  BY DEF SrvTypeOK, ActivityStep, RoundBegins, Query, Answer, RoundEnds, LoopLeaves,
         Becomes, MayBegin, ActivityState

\* Schedulers and servers are no loops, whatever the other sweepers are called.
LEMMA NamesApart ==
  /\ {"suite", "scan", "http", "agent"} \subseteq Activity \ Loop
  /\ {"relay", "sweeper"} \subseteq Activity
  BY OtherSweeperAssumption DEF Activity, Loop, Scheduler, Server

LEMMA SrvInvInit == SrvInit => SrvInv
  BY DEF SrvInit, SrvInv, SrvTypeOK, StageOfClose, SchedulersStopped, OrderlySoFar,
         MainPC, Stopping, HttpDrained, Returning, SuiteStopped, SuiteDrained,
         ScanDrained, ActivityState

LEMMA SrvInvActivity ==
  ASSUME SrvInv, NEW a \in Activity, ActivityStep(a)
  PROVE  SrvInv'
<1>1. /\ UNCHANGED <<main, code, ctx, accepting, pool>>
      /\ act' \in [Activity -> ActivityState]
      /\ \A b \in Activity \ {a} : act'[b] = act[b]
      /\ act[a] # "done"
      /\ act[a] = "idle" => MayBegin(a) \/ a \in Loop
  BY ActivityStepEffect DEF SrvInv
<1>2. SrvTypeOK' /\ StageOfClose'
  BY <1>1 DEF SrvInv, SrvTypeOK, StageOfClose
<1>3. \A b \in Activity : act[b] = "done" => act'[b] = "done"
  BY <1>1
<1>4. \A b \in Activity \ Loop :
        b \notin accepting /\ act[b] = "idle" => act'[b] = "idle"
  BY <1>1 DEF MayBegin
<1>5. SchedulersStopped'
  BY <1>1, <1>4, NamesApart
     DEF SrvInv, SchedulersStopped, SuiteStopped, SuiteDrained, ScanDrained
<1>6. OrderlySoFar'
  BY <1>1, <1>3, <1>4, NamesApart DEF SrvInv, OrderlySoFar, Stopping
<1> QED BY <1>2, <1>5, <1>6 DEF SrvInv

LEMMA SrvInvMain ==
  ASSUME SrvInv, MainStep \/ ServerCrashed \/ Signal
  PROVE  SrvInv'
<1> USE DEF MainPC, Stopping, HttpDrained, Returning, SuiteStopped, SuiteDrained,
            ScanDrained
<1>1. SrvTypeOK /\ StageOfClose /\ SchedulersStopped /\ OrderlySoFar
  BY DEF SrvInv
<1>2. \A S : Spawned(S) \in [Activity -> ActivityState]
  BY <1>1 DEF SrvTypeOK, Spawned, ActivityState
<1>3. SrvTypeOK'
  BY <1>1, <1>2 DEF SrvTypeOK, Scheduler, Server, MainStep, ServerCrashed, Signal, MainAt, Return,
     StartLoops, StartNodeAgentServer, Bootstrap, Listen, ListenFailed,
     ShutdownBegins, Shutdown, ShutdownFailed, AgentShutdown, RelayWait, SweeperWait,
     StopSuiteScheduler, StopScanScheduler, ClosePool, Exit
<1>4. StageOfClose'
  BY <1>1 DEF StageOfClose, MainStep, ServerCrashed, Signal, MainAt, Return,
     StartLoops, StartNodeAgentServer, Bootstrap, Listen, ListenFailed,
     ShutdownBegins, Shutdown, ShutdownFailed, AgentShutdown, RelayWait, SweeperWait,
     StopSuiteScheduler, StopScanScheduler, ClosePool, Exit
<1>5. SchedulersStopped'
  BY <1>1 DEF SchedulersStopped, MainStep, ServerCrashed, Signal, MainAt, Return,
     StartLoops, StartNodeAgentServer, Bootstrap, Listen, ListenFailed,
     ShutdownBegins, Shutdown, ShutdownFailed, AgentShutdown, RelayWait, SweeperWait,
     StopSuiteScheduler, StopScanScheduler, ClosePool, Exit
<1>6. OrderlySoFar'
  BY <1>1 DEF StageOfClose, OrderlySoFar, MainStep, ServerCrashed, Signal, MainAt, Return,
     StartLoops, StartNodeAgentServer, Bootstrap, Listen, ListenFailed,
     ShutdownBegins, Shutdown, ShutdownFailed, AgentShutdown, RelayWait, SweeperWait,
     StopSuiteScheduler, StopScanScheduler, ClosePool, Exit
<1> QED BY <1>3, <1>4, <1>5, <1>6 DEF SrvInv

LEMMA SrvInvInvariant == SrvSpec => []SrvInv
<1>1. SrvInv /\ [SrvNext]_serverVars => SrvInv'
  <2> SUFFICES ASSUME SrvInv, [SrvNext]_serverVars PROVE SrvInv'
    OBVIOUS
  <2>1. CASE MainStep \/ ServerCrashed \/ Signal
    BY <2>1, SrvInvMain
  <2>2. CASE \E a \in Activity : ActivityStep(a)
    BY <2>2, SrvInvActivity
  <2>3. CASE UNCHANGED serverVars
    BY <2>3 DEF serverVars, SrvInv, SrvTypeOK, StageOfClose, SchedulersStopped, OrderlySoFar
  <2> QED BY <2>1, <2>2, <2>3 DEF SrvNext, ActivityStep
<1> QED BY <1>1, SrvInvInit, PTL DEF SrvSpec

\* The pool of the server closes only for a main that returns, after the jobs
\* of both schedulers, and after exit code 0 with the relay, the stale sweeper
\* and the requests of users behind it (main.go: the deferred calls, relayWG,
\* sweeperDone), however many other sweepers run.
THEOREM PoolClosesInOrder == SrvSpec => []OrderlyClose
<1>1. SrvInv => OrderlyClose
  BY DEF SrvInv, SrvTypeOK, StageOfClose, SchedulersStopped, OrderlySoFar, OrderlyClose,
         Scheduler, Returning, SuiteStopped, SuiteDrained, ScanDrained
<1> QED BY <1>1, SrvInvInvariant, PTL
=============================================================================
