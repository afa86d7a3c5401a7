---------------------------- MODULE ServerProcess ----------------------------
(***************************************************************************)
(* The server process (cmd/server/main.go) from the start of its first     *)
(* goroutine to its exit: the sweepers and the relay, which stop when ctx  *)
(* is cancelled, the two cron schedulers, the two servers, and what main   *)
(* waits for before it closes the connection pool.  One job stands for the *)
(* jobs of a scheduler, one request for the requests of a server.          *)
(***************************************************************************)
CONSTANT OtherSweeper   \* those of notifications, assets and continuous tasks

Scheduler == {"suite", "scan"}
Server == {"http", "agent"}
Loop == {"relay", "sweeper"} \cup OtherSweeper
Activity == Loop \cup Scheduler \cup Server

ASSUME OtherSweeperAssumption ==
  OtherSweeper \cap ({"relay", "sweeper"} \cup Scheduler \cup Server) = {}

VARIABLES
  main,       \* what main does next
  code,       \* exit code that main is about to return: none, ok, failed
  ctx,        \* live; done: SIGINT or SIGTERM has arrived
  act,        \* act[a]: off, idle, done, sql (holds a connection), busy (between two statements)
  accepting,  \* servers and schedulers that still begin new work
  pool        \* open, closing, closed

serverVars == <<main, code, ctx, act, accepting, pool>>

SrvInit ==
  /\ main = "boot" /\ code = "none" /\ ctx = "live" /\ pool = "open"
  /\ act = [a \in Activity |-> "off"] /\ accepting = {}

Spawned(S) == [a \in Activity |-> IF a \in S THEN "idle" ELSE act[a]]
MainAt(pc) == main' = pc /\ UNCHANGED code
Return(c) == main' = "return" /\ code' = c

StartLoops ==
  /\ main = "boot" /\ MainAt("agentServer")
  /\ act' = Spawned(Scheduler \cup (Loop \ {"relay"})) /\ accepting' = Scheduler
  /\ UNCHANGED <<ctx, pool>>

StartNodeAgentServer ==
  /\ main = "agentServer"
  /\ \/ MainAt("bootstrap") /\ act' = Spawned({"agent"}) /\ accepting' = accepting \cup {"agent"}
     \/ Return("failed") /\ UNCHANGED <<act, accepting>>
  /\ UNCHANGED <<ctx, pool>>

Bootstrap ==
  /\ main = "bootstrap"
  /\ \/ MainAt("listen") /\ act' = Spawned({"relay"})
     \/ Return("failed") /\ UNCHANGED act
  /\ UNCHANGED <<ctx, accepting, pool>>

Listen ==
  /\ main = "listen"
  /\ \/ MainAt("serve") /\ act' = Spawned({"http"}) /\ accepting' = accepting \cup {"http"}
     \/ MainAt("listenFailed") /\ UNCHANGED <<act, accepting>>
  /\ UNCHANGED <<ctx, pool>>

\* relayWG.Wait after a failed Listen
ListenFailed ==
  /\ main = "listenFailed" /\ act["relay"] = "done" /\ Return("failed")
  /\ UNCHANGED <<ctx, act, accepting, pool>>

ServerCrashed ==
  /\ main = "serve" /\ Return("failed") /\ accepting' = accepting \ {"http"}
  /\ UNCHANGED <<ctx, act, pool>>

ShutdownBegins ==
  /\ main = "serve" /\ ctx = "done" /\ MainAt("shutdown") /\ accepting' = accepting \ {"http"}
  /\ UNCHANGED <<ctx, act, pool>>

\* srv.Shutdown returns when no request is left, or after its timeout
Shutdown ==
  /\ main = "shutdown"
  /\ \/ act["http"] = "idle" /\ MainAt("agentShutdown") /\ accepting' = accepting \ {"agent"}
     \/ MainAt("shutdownFailed") /\ UNCHANGED accepting
  /\ UNCHANGED <<ctx, act, pool>>

ShutdownFailed ==
  /\ main = "shutdownFailed" /\ act["relay"] = "done" /\ Return("failed")
  /\ UNCHANGED <<ctx, act, accepting, pool>>

\* Its timeout is logged: requests of agents may be left.
AgentShutdown ==
  /\ main = "agentShutdown" /\ MainAt("relayWait")
  /\ UNCHANGED <<ctx, act, accepting, pool>>

RelayWait ==
  /\ main = "relayWait" /\ act["relay"] = "done" /\ MainAt("sweeperWait")
  /\ UNCHANGED <<ctx, act, accepting, pool>>

\* The end of main as it was before sweeperDone
SweeperNotAwaited ==
  /\ main = "sweeperWait" /\ Return("ok")
  /\ UNCHANGED <<ctx, act, accepting, pool>>
SweeperWait ==
  /\ main = "sweeperWait" /\ act["sweeper"] = "done" /\ Return("ok")
  /\ UNCHANGED <<ctx, act, accepting, pool>>

\* The deferred calls, last first: a scheduler's Stop waits for its jobs.
StopSuiteScheduler ==
  /\ main = "return" /\ MainAt("suiteWait") /\ accepting' = accepting \ {"suite"}
  /\ UNCHANGED <<ctx, act, pool>>

StopScanScheduler ==
  /\ main = "suiteWait" /\ act["suite"] = "idle"
  /\ MainAt("scanWait") /\ accepting' = accepting \ {"scan"}
  /\ UNCHANGED <<ctx, act, pool>>

\* From now on nobody gets a connection; Close waits for those in use.
ClosePool ==
  /\ main = "scanWait" /\ act["scan"] = "idle" /\ MainAt("close") /\ pool' = "closing"
  /\ UNCHANGED <<ctx, act, accepting>>

Exit ==
  /\ main = "close" /\ \A a \in Activity : act[a] # "sql"
  /\ MainAt("exited") /\ pool' = "closed"
  /\ UNCHANGED <<ctx, act, accepting>>

Signal == main # "exited" /\ ctx = "live" /\ ctx' = "done"
          /\ UNCHANGED <<main, code, act, accepting, pool>>

Becomes(a, from, to) ==
  /\ main # "exited" /\ act[a] = from /\ act' = [act EXCEPT ![a] = to]
  /\ UNCHANGED <<main, code, ctx, accepting, pool>>

\* A select that finds a tick as well as ctx.Done() and takes the tick is one
\* that took it just before the signal.
MayBegin(a) == a \in accepting \/ (a \in Loop /\ ctx = "live")
RoundBegins(a) == MayBegin(a) /\ Becomes(a, "idle", "busy")
Query(a) == pool = "open" /\ Becomes(a, "busy", "sql")
Answer(a) == Becomes(a, "sql", "busy")
\* With its last statement, or between two when one fails
RoundEnds(a) == Becomes(a, "busy", "idle") \/ Becomes(a, "sql", "idle")
\* A relay that was given another context than that of the signal
LoopLeavesButRelay(a) == a \in Loop \ {"relay"} /\ ctx = "done" /\ Becomes(a, "idle", "done")
LoopLeaves(a) == a \in Loop /\ ctx = "done" /\ Becomes(a, "idle", "done")

MainStep ==
  \/ StartLoops \/ StartNodeAgentServer \/ Bootstrap \/ Listen \/ ListenFailed
  \/ ShutdownBegins \/ Shutdown \/ ShutdownFailed \/ AgentShutdown \/ RelayWait \/ SweeperWait
  \/ StopSuiteScheduler \/ StopScanScheduler \/ ClosePool \/ Exit

SrvNext ==
  \/ MainStep \/ ServerCrashed \/ Signal
  \/ \E a \in Activity : RoundBegins(a) \/ Query(a) \/ Answer(a) \/ RoundEnds(a) \/ LoopLeaves(a)

\* A round, a job and a request have finitely many statements, each of which ends.
SrvFairness ==
  /\ WF_serverVars(MainStep)
  /\ \A a \in Activity : WF_serverVars(RoundEnds(a) \/ LoopLeaves(a))

SrvSpec == SrvInit /\ [][SrvNext]_serverVars
SrvFairSpec == SrvSpec /\ SrvFairness

(* ---- properties ---- *)

\* The pool closes for a main that is about to return, and cuts no job of a
\* scheduler, on whichever way main returns; after exit code 0 it cuts neither
\* the relay nor the stale sweeper nor a request of a user.
OrderlyClose ==
  pool # "open" =>
    /\ code \in {"ok", "failed"}
    /\ \A s \in Scheduler : act[s] = "idle"
    /\ code = "ok" => act["relay"] = "done" /\ act["sweeper"] = "done" /\ act["http"] = "idle"

\* Whenever a signal arrives, and whatever main is waiting for, the process ends.
SignalEnds == ctx = "done" ~> main = "exited"
=============================================================================
