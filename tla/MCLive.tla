------------------------------- MODULE MCLive -------------------------------
(* What must happen in the end: a behaviour is one of ScanTasks or one of    *)
(* ServerProcess, chosen by scene, each under its own fairness.              *)
EXTENDS ScanTasks, ServerProcess

VARIABLE scene
liveVars == <<scene, vars, serverVars>>

InTasks(A) == scene = "tasks" /\ A /\ UNCHANGED <<scene, serverVars>>
InProcess(A) == scene = "process" /\ A /\ UNCHANGED <<scene, vars>>

LiveInit == scene \in {"tasks", "process"} /\ Init /\ SrvInit
LiveNext == InTasks(Next) \/ InProcess(SrvNext)

\* Fairness and SrvFairness, in the scene they belong to
LiveFairness ==
  /\ \A p \in Pair : WF_liveVars(InTasks(Age(p))) /\ WF_liveVars(InTasks(SweepMark(p)))
  /\ WF_liveVars(InTasks(SweepList)) /\ WF_liveVars(InTasks(SweepEnd))
  /\ \A w \in Worker : WF_liveVars(InTasks(Aggregate(w)))
  /\ \A h \in Handler : WF_liveVars(InTasks(Serving(h)))
  /\ WF_liveVars(InProcess(MainStep))
  /\ \A a \in Activity : WF_liveVars(InProcess(RoundEnds(a) \/ LoopLeaves(a)))

LiveSpec == LiveInit /\ [][LiveNext]_liveVars /\ LiveFairness
=============================================================================
