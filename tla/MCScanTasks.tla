---------------------------- MODULE MCScanTasks ----------------------------
(* ScanTasks on two small instances, chosen by scene: one task whose two     *)
(* assignments are worked on by two handlers at once, or two tasks on one    *)
(* node, whose calls carry assignments of both, and one handler at a time.   *)
EXTENDS ScanTasks, TLC

VARIABLE scene
sceneVars == <<scene, vars>>

\* What a scene uses of Task, Node and Handler.
InScene ==
  IF scene = "race"
  THEN \A s, t \in Task : s = t \/ status[s] = "absent" \/ status[t] = "absent"
  ELSE /\ faults = 0
       /\ \A p, q \in Pair : p[2] = q[2] \/ asg[p] = "none" \/ asg[q] = "none"
       /\ \A g, h \in Handler : g = h \/ wk[g].pc = "idle" \/ wk[h].pc = "idle"

SceneInit == scene \in {"race", "batch"} /\ Init
SceneNext == Next /\ UNCHANGED scene /\ InScene'
SceneSpec == SceneInit /\ [][SceneNext]_sceneVars

\* No definition picks a handler, a node or a task.
Symmetry == Permutations(Handler) \cup Permutations(Node) \cup Permutations(Task)
=============================================================================
