----------------------------- MODULE MCServices -----------------------------
(* The services beside the scan core, one after the other: a behaviour is   *)
(* one of the component chosen by scene.  They share no variable, so that   *)
(* nothing is lost by not interleaving them.                                *)
EXTENDS AuditChain, IdentityLogin, FindingWorkflow, MatcherCache, TLC,
        PluginRegistry, NodeFleet, TaskInstances, TargetPlan, ProjectNodes,
        CertExpiry

CONSTANTS w1, w2, w3, t1, t2, a1, a2

\* Two writers of one tenant and one of another
WritersTenant == (w1 :> t1) @@ (w2 :> t1) @@ (w3 :> t2)
TwoFailuresLock == [k \in {"account", "ip"} |-> 2]
\* One agent lives through a renewal, the other only races for the tokens.
OneRenews == (a1 :> 2) @@ (a2 :> 0)

VARIABLE scene
vars == <<scene, acVars, idVars, fwVars, mcVars, prVars, nfVars, tiVars, tpVars, pnVars, ceVars>>

Scene == {"audit", "identity", "findings", "matcher", "plugins", "fleet", "cron",
         "continuous", "targets", "nodes", "certs"}

\* The targets are an input: elsewhere they are empty.
NoTargets == raw = <<>> /\ limit = 1 /\ TpIdle

Init ==
  /\ scene \in Scene
  /\ AcInit /\ IdInit /\ FwInit /\ McInit /\ PrInit /\ NfInit /\ TiInit /\ PnInit /\ CeInit
  /\ IF scene = "targets" THEN TpInit ELSE NoTargets

InAudit(A) ==
  /\ scene = "audit" /\ A
  /\ UNCHANGED <<scene, idVars, fwVars, mcVars, prVars, nfVars, tiVars, tpVars, pnVars, ceVars>>
InIdentity(A) ==
  /\ scene = "identity" /\ A
  /\ UNCHANGED <<scene, acVars, fwVars, mcVars, prVars, nfVars, tiVars, tpVars, pnVars, ceVars>>
InFindings(A) ==
  /\ scene = "findings" /\ A
  /\ UNCHANGED <<scene, acVars, idVars, mcVars, prVars, nfVars, tiVars, tpVars, pnVars, ceVars>>
InMatcher(A) ==
  /\ scene = "matcher" /\ A
  /\ UNCHANGED <<scene, acVars, idVars, fwVars, prVars, nfVars, tiVars, tpVars, pnVars, ceVars>>
InPlugins(A) ==
  /\ scene = "plugins" /\ A
  /\ UNCHANGED <<scene, acVars, idVars, fwVars, mcVars, nfVars, tiVars, tpVars, pnVars, ceVars>>
InFleet(A) ==
  /\ scene = "fleet" /\ A
  /\ UNCHANGED <<scene, acVars, idVars, fwVars, mcVars, prVars, tiVars, tpVars, pnVars, ceVars>>
InInstances(part, A) ==
  /\ scene = part /\ A
  /\ UNCHANGED <<scene, acVars, idVars, fwVars, mcVars, prVars, nfVars, tpVars, pnVars, ceVars>>
InTargets(A) ==
  /\ scene = "targets" /\ A
  /\ UNCHANGED <<scene, acVars, idVars, fwVars, mcVars, prVars, nfVars, tiVars, pnVars, ceVars>>
InNodes(A) ==
  /\ scene = "nodes" /\ A
  /\ UNCHANGED <<scene, acVars, idVars, fwVars, mcVars, prVars, nfVars, tiVars, tpVars, ceVars>>
InCerts(A) ==
  /\ scene = "certs" /\ A
  /\ UNCHANGED <<scene, acVars, idVars, fwVars, mcVars, prVars, nfVars, tiVars, tpVars, pnVars>>

Next ==
  \/ InAudit(AcNext) \/ InIdentity(IdNext) \/ InFindings(FwNext) \/ InMatcher(McNext)
  \/ InPlugins(PrNext) \/ InFleet(NfNext) \/ InTargets(TpNext) \/ InNodes(PnNext)
  \/ InInstances("cron", CronStep) \/ InInstances("continuous", ContinuousStep)
  \/ InCerts(CeNext)

\* The fairness of PrSpec, in its scene
Fairness == WF_vars(InPlugins(PullerStep))

Spec == Init /\ [][Next]_vars /\ Fairness

\* Type correctness of all.
ServicesTypeOK ==
  /\ AcTypeOK /\ IdTypeOK /\ FwTypeOK /\ McTypeOK /\ PrTypeOK /\ NfTypeOK /\ TiTypeOK /\ TpTypeOK
  /\ PnTypeOK /\ CeTypeOK
=============================================================================
