----------------------------- MODULE NodeFleet -----------------------------
(***************************************************************************)
(* Nodes (internal/tenancy) and the agents that run on them: registration  *)
(* tokens are redeemed for a node and its first certificate, heartbeats    *)
(* over mTLS bring the node online, certificates are renewed before they   *)
(* expire, and the agent keeps what it was given in four files, written    *)
(* one after the other (internal/agent: enroll, store, heartbeat).         *)
(* Agents have different node names.  The certificates issued to an agent  *)
(* are numbered, and expire in this order.                                 *)
(***************************************************************************)
EXTENDS Naturals, FiniteSets

CONSTANTS
  Agent,
  Token,           \* registration tokens
  MaxCerts,        \* bound: MaxCerts[a] certificates for agent a
  MaxFleetFaults

ASSUME FleetAssumption == MaxCerts \in [Agent -> Nat] /\ MaxFleetFaults \in Nat

VARIABLES
  token,       \* token[t]: "usable", "expired", "used" or "revoked"
  made,        \* made[t]: nodes created with t (a ghost)
  dead,        \* tokens that were revoked before they were used, or expired
               \* when no call had them checked already (a ghost)
  node,        \* node[a]: status of the row with the name of agent a
  issued,      \* issued[a]: certificates signed for a so far
  expired,     \* expired[a]: they have expired up to this one
  revokedCert, \* revokedCert[a]: revoked ones
  agent,       \* agent[a]: [pc, token, new, file, client]
  disk,        \* disk[a][f]: the enrollment file f was written with, 0: no file
  beat,        \* beat[a]: a Heartbeat between GetByID and TouchLastSeen, "none",
               \* "waited" for by the agent, or "left" by one that stopped
  fleetFaults

nfVars == <<token, made, dead, node, issued, expired, revokedCert, agent, disk, beat, fleetFaults>>

\* Save's order: node-id, cert, key, ca
NodeID == 1
Cert == 2
PrivateKey == 3
CACert == 4
File == NodeID..CACert
TokenState == {"usable", "expired", "used", "revoked"}
NodeStatus == {"none", "pending", "online", "disabled", "deleted"}
AgentPC == {"off", "mark", "insert", "sign", "save", "first", "on", "reissue"}
Off == [pc |-> "off", token |-> "none", new |-> 0, file |-> NodeID, client |-> 0]
Running(pc, cert) == [Off EXCEPT !.pc = pc, !.client = cert]

NfInit ==
  /\ token = [t \in Token |-> "usable"] /\ made = [t \in Token |-> 0]
  /\ dead = {}
  /\ node = [a \in Agent |-> "none"]
  /\ issued = [a \in Agent |-> 0] /\ expired = [a \in Agent |-> 0]
  /\ revokedCert = [a \in Agent |-> {}]
  /\ agent = [a \in Agent |-> Off] /\ disk = [a \in Agent |-> [f \in File |-> 0]]
  /\ beat = [a \in Agent |-> "none"] /\ fleetFaults = 0

FleetFault == fleetFaults < MaxFleetFaults /\ fleetFaults' = fleetFaults + 1
SameTokens == UNCHANGED <<token, made, dead>>
SameCerts == UNCHANGED <<issued, expired, revokedCert>>
AgentAt(a, pc) == agent[a].pc = pc
AgentTo(a, pc) == agent' = [agent EXCEPT ![a].pc = pc]
Live(a) == node[a] \in {"pending", "online", "disabled"}

(* ---- enrollment: Enroller.Ensure and RedeemRegistrationToken ---- *)
Enrolled(a) == \A f \in File : disk[a][f] # 0
\* Load, tls.X509KeyPair: with a key of another certificate the agent exits.
StartEnrolled(a) ==
  /\ AgentAt(a, "off") /\ Enrolled(a) /\ disk[a][Cert] = disk[a][PrivateKey]
  /\ agent' = [agent EXCEPT ![a] = Running("first", disk[a][Cert])]
  /\ SameTokens /\ SameCerts /\ UNCHANGED <<node, disk, beat, fleetFaults>>

\* GetByHash and IsUsable
Redeem(a, t) ==
  /\ AgentAt(a, "off") /\ ~Enrolled(a) /\ token[t] = "usable"
  /\ agent' = [agent EXCEPT ![a] = [Off EXCEPT !.pc = "mark", !.token = t]]
  /\ SameTokens /\ SameCerts /\ UNCHANGED <<node, disk, beat, fleetFaults>>

\* The WHERE of MarkUsed: a token used or revoked since then is refused; one
\* that has expired since then is not.
NotRevoked(t) == token[t] # "revoked"
Unused(t) == token[t] \in {"usable", "expired"}
MarkUsed(a) ==
  LET t == agent[a].token IN
  /\ AgentAt(a, "mark")
  /\ IF Unused(t)
     THEN AgentTo(a, "insert") /\ token' = [token EXCEPT ![t] = "used"]
     ELSE AgentTo(a, "off") /\ UNCHANGED token
  /\ SameCerts /\ UNCHANGED <<made, dead, node, disk, beat, fleetFaults>>

\* The name of a node that is not deleted is unique: the token is wasted.
InsertNode(a) ==
  /\ AgentAt(a, "insert")
  /\ IF Live(a)
     THEN AgentTo(a, "off") /\ UNCHANGED <<node, made>>
     ELSE /\ AgentTo(a, "sign") /\ node' = [node EXCEPT ![a] = "pending"]
          /\ made' = [made EXCEPT ![agent[a].token] = @ + 1]
  /\ SameCerts /\ UNCHANGED <<token, dead, disk, beat, fleetFaults>>

(* ---- certificates ---- *)
\* signAndPersistNodeCert: the first certificate, or a renewal
ClientOnceSigned(a) == issued[a] + 1
ClientMeanwhile(a) == agent[a].client
SignCert(a) ==
  /\ AgentAt(a, "sign") \/ AgentAt(a, "reissue")
  /\ issued[a] < MaxCerts[a] /\ issued' = [issued EXCEPT ![a] = @ + 1]
  /\ agent' = [agent EXCEPT ![a].pc = "save", ![a].new = issued[a] + 1, ![a].file = NodeID,
                            ![a].client = ClientMeanwhile(a)]
  /\ SameTokens /\ UNCHANGED <<expired, revokedCert, node, disk, beat, fleetFaults>>

\* One atomicWrite of Store.Save; after the last one the client is built.
SaveFile(a) ==
  LET g == agent[a] IN
  /\ AgentAt(a, "save")
  /\ disk' = [disk EXCEPT ![a][g.file] = g.new]
  /\ agent' = [agent EXCEPT ![a] =
       IF g.file < CACert THEN [g EXCEPT !.file = g.file + 1]
       ELSE Running(IF g.client = 0 THEN "first" ELSE "on", g.new)]
  /\ SameTokens /\ SameCerts /\ UNCHANGED <<node, beat, fleetFaults>>

\* Save reports an error: the enrollment fails and the agent exits; a renewal
\* is given up, and the heartbeat goes on with the client it has.
SaveFails(a) ==
  /\ AgentAt(a, "save")
  /\ agent' = [agent EXCEPT ![a] = IF @.client = 0 THEN Off
                                   ELSE Running("on", @.client)]
  /\ FleetFault /\ SameTokens /\ SameCerts /\ UNCHANGED <<node, disk, beat>>

CertExpires(a) ==
  /\ expired[a] < issued[a] /\ expired' = [expired EXCEPT ![a] = @ + 1]
  /\ SameTokens /\ UNCHANGED <<issued, revokedCert, node, agent, disk, beat, fleetFaults>>
RevokeCert(a) ==
  /\ \E c \in 1..issued[a] : revokedCert' = [revokedCert EXCEPT ![a] = @ \cup {c}]
  /\ SameTokens /\ UNCHANGED <<issued, expired, node, agent, disk, beat, fleetFaults>>

(* ---- mTLS calls ---- *)
\* GetByFingerprint and IsValid of the middleware, GetByID and the status
Accepted(a) ==
  /\ agent[a].client > expired[a] /\ agent[a].client \notin revokedCert[a]
  /\ node[a] \in {"pending", "online"}

HeartbeatCheck(a) ==
  /\ AgentAt(a, "first") \/ AgentAt(a, "on")
  /\ beat[a] = "none" /\ Accepted(a) /\ beat' = [beat EXCEPT ![a] = "waited"]
  /\ SameTokens /\ SameCerts /\ UNCHANGED <<node, agent, disk, fleetFaults>>

\* TouchLastSeen: one UPDATE, of a row that is not deleted, nor disabled
RowLeft(a) == Live(a)
Touchable(a) == Live(a) /\ node[a] # "disabled"
TouchLastSeen(a) ==
  /\ beat[a] # "none" /\ beat' = [beat EXCEPT ![a] = "none"]
  /\ node' = [node EXCEPT ![a] = IF Touchable(a) THEN "online" ELSE @]
  /\ agent' = [agent EXCEPT ![a] =
       IF beat[a] = "left" \/ @.pc # "first" THEN @
       ELSE IF Touchable(a) THEN [@ EXCEPT !.pc = "on"] ELSE Off]
  /\ SameTokens /\ SameCerts /\ UNCHANGED <<disk, fleetFaults>>

\* maybeRenew, ReissueCert
Renew(a) ==
  /\ AgentAt(a, "on") /\ beat[a] # "waited" /\ Accepted(a)
  /\ AgentTo(a, "reissue")
  /\ SameTokens /\ SameCerts /\ UNCHANGED <<node, disk, beat, fleetFaults>>
\* The answer of a renewal is an error: the loop goes on.
RenewFails(a) ==
  /\ AgentAt(a, "reissue") /\ AgentTo(a, "on")
  /\ FleetFault /\ SameTokens /\ SameCerts /\ UNCHANGED <<node, disk, beat>>

\* The first heartbeat is refused, or the agent is stopped.
AgentStops(a) ==
  /\ AgentAt(a, "first") \/ AgentAt(a, "on")
  /\ agent' = [agent EXCEPT ![a] = Off]
  /\ beat' = [beat EXCEPT ![a] = IF @ = "waited" THEN "left" ELSE @]
  /\ SameTokens /\ SameCerts /\ UNCHANGED <<node, disk, fleetFaults>>
\* The agent dies elsewhere, or an enrollment fails at the server, or its
\* answer is lost: what the server has done stays.
AgentDies(a) ==
  /\ agent[a].pc \in {"mark", "insert", "sign", "save", "reissue"}
  /\ agent' = [agent EXCEPT ![a] = Off]
  /\ FleetFault /\ SameTokens /\ SameCerts /\ UNCHANGED <<node, disk, beat>>

(* ---- tokens and nodes over time, and in the hands of administrators ---- *)
\* expires_at passes.
ExpireToken(t) ==
  /\ token[t] = "usable" /\ token' = [token EXCEPT ![t] = "expired"]
  /\ dead' = IF \E a \in Agent : AgentAt(a, "mark") /\ agent[a].token = t
             THEN dead ELSE dead \cup {t}
  /\ SameCerts /\ UNCHANGED <<made, node, agent, disk, beat, fleetFaults>>
\* Revoke.  Of a used token nobody reads revoked_at again.
RevokeToken(t) ==
  /\ token[t] \in {"usable", "expired"} /\ token' = [token EXCEPT ![t] = "revoked"]
  /\ dead' = dead \cup {t}
  /\ SameCerts /\ UNCHANGED <<made, node, agent, disk, beat, fleetFaults>>
SetStatus(a, s) ==
  /\ node' = [node EXCEPT ![a] = s]
  /\ SameTokens /\ SameCerts /\ UNCHANGED <<agent, disk, beat, fleetFaults>>
EnableNode(a) == Live(a) /\ SetStatus(a, "pending")
DisableNode(a) == Live(a) /\ SetStatus(a, "disabled")
DeleteNode(a) == Live(a) /\ SetStatus(a, "deleted")

NfNext ==
  \/ \E a \in Agent :
       \/ StartEnrolled(a) \/ (\E t \in Token : Redeem(a, t)) \/ MarkUsed(a) \/ InsertNode(a)
       \/ SignCert(a) \/ SaveFile(a) \/ SaveFails(a) \/ CertExpires(a) \/ RevokeCert(a)
       \/ HeartbeatCheck(a) \/ TouchLastSeen(a) \/ Renew(a) \/ RenewFails(a)
       \/ AgentStops(a) \/ AgentDies(a)
       \/ EnableNode(a) \/ DisableNode(a) \/ DeleteNode(a)
  \/ \E t \in Token : ExpireToken(t) \/ RevokeToken(t)

NfSpec == NfInit /\ [][NfNext]_nfVars

(* ---- properties ---- *)

NfTypeOK ==
  /\ token \in [Token -> TokenState] /\ dead \subseteq Token /\ node \in [Agent -> NodeStatus]
  /\ \A a \in Agent :
       /\ agent[a].pc \in AgentPC /\ agent[a].file \in File
       /\ issued[a] \in 0..MaxCerts[a] /\ expired[a] <= issued[a]
       /\ agent[a].client <= issued[a] /\ \A f \in File : disk[a][f] <= issued[a]
  /\ beat \in [Agent -> {"none", "waited", "left"}]

\* A registration token yields one node at the most, whichever agents redeem
\* it at once.  It yields none from the moment it is revoked, unless it was
\* claimed before, nor when it expires before anyone has it checked; a call
\* that found it usable just before still makes its node.
TokenOnce == \A t \in Token : made[t] <= 1 /\ (t \in dead => made[t] = 0)

\* A disabled node is not brought back by a heartbeat that was checked before
\* it was disabled: only EnableNode or DeleteNode change it.
DisabledStaysDown ==
  [][\A a \in Agent : node[a] = "disabled" =>
       node'[a] = "disabled" \/ EnableNode(a) \/ DeleteNode(a)]_nfVars

\* The client works with a certificate whose key is on the disk, or was until
\* a later one replaced it, and an interrupted Save leaves newer files before
\* older ones: if certificate and key match, a restart takes up a pair no older
\* than the one in use, and while nothing fails the four files belong together
\* outside Save.  A failure between the two leaves a pair that does not match.
SavedBeforeUsed ==
  \A a \in Agent :
    /\ agent[a].client <= disk[a][PrivateKey]
    /\ \A f \in File : f < CACert => disk[a][f + 1] <= disk[a][f]
    /\ fleetFaults = 0 /\ ~AgentAt(a, "save") => \A f \in File : disk[a][f] = disk[a][Cert]
=============================================================================
