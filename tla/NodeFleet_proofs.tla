--------------------------- MODULE NodeFleet_proofs ---------------------------
(***************************************************************************)
(* Tokens, disabled nodes and the files of an enrollment, for any number   *)
(* of agents, tokens, certificates and faults.                             *)
(***************************************************************************)
EXTENDS NodeFleet, TLAPS

AgentRec == [pc : AgentPC, token : Token \cup {"none"}, new : Nat, file : File, client : Nat]

NfTypes ==
  /\ token \in [Token -> TokenState] /\ made \in [Token -> Nat] /\ dead \subseteq Token
  /\ node \in [Agent -> NodeStatus] /\ issued \in [Agent -> Nat] /\ fleetFaults \in Nat
  /\ agent \in [Agent -> AgentRec] /\ disk \in [Agent -> [File -> Nat]]

\* Whoever is about to insert a node has used up its token, alone.  A token of
\* dead is revoked, or it has expired and nobody is about to claim it.
TokensSpent ==
  /\ \A a \in Agent : agent[a].pc = "mark" => agent[a].token \in Token
  /\ \A a \in Agent : agent[a].pc = "insert" =>
       agent[a].token \in Token /\ token[agent[a].token] = "used" /\ made[agent[a].token] = 0
  /\ \A a, b \in Agent :
       agent[a].pc = "insert" /\ agent[b].pc = "insert" /\ agent[a].token = agent[b].token
         => a = b
  /\ \A t \in Token : made[t] <= 1 /\ (token[t] # "used" => made[t] = 0)
  /\ \A t \in dead :
       \/ token[t] = "revoked"
       \/ /\ token[t] = "expired"
          /\ \A a \in Agent : agent[a].pc = "mark" => agent[a].token # t

\* What is on the disk was issued, later files not after earlier ones; Save
\* has written the files before the one it is at with the latest certificate;
\* and the client is never ahead of the key on the disk.
FilesOf(a) ==
  /\ \A f \in File : disk[a][f] <= issued[a]
  /\ \A f \in File : f < CACert => disk[a][f + 1] <= disk[a][f]
  /\ agent[a].client <= disk[a][PrivateKey]
  /\ agent[a].pc = "save" =>
       /\ agent[a].new = issued[a]
       /\ \A f \in File : f < agent[a].file => disk[a][f] = agent[a].new
  /\ fleetFaults = 0 /\ agent[a].pc # "save" => \A f \in File : disk[a][f] = disk[a][Cert]
FilesInOrder == \A a \in Agent : FilesOf(a)

NfInv == NfTypes /\ TokensSpent /\ FilesInOrder

LEMMA Files == /\ NodeID \in File /\ Cert \in File /\ PrivateKey \in File /\ CACert \in File
               /\ NodeID = 1 /\ Cert = 2 /\ PrivateKey = 3 /\ CACert = 4
               /\ \A f : f \in File <=> f \in Nat /\ 1 <= f /\ f <= 4
BY DEF File, NodeID, Cert, PrivateKey, CACert

LEMMA Records ==
  /\ Off \in AgentRec /\ Off.pc = "off" /\ Off.client = 0
  /\ \A pc \in AgentPC, c \in Nat :
       /\ Running(pc, c) \in AgentRec /\ Running(pc, c).pc = pc /\ Running(pc, c).client = c
BY Files DEF Off, Running, AgentRec, AgentPC

LEMMA NfInitInv == NfInit => NfInv
<1> SUFFICES ASSUME NfInit PROVE NfInv
  OBVIOUS
<1>1. NfTypes
  BY Records DEF NfInit, NfTypes, NodeStatus, TokenState
<1>2. TokensSpent
  BY Records DEF NfInit, TokensSpent
<1>3. FilesInOrder
  BY Records, Files DEF NfInit, FilesInOrder, FilesOf
<1> QED
  BY <1>1, <1>2, <1>3 DEF NfInv

\* A step of one agent outside Save and away from its token.
LEMMA AgentMoves ==
  ASSUME NfInv, NEW a \in Agent, NEW r \in AgentRec, agent' = [agent EXCEPT ![a] = r],
         UNCHANGED <<token, made, dead, issued, disk>>, node' \in [Agent -> NodeStatus],
         fleetFaults' \in Nat, fleetFaults' = 0 => fleetFaults = 0 /\ agent[a].pc # "save",
         r.pc \notin {"save", "insert"}, r.pc = "mark" => r.token \in Token /\ token[r.token] = "usable",
         r.client <= disk[a][PrivateKey]
  PROVE  NfInv'
<1>1. agent'[a] = r /\ \A b \in Agent : b # a => agent'[b] = agent[b]
  BY DEF NfInv, NfTypes
<1>2. NfTypes'
  BY DEF NfInv, NfTypes
<1>3. TokensSpent'
  BY <1>1 DEF NfInv, TokensSpent
<1>4. FilesInOrder'
  BY <1>1 DEF NfInv, FilesInOrder, FilesOf
<1> QED
  BY <1>2, <1>3, <1>4 DEF NfInv

LEMMA PlaceMoves ==
  ASSUME NfInv, NEW a \in Agent, NEW pc \in AgentPC, AgentTo(a, pc),
         UNCHANGED <<token, made, dead, issued, disk>>, node' \in [Agent -> NodeStatus],
         fleetFaults' \in Nat, fleetFaults' = 0 => fleetFaults = 0, agent[a].pc # "save",
         pc \notin {"save", "insert", "mark"}
  PROVE  NfInv'
<1> DEFINE r == [agent[a] EXCEPT !.pc = pc]
<1>1. agent[a] \in AgentRec
  BY DEF NfInv, NfTypes
<1>2. r \in AgentRec /\ r.pc = pc /\ r.client = agent[a].client
  BY <1>1 DEF AgentRec
<1>3. agent' = [agent EXCEPT ![a] = r]
  BY DEF AgentTo
<1>4. agent[a].client <= disk[a][PrivateKey]
  BY DEF NfInv, FilesInOrder, FilesOf
<1> HIDE DEF r
<1> QED
  BY <1>2, <1>3, <1>4, AgentMoves

\* A step that touches neither the agents nor their files nor the tokens.
LEMMA OthersMove ==
  ASSUME NfInv, UNCHANGED <<token, made, dead, issued, agent, disk, fleetFaults>>,
         node' \in [Agent -> NodeStatus]
  PROVE  NfInv'
BY DEF NfInv, NfTypes, TokensSpent, FilesInOrder, FilesOf

\* Of all that present one token, the UPDATE lets one through.
LEMMA MarkKeeps ==
  ASSUME NfInv, NEW a \in Agent, MarkUsed(a)
  PROVE  NfInv'
<1> DEFINE t == agent[a].token
<1>1. /\ agent[a].pc = "mark" /\ UNCHANGED <<made, dead, node, issued, disk, fleetFaults>>
      /\ t \in Token
  BY DEF MarkUsed, AgentAt, SameCerts, NfInv, TokensSpent
<1>2. CASE Unused(t)
  <2>1. agent' = [agent EXCEPT ![a].pc = "insert"] /\ token' = [token EXCEPT ![t] = "used"]
    BY <1>2 DEF MarkUsed, AgentTo
  <2>2. agent[a] \in AgentRec
    BY DEF NfInv, NfTypes
  <2>3. agent'[a] \in AgentRec /\ agent'[a].pc = "insert" /\ agent'[a].token = t
        /\ agent'[a].client = agent[a].client
    BY <2>1, <2>2 DEF NfInv, NfTypes, AgentRec, AgentPC
  <2>4. \A b \in Agent : b # a => agent'[b] = agent[b]
    BY <2>1 DEF NfInv, NfTypes
  <2>5. /\ token[t] # "used" /\ t \notin dead
        /\ token'[t] = "used" /\ \A s \in Token : s # t => token'[s] = token[s]
    BY <1>1, <1>2, <2>1 DEF Unused, NfInv, NfTypes, TokensSpent
  <2>6. NfTypes'
    <3>1. agent' \in [Agent -> AgentRec]
      BY <2>1, <2>3, <2>4 DEF NfInv, NfTypes
    <3>2. token' \in [Token -> TokenState]
      BY <1>1, <2>1 DEF NfInv, NfTypes, TokenState
    <3> QED
      BY <3>1, <3>2, <1>1 DEF NfInv, NfTypes
  <2>7. TokensSpent'
    <3>1. ASSUME NEW s \in dead'
          PROVE  \/ token'[s] = "revoked"
                 \/ /\ token'[s] = "expired"
                    /\ \A b \in Agent : agent'[b].pc = "mark" => agent'[b].token # s
      <4>1. s \in dead /\ s # t /\ s \in Token
        BY <1>1, <2>5, <3>1 DEF NfInv, NfTypes
      <4> QED
        BY <2>3, <2>4, <2>5, <4>1 DEF NfInv, TokensSpent
    <3>2. ASSUME NEW b \in Agent, agent'[b].pc = "insert"
          PROVE  /\ agent'[b].token \in Token /\ token'[agent'[b].token] = "used"
                 /\ made'[agent'[b].token] = 0
                 /\ b # a => agent'[b].token # t
      BY <1>1, <2>3, <2>4, <2>5, <3>2 DEF NfInv, TokensSpent
    <3>3. \A b \in Agent : agent'[b].pc = "mark" => agent'[b].token \in Token
      BY <2>3, <2>4 DEF NfInv, TokensSpent
    <3>4. \A b, c \in Agent : agent'[b].pc = "insert" /\ agent'[c].pc = "insert"
                              /\ agent'[b].token = agent'[c].token => b = c
      BY <2>3, <2>4, <3>2 DEF NfInv, TokensSpent
    <3>5. \A s \in Token : made'[s] <= 1 /\ (token'[s] # "used" => made'[s] = 0)
      BY <1>1, <2>5 DEF NfInv, TokensSpent
    <3> QED
      BY <3>1, <3>2, <3>3, <3>4, <3>5 DEF TokensSpent
  <2>8. FilesInOrder'
    BY <1>1, <2>3, <2>4 DEF NfInv, FilesInOrder, FilesOf
  <2> QED
    BY <2>6, <2>7, <2>8 DEF NfInv
<1>3. CASE ~Unused(t)
  <2>1. AgentTo(a, "off") /\ UNCHANGED token
    BY <1>3 DEF MarkUsed
  <2> QED
    BY <1>1, <2>1, PlaceMoves DEF AgentPC, NfInv, NfTypes
<1> QED
  BY <1>2, <1>3

LEMMA InsertKeeps ==
  ASSUME NfInv, NEW a \in Agent, InsertNode(a)
  PROVE  NfInv'
<1> DEFINE t == agent[a].token
<1>1. /\ agent[a].pc = "insert" /\ UNCHANGED <<token, dead, issued, disk, fleetFaults>>
      /\ t \in Token /\ token[t] = "used" /\ made[t] = 0
  BY DEF InsertNode, AgentAt, SameCerts, NfInv, TokensSpent
<1>2. CASE Live(a)
  <2>1. AgentTo(a, "off") /\ UNCHANGED <<node, made>>
    BY <1>2 DEF InsertNode
  <2> QED
    BY <1>1, <2>1, PlaceMoves DEF AgentPC, NfInv, NfTypes
<1>3. CASE ~Live(a)
  <2>1. /\ agent' = [agent EXCEPT ![a].pc = "sign"] /\ node' = [node EXCEPT ![a] = "pending"]
        /\ made' = [made EXCEPT ![t] = @ + 1]
    BY <1>3 DEF InsertNode, AgentTo
  <2>2. agent[a] \in AgentRec
    BY DEF NfInv, NfTypes
  <2>3. agent'[a] \in AgentRec /\ agent'[a].pc = "sign" /\ agent'[a].client = agent[a].client
    BY <2>1, <2>2 DEF NfInv, NfTypes, AgentRec, AgentPC
  <2>4. \A b \in Agent : b # a => agent'[b] = agent[b]
    BY <2>1 DEF NfInv, NfTypes
  <2>5. made'[t] = 1 /\ \A s \in Token : s # t => made'[s] = made[s]
    BY <1>1, <2>1 DEF NfInv, NfTypes
  <2>6. NfTypes'
    <3>1. agent' \in [Agent -> AgentRec]
      BY <2>1, <2>3, <2>4 DEF NfInv, NfTypes
    <3>2. made' \in [Token -> Nat] /\ node' \in [Agent -> NodeStatus]
      BY <1>1, <2>1 DEF NfInv, NfTypes, NodeStatus
    <3> QED
      BY <3>1, <3>2, <1>1 DEF NfInv, NfTypes
  <2>7. TokensSpent'
    <3>1. \A b \in Agent : b # a /\ agent[b].pc = "insert" => agent[b].token # t
      BY <1>1 DEF NfInv, TokensSpent
    <3> QED
      BY <1>1, <2>3, <2>4, <2>5, <3>1 DEF NfInv, TokensSpent
  <2>8. FilesInOrder'
    BY <1>1, <2>3, <2>4 DEF NfInv, FilesInOrder, FilesOf
  <2> QED
    BY <2>6, <2>7, <2>8 DEF NfInv
<1> QED
  BY <1>2, <1>3

\* The certificate signed is later than any the agent has seen.
LEMMA SignKeeps ==
  ASSUME NfInv, NEW a \in Agent, SignCert(a)
  PROVE  NfInv'
<1>1. /\ agent[a].pc \in {"sign", "reissue"} /\ UNCHANGED <<token, made, dead, node, disk, fleetFaults>>
      /\ issued' = [issued EXCEPT ![a] = @ + 1]
  BY DEF SignCert, AgentAt, SameTokens
<1>2. agent' = [agent EXCEPT ![a].pc = "save", ![a].new = issued[a] + 1, ![a].file = NodeID,
                             ![a].client = agent[a].client]
  BY DEF SignCert, ClientMeanwhile
<1>3. agent[a] \in AgentRec /\ issued[a] \in Nat
  BY DEF NfInv, NfTypes
<1>4. /\ agent'[a] \in AgentRec /\ agent'[a].pc = "save" /\ agent'[a].new = issued[a] + 1
      /\ agent'[a].file = NodeID /\ agent'[a].client = agent[a].client
  <2>1. agent'[a] = [[[[agent[a] EXCEPT !.pc = "save"] EXCEPT !.new = issued[a] + 1]
                       EXCEPT !.file = NodeID] EXCEPT !.client = agent[a].client]
    BY <1>2 DEF NfInv, NfTypes
  <2>2. "save" \in AgentPC /\ issued[a] + 1 \in Nat /\ NodeID \in File
    BY <1>3, Files DEF AgentPC
  <2> QED
    BY <1>3, <2>1, <2>2 DEF AgentRec
<1>5. \A b \in Agent : b # a => agent'[b] = agent[b] /\ issued'[b] = issued[b]
  BY <1>1, <1>2 DEF NfInv, NfTypes
<1>6. issued'[a] = issued[a] + 1
  BY <1>1 DEF NfInv, NfTypes
<1>7. NfTypes'
  <2>1. agent' \in [Agent -> AgentRec]
    BY <1>2, <1>4, <1>5 DEF NfInv, NfTypes
  <2>2. issued' \in [Agent -> Nat]
    BY <1>1, <1>3 DEF NfInv, NfTypes
  <2> QED
    BY <2>1, <2>2, <1>1 DEF NfInv, NfTypes
<1>8. TokensSpent'
  BY <1>1, <1>4, <1>5 DEF NfInv, TokensSpent
<1>9. FilesOf(a)'
  <2>1. /\ \A f \in File : disk[a][f] \in Nat /\ disk[a][f] <= issued[a]
        /\ \A f \in File : f < CACert => disk[a][f + 1] <= disk[a][f]
        /\ agent[a].client \in Nat /\ agent[a].client <= disk[a][PrivateKey]
    BY <1>3 DEF NfInv, NfTypes, FilesInOrder, FilesOf, AgentRec
  <2>2. \A f \in File : ~(f < NodeID)
    BY Files
  <2> QED
    BY <1>1, <1>3, <1>4, <1>6, <2>1, <2>2, Files DEF FilesOf
<1>10. \A b \in Agent : b # a => FilesOf(b)'
  BY <1>1, <1>5 DEF NfInv, FilesInOrder, FilesOf
<1> QED
  BY <1>7, <1>8, <1>9, <1>10 DEF NfInv, FilesInOrder

\* One file more; after the last one all are of the new enrollment, and only
\* then the client is.
LEMMA SaveKeeps ==
  ASSUME NfInv, NEW a \in Agent, SaveFile(a)
  PROVE  NfInv'
<1> DEFINE g == agent[a]
           r == IF g.file < CACert THEN [g EXCEPT !.file = g.file + 1]
                ELSE Running(IF g.client = 0 THEN "first" ELSE "on", g.new)
<1>1. /\ g.pc = "save" /\ UNCHANGED <<token, made, dead, node, issued, fleetFaults>>
      /\ disk' = [disk EXCEPT ![a][g.file] = g.new] /\ agent' = [agent EXCEPT ![a] = r]
  BY DEF SaveFile, AgentAt, SameTokens, SameCerts
<1>2. /\ g \in AgentRec /\ g.file \in File /\ g.new \in Nat /\ g.client \in Nat
      /\ disk[a] \in [File -> Nat] /\ issued[a] \in Nat
  BY DEF NfInv, NfTypes, AgentRec
<1>3. /\ g.new = issued[a] /\ g.client <= disk[a][PrivateKey]
      /\ \A f \in File : f < CACert => disk[a][f + 1] <= disk[a][f]
      /\ \A f \in File : f < g.file => disk[a][f] = g.new
      /\ \A f \in File : disk[a][f] <= issued[a]
  BY <1>1 DEF NfInv, FilesInOrder, FilesOf
<1>4. /\ disk'[a] \in [File -> Nat] /\ disk'[a][g.file] = g.new
      /\ \A f \in File : f # g.file => disk'[a][f] = disk[a][f]
      /\ \A b \in Agent : b # a => disk'[b] = disk[b]
  BY <1>1, <1>2 DEF NfInv, NfTypes
<1>5. CASE g.file < CACert
  <2>1. g.file + 1 \in File
    BY <1>2, <1>5, Files
  <2>2. r \in AgentRec /\ r.pc = "save" /\ r.new = g.new /\ r.file = g.file + 1 /\ r.client = g.client
    BY <1>1, <1>2, <1>5, <2>1 DEF AgentRec
  <2>3. agent'[a] = r /\ \A b \in Agent : b # a => agent'[b] = agent[b]
    BY <1>1 DEF NfInv, NfTypes
  <2>4. agent' \in [Agent -> AgentRec] /\ disk' \in [Agent -> [File -> Nat]]
    BY <1>1, <1>4, <2>2 DEF NfInv, NfTypes
  <2> HIDE DEF r
  <2>5. NfTypes'
    BY <1>1, <2>4 DEF NfInv, NfTypes
  <2>6. TokensSpent'
    BY <1>1, <2>2, <2>3 DEF NfInv, TokensSpent
  <2>7. FilesOf(a)'
    <3>1. \A f \in File : f < g.file + 1 => disk'[a][f] = g.new
      BY <1>2, <1>3, <1>4, Files
    <3>2. \A f \in File : disk'[a][f] <= issued[a]
      BY <1>3, <1>4
    <3>3. \A f \in File : disk[a][f] <= disk'[a][f] /\ disk'[a][f] <= g.new
      BY <1>2, <1>3, <1>4
    <3>4. g.client <= disk'[a][PrivateKey]
      <4>1. disk[a][PrivateKey] \in Nat /\ disk'[a][PrivateKey] \in Nat
        BY <1>2, <1>4, Files
      <4> QED
        BY <1>2, <1>3, <3>3, <4>1, Files
    <3>5. ASSUME NEW f \in File, f < CACert PROVE disk'[a][f + 1] <= disk'[a][f]
      <4>1. f + 1 \in File /\ f + 1 # f
        BY <3>5, Files
      <4>2. CASE f = g.file
        BY <1>4, <3>3, <4>1, <4>2
      <4>3. CASE f # g.file /\ f + 1 # g.file
        BY <1>3, <1>4, <3>5, <4>1, <4>3
      <4>4. CASE f + 1 = g.file
        <5>1. f < g.file + 1
          BY <4>4, Files
        <5> QED
          BY <1>2, <1>4, <3>1, <4>4, <5>1
      <4> QED
        BY <4>2, <4>3, <4>4
    <3> QED
      BY <1>1, <1>3, <2>2, <2>3, <3>1, <3>2, <3>4, <3>5 DEF FilesOf
  <2>8. \A b \in Agent : b # a => FilesOf(b)'
    BY <1>1, <1>4, <2>3 DEF NfInv, FilesInOrder, FilesOf
  <2> QED
    BY <2>5, <2>6, <2>7, <2>8 DEF NfInv, FilesInOrder
<1>6. CASE ~(g.file < CACert)
  <2>1. r \in AgentRec /\ r.pc \in {"first", "on"} /\ r.client = g.new
    BY <1>2, <1>6, Records DEF AgentPC
  <2>2. agent'[a] = r /\ \A b \in Agent : b # a => agent'[b] = agent[b]
    BY <1>1 DEF NfInv, NfTypes
  <2>3. agent' \in [Agent -> AgentRec] /\ disk' \in [Agent -> [File -> Nat]]
    BY <1>1, <1>4, <2>1 DEF NfInv, NfTypes
  <2> HIDE DEF r
  <2>4. NfTypes'
    BY <1>1, <2>3 DEF NfInv, NfTypes
  <2>5. TokensSpent'
    BY <1>1, <2>1, <2>2 DEF NfInv, TokensSpent
  <2>6. \A f \in File : disk'[a][f] = g.new
    BY <1>2, <1>3, <1>4, <1>6, Files
  <2>7. FilesOf(a)'
    <3>1. \A f \in File : f < CACert => f + 1 \in File
      BY Files
    <3> QED
      BY <1>1, <1>2, <1>3, <2>1, <2>2, <2>6, <3>1, Files DEF FilesOf
  <2>8. \A b \in Agent : b # a => FilesOf(b)'
    BY <1>1, <1>4, <2>2 DEF NfInv, FilesInOrder, FilesOf
  <2> QED
    BY <2>4, <2>5, <2>7, <2>8 DEF NfInv, FilesInOrder
<1> QED
  BY <1>5, <1>6

LEMMA NfStep == NfInv /\ [NfNext]_nfVars => NfInv'
<1> SUFFICES ASSUME NfInv, [NfNext]_nfVars PROVE NfInv'
  OBVIOUS
<1>1. /\ fleetFaults \in Nat /\ node \in [Agent -> NodeStatus]
      /\ FleetFault => fleetFaults' \in Nat /\ fleetFaults' # 0
  BY DEF NfInv, NfTypes, FleetFault
<1>2. ASSUME NEW a \in Agent
      PROVE  /\ agent[a] \in AgentRec /\ disk[a][Cert] \in Nat /\ agent[a].client \in Nat
             /\ disk[a][PrivateKey] \in Nat
             /\ agent[a].client <= disk[a][PrivateKey] /\ 0 <= disk[a][PrivateKey]
  BY Files DEF NfInv, NfTypes, FilesInOrder, FilesOf, AgentRec
<1>3. ASSUME NEW a \in Agent, StartEnrolled(a) PROVE NfInv'
  <2> DEFINE r == Running("first", disk[a][Cert])
  <2>1. /\ agent' = [agent EXCEPT ![a] = r] /\ agent[a].pc = "off"
        /\ disk[a][Cert] = disk[a][PrivateKey]
        /\ UNCHANGED <<token, made, dead, issued, disk, node, fleetFaults>>
    BY <1>3 DEF StartEnrolled, AgentAt, SameTokens, SameCerts
  <2>2. r \in AgentRec /\ r.pc = "first" /\ r.client = disk[a][Cert]
    BY <1>2, Records DEF AgentPC
  <2> HIDE DEF r
  <2>3. r.client <= disk[a][PrivateKey]
    <3>1. disk[a][PrivateKey] \in Nat
      BY <1>2
    <3> QED
      BY <2>1, <2>2, <3>1
  <2>4. /\ node' \in [Agent -> NodeStatus] /\ fleetFaults' \in Nat
        /\ fleetFaults' = 0 => fleetFaults = 0 /\ agent[a].pc # "save"
    BY <1>1, <2>1
  <2>5. r.pc \notin {"save", "insert"} /\ (r.pc = "mark" => r.token \in Token /\ token[r.token] = "usable")
    BY <2>2
  <2> QED
    BY <2>1, <2>2, <2>3, <2>4, <2>5, AgentMoves
<1>4. ASSUME NEW a \in Agent, NEW t \in Token, Redeem(a, t) PROVE NfInv'
  <2> DEFINE r == [Off EXCEPT !.pc = "mark", !.token = t]
  <2>1. /\ agent' = [agent EXCEPT ![a] = r] /\ agent[a].pc = "off"
        /\ token[t] = "usable"
        /\ UNCHANGED <<token, made, dead, issued, disk, node, fleetFaults>>
    BY <1>4 DEF Redeem, AgentAt, SameTokens, SameCerts
  <2>2. r = [[Off EXCEPT !.pc = "mark"] EXCEPT !.token = t]
    OBVIOUS
  <2>3. r \in AgentRec /\ r.pc = "mark" /\ r.token = t /\ r.client = 0
    <3>1. Off \in AgentRec /\ Off.client = 0 /\ "mark" \in AgentPC
      BY Records DEF AgentPC
    <3> QED
      BY <2>2, <3>1 DEF AgentRec
  <2> HIDE DEF r
  <2> QED
    BY <1>1, <1>2, <2>1, <2>3, AgentMoves
<1>5. ASSUME NEW a \in Agent, SaveFails(a) PROVE NfInv'
  <2> DEFINE r == IF agent[a].client = 0 THEN Off ELSE Running("on", agent[a].client)
  <2>1. /\ agent' = [agent EXCEPT ![a] = r] /\ FleetFault
        /\ UNCHANGED <<token, made, dead, issued, disk, node>>
    BY <1>5 DEF SaveFails, SameTokens, SameCerts
  <2>2. r \in AgentRec /\ r.pc \in {"off", "on"} /\ r.client = agent[a].client
    BY <1>2, Records DEF AgentPC
  <2> HIDE DEF r
  <2> QED
    BY <1>1, <1>2, <2>1, <2>2, AgentMoves
<1>6. ASSUME NEW a \in Agent, TouchLastSeen(a) PROVE NfInv'
  <2> DEFINE r == IF beat[a] = "left" \/ agent[a].pc # "first" THEN agent[a]
                  ELSE IF Touchable(a) THEN [agent[a] EXCEPT !.pc = "on"] ELSE Off
  <2>1. /\ agent' = [agent EXCEPT ![a] = r]
        /\ node' = [node EXCEPT ![a] = IF Touchable(a) THEN "online" ELSE @]
        /\ UNCHANGED <<token, made, dead, issued, disk, fleetFaults>>
    BY <1>6 DEF TouchLastSeen, SameTokens, SameCerts
  <2>2. node' \in [Agent -> NodeStatus]
    BY <1>1, <2>1 DEF NodeStatus
  <2>3. CASE beat[a] = "left" \/ agent[a].pc # "first"
    <3>1. agent' = agent
      BY <2>1, <2>3 DEF NfInv, NfTypes
    <3> QED
      BY <2>1, <2>2, <3>1, OthersMove
  <2>4. CASE ~(beat[a] = "left" \/ agent[a].pc # "first")
    <3>1. CASE Touchable(a)
      <4>1. r = [agent[a] EXCEPT !.pc = "on"]
        BY <2>4, <3>1
      <4>2. AgentTo(a, "on")
        BY <2>1, <4>1, <1>2 DEF AgentTo, NfInv, NfTypes
      <4> QED
        BY <1>1, <2>1, <2>2, <2>4, <4>2, PlaceMoves DEF AgentPC
    <3>2. CASE ~Touchable(a)
      <4>1. r = Off
        BY <2>4, <3>2
      <4> HIDE DEF r
      <4>2. r \in AgentRec /\ r.pc = "off" /\ r.client = 0
        BY <4>1, Records
      <4> QED
        BY <1>1, <1>2, <2>1, <2>2, <2>4, <4>2, AgentMoves
    <3> QED
      BY <3>1, <3>2
  <2> QED
    BY <2>3, <2>4
<1>7. ASSUME NEW a \in Agent, Renew(a) \/ RenewFails(a) PROVE NfInv'
  <2>1. CASE Renew(a)
    <3>1. /\ AgentTo(a, "reissue") /\ agent[a].pc = "on"
          /\ UNCHANGED <<token, made, dead, issued, disk, node, fleetFaults>>
      BY <2>1 DEF Renew, AgentAt, SameTokens, SameCerts
    <3> QED
      BY <1>1, <3>1, PlaceMoves DEF AgentPC
  <2>2. CASE RenewFails(a)
    <3>1. /\ AgentTo(a, "on") /\ agent[a].pc = "reissue" /\ FleetFault
          /\ UNCHANGED <<token, made, dead, issued, disk, node>>
      BY <2>2 DEF RenewFails, AgentAt, SameTokens, SameCerts
    <3> QED
      BY <1>1, <3>1, PlaceMoves DEF AgentPC
  <2> QED
    BY <1>7, <2>1, <2>2
<1>8. ASSUME NEW a \in Agent, AgentStops(a) \/ AgentDies(a) PROVE NfInv'
  <2>1. /\ agent' = [agent EXCEPT ![a] = Off]
        /\ UNCHANGED <<token, made, dead, issued, disk, node>>
        /\ \/ agent[a].pc \in {"first", "on"} /\ UNCHANGED fleetFaults
           \/ FleetFault
    BY <1>8 DEF AgentStops, AgentDies, AgentAt, SameTokens, SameCerts
  <2> QED
    BY <1>1, <1>2, <2>1, Records, AgentMoves
<1>9. ASSUME NEW a \in Agent,
             CertExpires(a) \/ RevokeCert(a) \/ HeartbeatCheck(a) \/ EnableNode(a)
               \/ DisableNode(a) \/ DeleteNode(a)
      PROVE  NfInv'
  <2>1. UNCHANGED <<token, made, dead, issued, agent, disk, fleetFaults>>
    BY <1>9 DEF CertExpires, RevokeCert, HeartbeatCheck, EnableNode, DisableNode, DeleteNode,
                SetStatus, SameTokens, SameCerts
  <2>2. node' \in [Agent -> NodeStatus]
    BY <1>1, <1>9 DEF CertExpires, RevokeCert, HeartbeatCheck, EnableNode, DisableNode,
                      DeleteNode, SetStatus, SameTokens, SameCerts, NodeStatus
  <2> QED
    BY <2>1, <2>2, OthersMove
<1>10. ASSUME NEW t \in Token, ExpireToken(t) \/ RevokeToken(t) PROVE NfInv'
  <2>1. /\ token[t] \in {"usable", "expired"}
        /\ \/ /\ token' = [token EXCEPT ![t] = "revoked"] /\ dead' = dead \cup {t}
           \/ /\ token[t] = "usable" /\ token' = [token EXCEPT ![t] = "expired"] /\ dead' = dead
           \/ /\ token' = [token EXCEPT ![t] = "expired"] /\ dead' = dead \cup {t}
              /\ \A a \in Agent : agent[a].pc = "mark" => agent[a].token # t
        /\ UNCHANGED <<made, node, issued, agent, disk, fleetFaults>>
    BY <1>10 DEF ExpireToken, RevokeToken, SameCerts, AgentAt
  <2>2. token'[t] \in {"expired", "revoked"} /\ \A s \in Token : s # t => token'[s] = token[s]
    BY <2>1 DEF NfInv, NfTypes
  <2>3. NfTypes'
    BY <2>1 DEF NfInv, NfTypes, TokenState
  <2>4. TokensSpent'
    <3>1. \A s \in dead' :
            \/ token'[s] = "revoked"
            \/ /\ token'[s] = "expired"
               /\ \A a \in Agent : agent[a].pc = "mark" => agent[a].token # s
      BY <2>1, <2>2 DEF NfInv, NfTypes, TokensSpent
    <3> QED
      BY <2>1, <2>2, <3>1 DEF NfInv, TokensSpent
  <2>5. FilesInOrder'
    BY <2>1 DEF NfInv, FilesInOrder, FilesOf
  <2> QED
    BY <2>3, <2>4, <2>5 DEF NfInv
<1>11. CASE UNCHANGED nfVars
  BY <1>11, OthersMove, <1>1 DEF nfVars
<1> QED
  BY <1>3, <1>4, <1>5, <1>6, <1>7, <1>8, <1>9, <1>10, <1>11,
     MarkKeeps, InsertKeeps, SignKeeps, SaveKeeps DEF NfNext

\* NodeFleet: whichever agents present a token at once, and whatever fails
\* meanwhile, it makes one node at the most, and none once it is revoked
\* unclaimed or has expired with no call about to claim it.
THEOREM TokenMakesOneNode == NfSpec => []TokenOnce
<1>1. NfInv => TokenOnce
  BY DEF NfInv, TokensSpent, TokenOnce
<1> QED
  BY <1>1, NfInitInv, NfStep, PTL DEF NfSpec

\* NodeFleet: a client's certificate is never later than the key on the disk,
\* files are never older than the ones Save writes after them, and without
\* faults the four belong together outside Save.
THEOREM ClientIsSaved == NfSpec => []SavedBeforeUsed
<1>1. NfInv => SavedBeforeUsed
  BY DEF NfInv, FilesInOrder, FilesOf, SavedBeforeUsed, AgentAt
<1> QED
  BY <1>1, NfInitInv, NfStep, PTL DEF NfSpec

\* NodeFleet: no heartbeat and no enrollment changes the status of a node that
\* is disabled, however long before they were checked.
THEOREM DisabledStays == NfSpec => DisabledStaysDown
<1>1. ASSUME NfInv, [NfNext]_nfVars, NEW a \in Agent, node[a] = "disabled"
      PROVE  node'[a] = "disabled" \/ EnableNode(a) \/ DeleteNode(a)
  <2>1. node \in [Agent -> NodeStatus] /\ Live(a) /\ ~Touchable(a)
    BY <1>1 DEF NfInv, NfTypes, Live, Touchable
  <2>2. ASSUME NEW b \in Agent, InsertNode(b) \/ TouchLastSeen(b)
        PROVE  node'[a] = "disabled"
    BY <1>1, <2>1, <2>2 DEF InsertNode, TouchLastSeen
  <2>3. ASSUME NEW b \in Agent, EnableNode(b) \/ DisableNode(b) \/ DeleteNode(b)
        PROVE  node'[a] = "disabled" \/ EnableNode(a) \/ DeleteNode(a)
    <3>1. CASE b = a
      BY <1>1, <2>1, <2>3, <3>1 DEF DisableNode, SetStatus
    <3>2. CASE b # a
      BY <1>1, <2>1, <2>3, <3>2 DEF EnableNode, DisableNode, DeleteNode, SetStatus
    <3> QED
      BY <3>1, <3>2
  <2>4. CASE UNCHANGED node
    BY <1>1, <2>4
  <2>5. ASSUME NEW b \in Agent,
               \/ StartEnrolled(b) \/ (\E t \in Token : Redeem(b, t)) \/ MarkUsed(b)
               \/ SignCert(b) \/ SaveFile(b) \/ SaveFails(b) \/ CertExpires(b) \/ RevokeCert(b)
               \/ HeartbeatCheck(b) \/ Renew(b) \/ RenewFails(b) \/ AgentStops(b) \/ AgentDies(b)
        PROVE  UNCHANGED node
    BY <2>5 DEF StartEnrolled, Redeem, MarkUsed, SignCert, SaveFile, SaveFails, CertExpires,
                RevokeCert, HeartbeatCheck, Renew, RenewFails, AgentStops, AgentDies
  <2>6. ASSUME NEW t \in Token, ExpireToken(t) \/ RevokeToken(t) PROVE UNCHANGED node
    BY <2>6 DEF ExpireToken, RevokeToken
  <2> QED
    BY <1>1, <2>2, <2>3, <2>4, <2>5, <2>6 DEF NfNext, nfVars
<1>2. NfInv /\ [NfNext]_nfVars =>
        [\A a \in Agent : node[a] = "disabled" =>
           node'[a] = "disabled" \/ EnableNode(a) \/ DeleteNode(a)]_nfVars
  BY <1>1
<1> QED
  BY <1>2, NfInitInv, NfStep, PTL DEF NfSpec, DisabledStaysDown
=============================================================================
