--------------------------- MODULE PluginRegistry ---------------------------
(***************************************************************************)
(* Plugin packages (internal/pluginpkg): rows in the database, one object  *)
(* per version in MinIO, uploaded by administrators; and the agent's       *)
(* puller (internal/agent/pluginpuller), which installs the newest one.    *)
(* One slug on one platform.  A binary stands for its SHA-256 as well.     *)
(* The signing key is the server's; a package cannot be installed once the *)
(* key it was signed with is revoked.                                      *)
(***************************************************************************)
EXTENDS Naturals

CONSTANTS
  Upload,          \* calls of UploadPackage
  Binary, NoBinary,
  MaxVersion,      \* bound: versions 1..MaxVersion, ordered by CompareVersion
  SigningKey, NoKey,
  MaxAdmin,        \* bound: SetActive, Deprecate and RevokeSigningKey
  MaxPluginFaults

Version == 1..MaxVersion

ASSUME PluginAssumption ==
  /\ NoBinary \notin Binary /\ NoKey \notin SigningKey /\ SigningKey # {}
  /\ MaxVersion \in Nat \ {0} /\ MaxAdmin \in Nat /\ MaxPluginFaults \in Nat

VARIABLES
  pkg,         \* pkg[v]: the row of version v; rows are never deleted
  object,      \* object[v]: the binary under the key of version v
  upload,      \* upload[u]: [pc, v, bin]
  revoked,     \* revoked signing keys
  serverKey,   \* the key the server signs with
  puller,      \* [pc, v, sha, key, tmp]: what the round has learnt
  keys,        \* the agent's cache of public keys
  manifest,    \* [mem, disk], each [v, sha]
  installed,   \* the binary in plugin_dir
  admin, pluginFaults

prVars == <<pkg, object, upload, revoked, serverKey, puller, keys, manifest,
            installed, admin, pluginFaults>>

NoRow == [sha |-> NoBinary, key |-> NoKey, active |-> FALSE, deprecated |-> FALSE]
NotInManifest == [v |-> 0, sha |-> NoBinary]
RoundOver == [pc |-> "keys", v |-> 0, sha |-> NoBinary, key |-> NoKey, tmp |-> NoBinary]
UploadPC == {"idle", "insert", "remove", "done"}

PrInit ==
  /\ pkg = [v \in Version |-> NoRow]
  /\ object = [v \in Version |-> NoBinary]
  /\ upload = [u \in Upload |-> [pc |-> "idle", v |-> 1, bin |-> NoBinary]]
  /\ revoked = {} /\ serverKey = CHOOSE k \in SigningKey : TRUE
  /\ puller = RoundOver /\ keys = {}
  /\ manifest = [mem |-> NotInManifest, disk |-> NotInManifest]
  /\ installed = NoBinary /\ admin = 0 /\ pluginFaults = 0

PluginFault == pluginFaults < MaxPluginFaults /\ pluginFaults' = pluginFaults + 1
Admin == admin < MaxAdmin /\ admin' = admin + 1
SameAgent == UNCHANGED <<puller, keys, manifest, installed>>
SameRegistry == UNCHANGED <<pkg, object, upload, revoked, serverKey, admin>>
Exists(v) == pkg[v].sha # NoBinary

(* ---- UploadPackage ---- *)
\* PutObject under plugins/<slug>/<version>/<platform>: what is there already
\* is overwritten, the row of the version is only found out about later.
PutObject(u, v, bin) ==
  /\ upload[u].pc = "idle"
  /\ upload' = [upload EXCEPT ![u] = [pc |-> "insert", v |-> v, bin |-> bin]]
  /\ object' = [object EXCEPT ![v] = bin]
  /\ SameAgent /\ UNCHANGED <<pkg, revoked, serverKey, admin, pluginFaults>>

InsertPackage(u) ==
  LET v == upload[u].v IN
  /\ upload[u].pc = "insert"
  /\ IF Exists(v)                        \* the unique key
     THEN upload' = [upload EXCEPT ![u].pc = "remove"] /\ UNCHANGED pkg
     ELSE /\ upload' = [upload EXCEPT ![u].pc = "done"]
          /\ pkg' = [pkg EXCEPT ![v] = [sha |-> upload[u].bin, key |-> serverKey,
                                        active |-> TRUE, deprecated |-> FALSE]]
  /\ SameAgent /\ UNCHANGED <<object, revoked, serverKey, admin, pluginFaults>>

\* the rollback of a failed INSERT
RemoveObject(u) ==
  /\ upload[u].pc = "remove"
  /\ upload' = [upload EXCEPT ![u].pc = "done"]
  /\ object' = [object EXCEPT ![upload[u].v] = NoBinary]
  /\ SameAgent /\ UNCHANGED <<pkg, revoked, serverKey, admin, pluginFaults>>

\* INSERT fails; RemoveObject fails, which is ignored; or the server dies.
UploadFails(u) ==
  /\ \/ upload[u].pc \in {"insert", "remove"} /\ upload' = [upload EXCEPT ![u].pc = "done"]
     \/ upload[u].pc = "insert" /\ upload' = [upload EXCEPT ![u].pc = "remove"]
  /\ PluginFault /\ SameAgent /\ UNCHANGED <<pkg, object, revoked, serverKey, admin>>

(* ---- rows and keys ---- *)
SetActive(v, on) ==
  /\ Exists(v) /\ ~pkg[v].deprecated
  /\ pkg' = [pkg EXCEPT ![v].active = on]
  /\ Admin /\ SameAgent
  /\ UNCHANGED <<object, upload, revoked, serverKey, pluginFaults>>
Deprecate(v) ==
  /\ Exists(v)
  /\ pkg' = [pkg EXCEPT ![v].deprecated = TRUE, ![v].active = FALSE]
  /\ Admin /\ SameAgent
  /\ UNCHANGED <<object, upload, revoked, serverKey, pluginFaults>>
\* RevokeSigningKey; the server goes on with another key after a restart.
RevokeKey(k) ==
  /\ revoked' = revoked \cup {k}
  /\ Admin /\ SameAgent /\ UNCHANGED <<pkg, object, upload, serverKey, pluginFaults>>
RotateKey ==
  /\ serverKey \in revoked /\ serverKey' \in SigningKey \ revoked
  /\ \A u \in Upload : upload[u].pc \in {"idle", "done"}
  /\ SameAgent /\ UNCHANGED <<pkg, object, upload, revoked, admin, pluginFaults>>

Offered == {v \in Version : pkg[v].active /\ ~pkg[v].deprecated}
\* the greatest by CompareVersion
Newest == {v \in Offered : \A w \in Offered : w <= v}
GetLatestVersion == Newest

(* ---- the puller ---- *)
\* refreshKeys: revoked keys are left out; an error keeps the old cache.
FetchedKeysLost == keys
FetchedKeys == SigningKey \ revoked
RefreshKeys ==
  /\ puller.pc = "keys" /\ puller' = [puller EXCEPT !.pc = "latest"]
  /\ \/ keys' = FetchedKeys /\ UNCHANGED pluginFaults
     \/ PluginFault /\ UNCHANGED keys
  /\ SameRegistry /\ UNCHANGED <<manifest, installed>>

CheckLatest ==
  /\ puller.pc = "latest"
  /\ \/ \E v \in GetLatestVersion :
          puller' = IF manifest.mem = [v |-> v, sha |-> pkg[v].sha] THEN RoundOver
                    ELSE [puller EXCEPT !.pc = "url", !.v = v, !.sha = pkg[v].sha,
                                        !.key = pkg[v].key]
     \/ GetLatestVersion = {} /\ puller' = RoundOver
  /\ SameRegistry /\ UNCHANGED <<keys, manifest, installed, pluginFaults>>

GetDownloadURL ==
  /\ puller.pc = "url"
  /\ puller' = IF puller.v \in Offered THEN [puller EXCEPT !.pc = "download"] ELSE RoundOver
  /\ SameRegistry /\ UNCHANGED <<keys, manifest, installed, pluginFaults>>

Download ==
  /\ puller.pc = "download"
  /\ puller' = IF object[puller.v] = NoBinary THEN RoundOver
               ELSE [puller EXCEPT !.pc = "verify", !.tmp = object[puller.v]]
  /\ SameRegistry /\ UNCHANGED <<keys, manifest, installed, pluginFaults>>

\* sha256, the key, the signature over the sha; then the rename
KeyKnown(p) == p.key \in keys
Verified(p) == KeyKnown(p) /\ p.tmp = p.sha
Install ==
  /\ puller.pc = "verify"
  /\ IF Verified(puller)
     THEN puller' = [puller EXCEPT !.pc = "manifest"] /\ installed' = puller.tmp
     ELSE puller' = RoundOver /\ UNCHANGED installed
  /\ SameRegistry /\ UNCHANGED <<keys, manifest, pluginFaults>>

\* The map is changed first; the file may fail to be written.
PutManifest ==
  LET e == [v |-> puller.v, sha |-> puller.tmp] IN
  /\ puller.pc = "manifest" /\ puller' = RoundOver
  /\ \/ manifest' = [mem |-> e, disk |-> e] /\ UNCHANGED pluginFaults
     \/ manifest' = [manifest EXCEPT !.mem = e] /\ PluginFault
  /\ SameRegistry /\ UNCHANGED <<keys, installed>>

\* A request or the download fails: the next round starts over.
PullFails ==
  /\ puller.pc \in {"latest", "url", "download"} /\ puller' = RoundOver
  /\ PluginFault /\ SameRegistry /\ UNCHANGED <<keys, manifest, installed>>
\* The agent dies and is started again: LoadManifest, an empty cache of keys.
AgentRestarts ==
  /\ puller' = RoundOver /\ keys' = {}
  /\ manifest' = [manifest EXCEPT !.mem = manifest.disk]
  /\ PluginFault /\ SameRegistry /\ UNCHANGED installed

PullerStep == RefreshKeys \/ CheckLatest \/ GetDownloadURL \/ Download \/ Install \/ PutManifest

PrNext ==
  \/ \E u \in Upload :
       \/ \E v \in Version, bin \in Binary : PutObject(u, v, bin)
       \/ InsertPackage(u) \/ RemoveObject(u) \/ UploadFails(u)
  \/ \E v \in Version : Deprecate(v) \/ \E on \in BOOLEAN : SetActive(v, on)
  \/ \E k \in SigningKey : RevokeKey(k)
  \/ RotateKey \/ PullerStep \/ PullFails \/ AgentRestarts

\* The puller's ticker goes on as long as the agent runs.
PrSpec == PrInit /\ [][PrNext]_prVars /\ WF_prVars(PullerStep)

(* ---- properties ---- *)

PrTypeOK ==
  /\ \A v \in Version : {pkg[v].sha, object[v]} \subseteq Binary \cup {NoBinary}
  /\ \A u \in Upload : upload[u].pc \in UploadPC /\ upload[u].v \in Version
  /\ puller.pc \in {"keys", "latest", "url", "download", "verify", "manifest"}
  /\ keys \subseteq SigningKey /\ revoked \subseteq SigningKey
  /\ installed \in Binary \cup {NoBinary}
  /\ admin \in 0..MaxAdmin /\ pluginFaults \in 0..MaxPluginFaults

\* The installed binary is the one some package of the registry was uploaded
\* with, although uploads overwrite and remove objects while it is downloaded;
\* and unless the agent was interrupted, the manifest tells which one.
InstalledVerified ==
  /\ installed # NoBinary => \E v \in Version : pkg[v].sha = installed
  /\ pluginFaults = 0 /\ puller.pc # "manifest" => manifest.mem.sha = installed

\* If in the end one version is the newest on offer, can be downloaded and
\* verified, and the manifest does not take another binary for it, then this
\* version is what stays installed.
Installable(v) ==
  /\ v \in Newest /\ object[v] = pkg[v].sha /\ pkg[v].key \notin revoked
  /\ manifest.mem.v = v => manifest.mem.sha = installed \/ puller.pc = "manifest"
PullerConverges ==
  \A v \in Version : <>[]Installable(v) => <>[](installed = pkg[v].sha)

\* Uploads that are over, failed ones included, leave every package with the
\* object it was uploaded with (pluginpkg/service.go, UploadPackage).
PackagesDownloadable ==
  (\A u \in Upload : upload[u].pc \in {"idle", "done"}) =>
    \A v \in Version : Exists(v) => object[v] = pkg[v].sha
=============================================================================
