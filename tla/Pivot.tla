------------------------------- MODULE Pivot -------------------------------
(***************************************************************************)
(* The bootstrap-and-pivot run of yage (internal/orchestrator/bootstrap.go *)
(* Run, internal/orchestrator/pivot_sequence.go, internal/capi/pivot).     *)
(*                                                                         *)
(* A run works on two management planes.  "kind" is the throw-away cluster *)
(* on the operator's machine; "mgmt" is the cluster that kind provisions   *)
(* on the provider and that takes over.  A plane stores the Cluster API    *)
(* objects (inv), the yage Secrets and the controllers that turn objects   *)
(* into machines (infra).  The run is a straight line of phases; each may  *)
(* fail, the process may be killed in any of them, and a later run starts  *)
(* again from what the planes hold.                                        *)
(*                                                                         *)
(* A definition marked "mutant" is a defect the next definition could have *)
(* had; no action uses it.  It shows which property would notice.          *)
(*                                                                         *)
(* Bounds: MaxRuns runs in a behaviour.  MaxApply and MaxMove are the      *)
(* code's own retry limits (3 and 2), kept as parameters.                  *)
(***************************************************************************)
EXTENDS Naturals, Sequences

CONSTANTS
    Cluster,       \* the clusters that can exist
    Workload,      \* cfg.WorkloadClusterName
    Mgmt,          \* cfg.Mgmt.ClusterName
    Namespace,     \* namespaces of Cluster API objects
    NsOf,          \* NsOf[c]: the namespace of cluster c
    PivotNs,       \* selectPivotNamespaces: the namespaces moved, in order
    Secret,        \* yage's Secrets, the per-config Secret excepted
    CfgSecret,     \* proxmox-bootstrap-config, the one yage writes itself
    VerifySecret,  \* PivotTarget.VerifySecrets
    Named,         \* the Secrets expectedHandoffTargets lists
    Labelled,      \* the Secrets of yage-system with the label managed-by=yage
    Options,       \* the command lines a run may be started with, and its luck
    PivotSupported,\* does the provider implement PivotTarget
    MaxRuns, MaxApply, MaxMove

(* "faults" is no switch: it tells the runs in which calls may fail and    *)
(* that may be killed from those nothing happens to.                       *)
Option == [pivot : BOOLEAN, dryRun : BOOLEAN, stop : BOOLEAN, keep : BOOLEAN,
           force : BOOLEAN, noDelete : BOOLEAN, faults : BOOLEAN]

ASSUME ClusterAssumption == Workload \in Cluster /\ Mgmt \in Cluster
ASSUME NsAssumption == NsOf \in [Cluster -> Namespace]
ASSUME PivotNsAssumption == PivotNs \in Seq(Namespace)
ASSUME SecretAssumption == CfgSecret \in Secret /\ VerifySecret \subseteq Secret
                                         /\ Named \subseteq Secret /\ Labelled \subseteq Secret
ASSUME OptionAssumption == Options \subseteq Option
ASSUME FlagAssumption == PivotSupported \in BOOLEAN
ASSUME BoundAssumption == MaxRuns \in Nat /\ MaxApply \in Nat /\ MaxMove \in Nat

VARIABLES
    kindUp,    \* the kind cluster exists
    capi,      \* capi[p]: how far Cluster API is installed on plane p
    infraRec,  \* kind's provider controllers have replicas
    inv,       \* inv[p]: the clusters whose objects plane p stores
    paused,    \* paused[p]: those of them with spec.paused
    doomed,    \* clusters of kind with a deletion timestamp
    infra,     \* clusters that have machines on the provider
    secrets,   \* secrets[p]: the yage Secrets on plane p
    config,    \* config[p]: status label of the per-config Secret
    repos,     \* repos[p]: yage-system and the yage-repos volume
    pc, opt, rebound, ctxLost, attempt, mv, outcome, runs  \* the run itself

planes == <<kindUp, capi, infraRec, inv, paused, doomed, infra,
            secrets, config, repos>>
local  == <<opt, rebound, ctxLost, attempt, mv, outcome, runs>>
vars   == <<planes, pc, local>>

Plane     == {"kind", "mgmt"}
CapiState == {"none", "partial", "installed", "ready"}
CfgState  == {"none", "draft", "realized"}
RepoState == {"none", "system", "synced"}
Outcome   == {"none", "ok", "dead", "killed"}

MovePhase == {"moveCopy", "moveDelete"}
Phase == {"idle", "kind", "reap", "kindDelete", "kindCreate", "sync", "init",
          "initWait", "capacity", "system", "gate", "applyMgmt", "waitMgmt",
          "installMgmt", "quiesce", "move", "handoff", "mgmtSystem",
          "mgmtRepos", "verify", "rebind", "stop", "applyWorkload", "ready",
          "teardown", "promote"} \cup MovePhase

(* Every value has its type. *)
TypeOK ==
    /\ kindUp \in BOOLEAN /\ infraRec \in BOOLEAN
    /\ capi \in [Plane -> CapiState]
    /\ inv \in [Plane -> SUBSET Cluster] /\ paused \in [Plane -> SUBSET Cluster]
    /\ doomed \subseteq Cluster /\ infra \subseteq Cluster
    /\ secrets \in [Plane -> SUBSET Secret]
    /\ config \in [Plane -> CfgState] /\ repos \in [Plane -> RepoState]
    /\ pc \in Phase /\ opt \in Option
    /\ rebound \in BOOLEAN /\ ctxLost \in BOOLEAN
    /\ attempt \in Nat /\ mv \in Nat \ {0}
    /\ outcome \in Outcome /\ runs \in Nat

(***************************************************************************)
(* Nothing exists before the first run.                                    *)
(***************************************************************************)
NoOptions == [pivot |-> FALSE, dryRun |-> FALSE, stop |-> FALSE, keep |-> FALSE,
              force |-> FALSE, noDelete |-> FALSE, faults |-> FALSE]

Init ==
    /\ kindUp = FALSE /\ infraRec = FALSE
    /\ capi = [p \in Plane |-> "none"]
    /\ inv = [p \in Plane |-> {}] /\ paused = [p \in Plane |-> {}]
    /\ doomed = {} /\ infra = {}
    /\ secrets = [p \in Plane |-> {}]
    /\ config = [p \in Plane |-> "none"] /\ repos = [p \in Plane |-> "none"]
    /\ pc = "idle" /\ opt = NoOptions
    /\ rebound = FALSE /\ ctxLost = FALSE
    /\ attempt = 1 /\ mv = 1 /\ outcome = "none" /\ runs = 0

(***************************************************************************)
(* How a run moves on, ends and is cut short.                              *)
(***************************************************************************)
Goto(p) == pc' = p /\ UNCHANGED local

End(o) == /\ pc' = "idle" /\ outcome' = o
          /\ UNCHANGED <<opt, rebound, ctxLost, attempt, mv, runs>>

(* logx.Die: the process exits and leaves the planes as they are.          *)
Die == End("dead") /\ UNCHANGED planes

(* A call the run makes may fail although nothing prevents its success.    *)
Fault == opt.faults /\ Die

(* The plane that the context "kind-<name>" reaches.                       *)
Target == IF rebound THEN "mgmt" ELSE "kind"

TargetAlive == IF rebound THEN ~ctxLost ELSE kindUp

Here(p, ns) == {c \in inv[p] : NsOf[c] = ns}

(* Kind's machine controllers run only with Cluster API and replicas.      *)
Reconciling(p) == /\ capi[p] = "ready"
                  /\ p = "kind" => kindUp /\ infraRec

Active(p) == IF Reconciling(p) THEN inv[p] \ paused[p] ELSE {}

StartRun ==
    /\ pc = "idle" /\ runs < MaxRuns
    /\ pc' = "kind" /\ runs' = runs + 1
    /\ opt' \in Options
    /\ rebound' = FALSE /\ ctxLost' = FALSE
    /\ attempt' = 1 /\ mv' = 1 /\ outcome' = "none"
    /\ UNCHANGED planes

(***************************************************************************)
(* The kind phase: reuse, or delete and create.                            *)
(***************************************************************************)
CheckKind ==
    /\ pc = "kind"
    /\ Goto(CASE ~kindUp -> "kindCreate"
              [] kindUp /\ opt.force /\ ~opt.noDelete -> "reap"
              [] OTHER -> "sync")
    /\ UNCHANGED planes

(* DeleteWorkloadClusterBeforeKindDeletion: delete the workload Cluster.   *)
MarkWorkload == doomed' = doomed \cup ({Workload} \cap inv["kind"])

DeleteWorkload ==
    /\ pc = "reap"
    /\ MarkWorkload
    /\ Goto("kindDelete")
    /\ UNCHANGED <<kindUp, capi, infraRec, inv, paused, infra, secrets, config,
                   repos>>

(* What goes with the kind cluster.                                        *)
LoseKind == /\ kindUp' = FALSE /\ infraRec' = FALSE /\ doomed' = {}
            /\ capi' = [capi EXCEPT !["kind"] = "none"]
            /\ inv' = [inv EXCEPT !["kind"] = {}]
            /\ paused' = [paused EXCEPT !["kind"] = {}]
            /\ secrets' = [secrets EXCEPT !["kind"] = {}]
            /\ config' = [config EXCEPT !["kind"] = "none"]
            /\ repos' = [repos EXCEPT !["kind"] = "none"]
            /\ UNCHANGED infra

(* The wait for the deletion has a time limit whose error is dropped, so   *)
(* the delete of kind follows whether or not the workload is gone.         *)
DeleteKind ==
    /\ pc = "kindDelete"
    /\ (Workload \in doomed \cap Active("kind")) => opt.faults
    /\ LoseKind
    /\ Goto("kindCreate")

DeleteKindFails == pc = "kindDelete" /\ Fault

CreateKind ==
    /\ pc = "kindCreate"
    /\ kindUp' = TRUE
    /\ Goto("sync")
    /\ UNCHANGED <<capi, infraRec, inv, paused, doomed, infra, secrets, config,
                   repos>>

CreateKindFails == pc = "kindCreate" /\ Fault

(* SyncBootstrapConfigToKind; its error is dropped.                        *)
SyncBootstrapConfigToKind ==
    /\ pc = "sync"
    /\ \/ secrets' = [secrets EXCEPT !["kind"] = @ \cup {CfgSecret}]
       \/ opt.faults /\ UNCHANGED secrets
    /\ Goto("init")
    /\ UNCHANGED <<kindUp, capi, infraRec, inv, paused, doomed, infra, config,
                   repos>>

(***************************************************************************)
(* Cluster API on kind.  On a reused kind the providers are there already: *)
(* clusterctl may restore their replicas or leave them as it finds them.   *)
(***************************************************************************)
ClusterctlInit ==
    /\ pc = "init"
    /\ capi' = [capi EXCEPT !["kind"] = IF @ = "ready" THEN @ ELSE "installed"]
    /\ infraRec' \in (IF capi["kind"] = "none" THEN {TRUE} ELSE {infraRec, TRUE})
    /\ Goto("initWait")
    /\ UNCHANGED <<kindUp, inv, paused, doomed, infra, secrets, config, repos>>

(* clusterctl refuses, or breaks off half-way.                             *)
ClusterctlInitFails ==
    /\ pc = "init"
    /\ opt.faults \/ capi["kind"] # "none"
    /\ End("dead")
    /\ \/ UNCHANGED planes
       \/ /\ capi["kind"] = "none"
          /\ capi' = [capi EXCEPT !["kind"] = "partial"]
          /\ infraRec' \in BOOLEAN
          /\ UNCHANGED <<kindUp, inv, paused, doomed, infra, secrets, config,
                         repos>>

(* Deployments and webhook endpoints; no endpoint comes up at 0 replicas.  *)
InitReady ==
    /\ pc = "initWait" /\ infraRec
    /\ capi' = [capi EXCEPT !["kind"] = "ready"]
    /\ Goto("capacity")
    /\ UNCHANGED <<kindUp, infraRec, inv, paused, doomed, infra, secrets,
                   config, repos>>

InitNotReady == pc = "initWait" /\ (infraRec => opt.faults) /\ Die

(* preflightCapacity and EnsureGroup: nothing on the planes changes.       *)
CapacityFits == pc = "capacity" /\ Goto("system") /\ UNCHANGED planes

CapacityExceeded == pc = "capacity" /\ Fault

(* EnsureYageSystemOnCluster and EnsureRepoSync on kind.                   *)
EnsureKindSystem ==
    /\ pc = "system"
    /\ repos' = [repos EXCEPT !["kind"] = "synced"]
    /\ Goto("gate")
    /\ UNCHANGED <<kindUp, capi, infraRec, inv, paused, doomed, infra, secrets,
                   config>>

EnsureKindSystemFails == pc = "system" /\ Fault

(***************************************************************************)
(* The pivot.  A provider without PivotTarget turns it off silently.       *)
(***************************************************************************)
PivotGate ==
    /\ pc = "gate"
    /\ opt' = [opt EXCEPT !.pivot = @ /\ PivotSupported]
    /\ pc' = IF opt'.pivot THEN "applyMgmt" ELSE "stop"
    /\ attempt' = 1
    /\ UNCHANGED <<planes, rebound, ctxLost, mv, outcome, runs>>

(* A manifest is applied document by document: one that breaks off may     *)
(* have created the Cluster.  The last attempt is fatal.                   *)
Apply(p, c) == inv' = [inv EXCEPT ![p] = @ \cup {c}]

RetryOrDie(limit) ==
    IF attempt < limit
      THEN /\ attempt' = attempt + 1
           /\ UNCHANGED <<pc, opt, rebound, ctxLost, mv, outcome, runs>>
      ELSE End("dead")

ApplyMgmtManifest ==
    /\ pc = "applyMgmt"
    /\ Apply("kind", Mgmt)
    /\ Goto("waitMgmt")
    /\ UNCHANGED <<kindUp, capi, infraRec, paused, doomed, infra, secrets,
                   config, repos>>

ApplyMgmtManifestFails ==
    /\ pc = "applyMgmt" /\ opt.faults
    /\ Apply("kind", Mgmt) \/ UNCHANGED inv
    /\ RetryOrDie(MaxApply)
    /\ UNCHANGED <<kindUp, capi, infraRec, paused, doomed, infra, secrets,
                   config, repos>>

(* waitClusterAvailable, then fetchManagementKubeconfig.                   *)
MgmtAvailable ==
    /\ pc = "waitMgmt" /\ Mgmt \in infra \cap inv["kind"]
    /\ Goto("installMgmt")
    /\ UNCHANGED planes

MgmtNotAvailable ==
    /\ pc = "waitMgmt"
    /\ opt.faults \/ Mgmt \notin infra \cup Active("kind")
    /\ Die

(* InstallCAPIOnManagement skips everything, the wait for the controllers  *)
(* included, when the three namespaces exist.                              *)
InstallSkips == capi["mgmt"] \in {"installed", "ready"}

InstallCAPIOnManagement ==
    /\ pc = "installMgmt"
    /\ capi' = IF InstallSkips THEN capi ELSE [capi EXCEPT !["mgmt"] = "ready"]
    /\ Goto("quiesce")
    /\ UNCHANGED <<kindUp, infraRec, inv, paused, doomed, infra, secrets,
                   config, repos>>

InstallCAPIOnManagementFails ==
    /\ pc = "installMgmt" /\ opt.faults
    /\ \/ UNCHANGED capi
       \/ /\ ~InstallSkips
          /\ \E s \in {"partial", "installed"} :
                capi' = [capi EXCEPT !["mgmt"] = s]
    /\ End("dead")
    /\ UNCHANGED <<kindUp, infraRec, inv, paused, doomed, infra, secrets,
                   config, repos>>

(* MoveCAPIState: scaleDeploymentsToZero first, best effort, also in a     *)
(* dry run.                                                                *)
StartMoveAtZero == pc' = "move" /\ mv' = 0 /\ attempt' = 1  \* mutant
StartMove == pc' = "move" /\ mv' = 1 /\ attempt' = 1

ScaleDeploymentsToZero ==
    /\ pc = "quiesce"
    /\ infraRec' \in (IF opt.faults THEN {FALSE, infraRec} ELSE {FALSE})
    /\ StartMove
    /\ UNCHANGED <<kindUp, capi, inv, paused, doomed, infra, secrets, config,
                   repos, opt, rebound, ctxLost, outcome, runs>>

(***************************************************************************)
(* One `clusterctl move` per namespace, at most MaxMove attempts.  The     *)
(* command pauses the objects, copies them paused, deletes the originals   *)
(* and unpauses the copies; what an earlier attempt finished it finds gone *)
(* from the source.                                                        *)
(***************************************************************************)
Moving == pc = "move" /\ mv <= Len(PivotNs) /\ ~opt.dryRun

Movable == /\ capi["mgmt"] = "ready"
           /\ Here("kind", PivotNs[mv]) \subseteq infra

MovePause ==
    /\ Moving /\ Movable
    /\ paused' = [paused EXCEPT !["kind"] = @ \cup Here("kind", PivotNs[mv])]
    /\ Goto("moveCopy")
    /\ UNCHANGED <<kindUp, capi, infraRec, inv, doomed, infra, secrets, config,
                   repos>>

CopyToMgmt(S) == /\ inv' = [inv EXCEPT !["mgmt"] = @ \cup S]
                 /\ paused' = [paused EXCEPT !["mgmt"] = @ \cup S]

MoveCopy ==
    /\ pc = "moveCopy"
    /\ CopyToMgmt(Here("kind", PivotNs[mv]))
    /\ Goto("moveDelete")
    /\ UNCHANGED <<kindUp, capi, infraRec, doomed, infra, secrets, config,
                   repos>>

DropAllFromKind(S) == inv' = [inv EXCEPT !["kind"] = {}]  \* mutant
DropFromKind(S) == inv' = [inv EXCEPT !["kind"] = @ \ S]

MoveDelete ==
    /\ pc = "moveDelete"
    /\ LET S == Here("kind", PivotNs[mv])
       IN /\ DropFromKind(S)
          /\ paused' = [p \in Plane |-> paused[p] \ S]
          /\ doomed' = doomed \ S
    /\ pc' = "move" /\ mv' = mv + 1 /\ attempt' = 1
    /\ UNCHANGED <<kindUp, capi, infraRec, infra, secrets, config, repos,
                   opt, rebound, ctxLost, outcome, runs>>

(* An attempt is refused before it changes anything.                       *)
MoveRefused ==
    /\ Moving /\ (opt.faults \/ ~Movable)
    /\ RetryOrDie(MaxMove)
    /\ UNCHANGED planes

RetryMoveOrDie ==
    IF attempt < MaxMove
      THEN /\ pc' = "move" /\ attempt' = attempt + 1
           /\ UNCHANGED <<opt, rebound, ctxLost, mv, outcome, runs>>
      ELSE End("dead")

(* An attempt breaks off while it copies or while it deletes.              *)
MoveCopyBreaks ==
    /\ pc = "moveCopy" /\ opt.faults
    /\ \E S \in SUBSET Here("kind", PivotNs[mv]) : CopyToMgmt(S)
    /\ RetryMoveOrDie
    /\ UNCHANGED <<kindUp, capi, infraRec, doomed, infra, secrets, config,
                   repos>>

MoveDeleteBreaks ==
    /\ pc = "moveDelete" /\ opt.faults
    /\ \E S \in SUBSET Here("kind", PivotNs[mv]) :
          /\ DropFromKind(S)
          /\ paused' = [paused EXCEPT !["kind"] = @ \ S]
          /\ doomed' = doomed \ S
    /\ RetryMoveOrDie
    /\ UNCHANGED <<kindUp, capi, infraRec, infra, secrets, config, repos>>

(* `clusterctl move --dry-run` logs its plan; a failure is not retried.    *)
MoveDryRun ==
    /\ pc = "move" /\ mv <= Len(PivotNs) /\ opt.dryRun
    /\ pc' = pc /\ mv' = mv + 1
    /\ UNCHANGED <<planes, opt, rebound, ctxLost, attempt, outcome, runs>>

MoveDryRunFails ==
    /\ pc = "move" /\ mv <= Len(PivotNs) /\ opt.dryRun
    /\ opt.faults \/ ~Movable
    /\ Die

MoveDone ==
    /\ pc = "move" /\ mv > Len(PivotNs)
    /\ IF opt.dryRun THEN End("ok") ELSE Goto("handoff")
    /\ UNCHANGED planes

(***************************************************************************)
(* HandOffBootstrapSecretsToManagement: every Secret is tried, an error is *)
(* logged and the sequence goes on.                                        *)
(***************************************************************************)
OwnSecretOnly == secrets["kind"] \cap {CfgSecret}  \* mutant
HandOffTargets == secrets["kind"] \cap Named

(* The namespaces of the saved configurations, with their Secrets.         *)
HandOffConfig == IF config["kind"] = "none" THEN config
                 ELSE [config EXCEPT !["mgmt"] = config["kind"]]

(* The second pass goes by label, and tries what the first did not copy.   *)
copyYageSystemSecrets(copied) == (secrets["kind"] \cap Labelled) \ copied

HandOff ==
    /\ pc = "handoff"
    /\ \E S \in SUBSET HandOffTargets, withConfig \in BOOLEAN :
         \E L \in SUBSET copyYageSystemSecrets(S) :
          /\ \/ opt.faults
             \/ S = HandOffTargets /\ withConfig /\ L = copyYageSystemSecrets(S)
          /\ secrets' = [secrets EXCEPT !["mgmt"] = @ \cup S \cup L]
          /\ config' = IF withConfig THEN HandOffConfig ELSE config
    /\ Goto("mgmtSystem")
    /\ UNCHANGED <<kindUp, capi, infraRec, inv, paused, doomed, infra, repos>>

(* EnsureYageSystemOnCluster, the CSI drivers, EnsureRepoSync on mgmt.     *)
EnsureMgmtSystem ==
    /\ pc = "mgmtSystem"
    /\ repos' = [repos EXCEPT !["mgmt"] = IF @ = "none" THEN "system" ELSE @]
    /\ Goto("mgmtRepos")
    /\ UNCHANGED <<kindUp, capi, infraRec, inv, paused, doomed, infra, secrets,
                   config>>

EnsureMgmtSystemFails ==
    /\ pc = "mgmtSystem" /\ opt.faults
    /\ repos' \in {repos, [repos EXCEPT !["mgmt"] = IF @ = "none" THEN "system"
                                                     ELSE @]}
    /\ End("dead")
    /\ UNCHANGED <<kindUp, capi, infraRec, inv, paused, doomed, infra, secrets,
                   config>>

EnsureMgmtRepos ==
    /\ pc = "mgmtRepos"
    /\ repos' = [repos EXCEPT !["mgmt"] = "synced"]
    /\ Goto("verify")
    /\ UNCHANGED <<kindUp, capi, infraRec, inv, paused, doomed, infra, secrets,
                   config>>

EnsureMgmtReposFails == pc = "mgmtRepos" /\ Fault

(* VerifyParity polls until all of this holds or its time is up.           *)
ParityHolds == /\ Workload \in inv["mgmt"]
               /\ VerifySecret \subseteq secrets["mgmt"]
               /\ capi["mgmt"] = "ready"
               /\ repos["mgmt"] = "synced"

SecretsUnchecked == Workload \in inv["mgmt"] /\ capi["mgmt"] = "ready"  \* mutant
ParityChecked == ParityHolds

VerifyParity ==
    /\ pc = "verify" /\ ParityChecked
    /\ Goto("rebind")
    /\ UNCHANGED planes

VerifyParityNeverExpires == FALSE  \* mutant

VerifyParityExpires ==
    /\ pc = "verify"
    /\ opt.faults \/ (~ParityHolds /\ capi["mgmt"] # "installed")
    /\ Die

(* rebindKindContextToMgmt: "kind-<name>" now reaches mgmt.                *)
Rebind ==
    /\ pc = "rebind"
    /\ pc' = "stop" /\ rebound' = TRUE
    /\ UNCHANGED <<planes, opt, ctxLost, attempt, mv, outcome, runs>>

RebindFails == pc = "rebind" /\ Fault

(***************************************************************************)
(* The workload, the teardown of kind and the promotion.                   *)
(***************************************************************************)
StopFallsThrough ==  \* mutant
    /\ pc = "stop"
    /\ pc' = (IF opt.stop THEN "promote" ELSE "applyWorkload") /\ attempt' = 1
    /\ UNCHANGED <<planes, opt, rebound, ctxLost, mv, outcome, runs>>

StopBeforeWorkload ==
    /\ pc = "stop"
    /\ IF opt.stop
         THEN End("ok")
         ELSE /\ pc' = "applyWorkload" /\ attempt' = 1
              /\ UNCHANGED <<opt, rebound, ctxLost, mv, outcome, runs>>
    /\ UNCHANGED planes

AlwaysKind == "kind"  \* mutant
ApplyTarget == Target

(* Rendering the manifest may write the bootstrap config to the plane the  *)
(* context reaches.                                                        *)
SyncOnRender == secrets' \in {secrets,
                              [secrets EXCEPT ![Target] = @ \cup {CfgSecret}]}

ApplyWorkloadManifest ==
    /\ pc = "applyWorkload" /\ SyncOnRender
    /\ Apply(ApplyTarget, Workload)
    /\ Goto("ready")
    /\ UNCHANGED <<kindUp, capi, infraRec, paused, doomed, infra, config, repos>>

ApplyWorkloadManifestFails ==
    /\ pc = "applyWorkload" /\ opt.faults /\ SyncOnRender
    /\ Apply(ApplyTarget, Workload) \/ UNCHANGED inv
    /\ RetryOrDie(MaxApply)
    /\ UNCHANGED <<kindUp, capi, infraRec, paused, doomed, infra, config, repos>>

(* WaitForWorkloadClusterReady; what follows it only warns.                *)
WorkloadReady ==
    /\ pc = "ready" /\ Workload \in infra \cap inv[Target]
    /\ Goto("teardown")
    /\ UNCHANGED planes

WorkloadNotReady ==
    /\ pc = "ready"
    /\ opt.faults \/ Workload \notin infra \cup Active(Target)
    /\ Die

TearsDownUnpivoted == ~opt.keep /\ ~opt.noDelete  \* mutant
TearsDown == opt.pivot /\ ~opt.keep /\ ~opt.noDelete

(* kind removes its context from the kubeconfig in use, the rebound file,  *)
(* before it removes the containers; a failure is a warning.               *)
TeardownKind ==
    /\ pc = "teardown" /\ TearsDown /\ kindUp
    /\ LoseKind
    /\ pc' = "promote" /\ ctxLost' = rebound
    /\ UNCHANGED <<opt, rebound, attempt, mv, outcome, runs>>

TeardownKindFails ==
    /\ pc = "teardown" /\ TearsDown /\ opt.faults
    /\ pc' = "promote" /\ ctxLost' \in {FALSE, rebound}
    /\ UNCHANGED <<planes, opt, rebound, attempt, mv, outcome, runs>>

TeardownSkipped ==
    /\ pc = "teardown" /\ ~(TearsDown /\ kindUp)
    /\ Goto("promote")
    /\ UNCHANGED planes

PromoteBootstrapConfigToRealized ==
    /\ pc = "promote"
    /\ \/ /\ TargetAlive /\ config[Target] # "none"
          /\ config' = [config EXCEPT ![Target] = "realized"]
       \/ /\ (TargetAlive /\ config[Target] # "none") => opt.faults
          /\ UNCHANGED config
    /\ End("ok")
    /\ UNCHANGED <<kindUp, capi, infraRec, inv, paused, doomed, infra, secrets,
                   repos>>

(***************************************************************************)
(* The process is killed.  A move under way may have got anywhere: its     *)
(* steps are actions of their own.                                         *)
(***************************************************************************)
Kill == opt.faults /\ pc # "idle" /\ End("killed") /\ UNCHANGED planes

(***************************************************************************)
(* The controllers, the TUI and the operator, outside the run.             *)
(***************************************************************************)
Provision(p, c) ==
    /\ c \in Active(p) /\ c \notin infra
    /\ p = "kind" => c \notin doomed
    /\ infra' = infra \cup {c}
    /\ UNCHANGED <<kindUp, capi, infraRec, inv, paused, doomed, secrets, config,
                   repos, pc, local>>

Reap(c) ==
    /\ c \in doomed \cap Active("kind")
    /\ infra' = infra \ {c} /\ doomed' = doomed \ {c}
    /\ inv' = [inv EXCEPT !["kind"] = @ \ {c}]
    /\ UNCHANGED <<kindUp, capi, infraRec, paused, secrets, config, repos, pc,
                   local>>

MgmtControllersComeUp ==
    /\ capi["mgmt"] = "installed"
    /\ capi' = [capi EXCEPT !["mgmt"] = "ready"]
    /\ UNCHANGED <<kindUp, infraRec, inv, paused, doomed, infra, secrets,
                   config, repos, pc, local>>

(* WriteBootstrapConfigSecret: the TUI saves a draft before it starts Run. *)
WriteBootstrapConfigSecret ==
    /\ pc = "idle" /\ kindUp
    /\ config' = [config EXCEPT !["kind"] = "draft"]
    /\ UNCHANGED <<kindUp, capi, infraRec, inv, paused, doomed, infra, secrets,
                   repos, pc, local>>

(* The Secrets yage reads and never writes come from the operator.         *)
OperatorWrites(s) ==
    /\ kindUp /\ s # CfgSecret /\ s \notin secrets["kind"]
    /\ secrets' = [secrets EXCEPT !["kind"] = @ \cup {s}]
    /\ UNCHANGED <<kindUp, capi, infraRec, inv, paused, doomed, infra, config,
                   repos, pc, local>>

(* Earlier runs for other workload clusters used the same kind.            *)
OtherRun(c) ==
    /\ pc = "idle" /\ capi["kind"] = "ready" /\ c \notin {Workload, Mgmt}
    /\ inv' = [inv EXCEPT !["kind"] = @ \cup {c}]
    /\ UNCHANGED <<kindUp, capi, infraRec, paused, doomed, infra, secrets,
                   config, repos, pc, local>>

KindSteps == \/ CheckKind \/ DeleteWorkload \/ DeleteKind \/ DeleteKindFails
             \/ CreateKind \/ CreateKindFails \/ SyncBootstrapConfigToKind
             \/ ClusterctlInit \/ ClusterctlInitFails \/ InitReady
             \/ InitNotReady \/ CapacityFits \/ CapacityExceeded
             \/ EnsureKindSystem \/ EnsureKindSystemFails

MgmtSteps == \/ PivotGate \/ ApplyMgmtManifest \/ ApplyMgmtManifestFails
             \/ MgmtAvailable \/ MgmtNotAvailable \/ InstallCAPIOnManagement
             \/ InstallCAPIOnManagementFails \/ ScaleDeploymentsToZero

MoveSteps == \/ MovePause \/ MoveCopy \/ MoveDelete \/ MoveRefused
             \/ MoveCopyBreaks \/ MoveDeleteBreaks \/ MoveDryRun
             \/ MoveDryRunFails \/ MoveDone

ParitySteps == \/ HandOff \/ EnsureMgmtSystem \/ EnsureMgmtSystemFails
               \/ EnsureMgmtRepos \/ EnsureMgmtReposFails \/ VerifyParity
               \/ VerifyParityExpires \/ Rebind \/ RebindFails

WorkloadSteps == \/ StopBeforeWorkload \/ ApplyWorkloadManifest
                 \/ ApplyWorkloadManifestFails \/ WorkloadReady
                 \/ WorkloadNotReady \/ TeardownKind \/ TeardownKindFails
                 \/ TeardownSkipped \/ PromoteBootstrapConfigToRealized

RunStep == KindSteps \/ MgmtSteps \/ MoveSteps \/ ParitySteps \/ WorkloadSteps

Controllers == \/ \E p \in Plane, c \in Cluster : Provision(p, c)
               \/ \E c \in Cluster : Reap(c)
               \/ MgmtControllersComeUp

Operator == \/ WriteBootstrapConfigSecret
            \/ \E s \in Secret : OperatorWrites(s)
            \/ \E c \in Cluster : OtherRun(c)

Next == StartRun \/ RunStep \/ Kill \/ Controllers \/ Operator

Spec == Init /\ [][Next]_vars

(* The run's own statements are executed and its controllers work; nobody  *)
(* has to start a run, kill one or write a Secret.                         *)
Fairness == /\ WF_vars(RunStep)
            /\ \A p \in Plane, c \in Cluster : WF_vars(Provision(p, c))
            /\ \A c \in Cluster : WF_vars(Reap(c))
            /\ WF_vars(MgmtControllersComeUp)

FairSpec == Spec /\ Fairness

(***************************************************************************)
(* What the run promises.  The first block holds of every run without      *)
(* --force whose namespaces are all moved.                                 *)
(***************************************************************************)

(* A cluster with machines on the provider is never without the objects    *)
(* that describe it: through retries, broken moves, kills and the teardown *)
(* of kind, some plane stores them (MoveCAPIState, TeardownKind).          *)
ClusterHeld == infra \subseteq inv["kind"] \cup inv["mgmt"]

(* The pivot implements the promise of Custody: kind gives up a live       *)
(* cluster only when the management cluster already stored it.             *)
PivotCustody == INSTANCE Custody WITH live <- infra, holder <- inv
ImplementsCustody == PivotCustody!Spec

(* From the move on, no step of a pivot puts a cluster under controllers   *)
(* of both planes (the move pauses before it copies and deletes before it  *)
(* unpauses; after the rebind manifests go to mgmt).                       *)
Contested == Active("kind") \cap Active("mgmt")
PivotContestsNothing ==
    [][opt.pivot /\ (MoveSteps \/ ParitySteps \/ WorkloadSteps)
          => Contested' \subseteq Contested]_vars

(* kind is torn down after a pivot only while everything VerifyParity      *)
(* asked for is still on mgmt and kind holds no live cluster any more      *)
(* (VerifyParity runs three phases and a long wait before TeardownKind).   *)
ParityAtTeardown == pc = "teardown" /\ kindUp /\ ~kindUp' =>
                        ParityHolds /\ inv["kind"] \cap infra = {}
TeardownKeepsParity == [][ParityAtTeardown]_vars

(* A per-config Secret marked realized belongs to a workload that has      *)
(* machines (PromoteBootstrapConfigToRealized runs on the success path     *)
(* only, and HandOff copies labels as they are).                           *)
RealizedHasMachines ==
    \A p \in Plane : config[p] = "realized" => Workload \in infra

(* Whatever fails, a run ends: every wait has a limit, every retry a bound.*)
RunEnds == pc # "idle" ~> pc = "idle"

(* When nothing fails in it, a pivot that reaches the hand-off with the    *)
(* workload moved and the provider's Secrets on kind goes through to its   *)
(* end, whatever went wrong in the runs before it.                         *)
HandOffCompletes ==
    (/\ pc = "handoff" /\ ~opt.faults
     /\ Workload \in inv["mgmt"] /\ VerifySecret \subseteq secrets["kind"])
        ~> (pc = "idle" /\ outcome = "ok")

(***************************************************************************)
(* What the source says of the run and the run does not do: each is        *)
(* checked by a run of its own that finds it violated.                     *)
(***************************************************************************)

(* "The move brings the workload Cluster object across": when no call      *)
(* fails, a pivot run does not end in logx.Die.                            *)
FaultFreeRunSurvives == outcome # "dead"

(* "Promote the bootstrap-config Secret from draft to realized now that    *)
(* the full bootstrap has completed successfully": wherever the run left   *)
(* the Secret, it is no longer a draft.                                    *)
SuccessIsPromoted ==
    pc = "idle" /\ outcome = "ok" /\ opt.pivot /\ ~opt.dryRun /\ ~opt.stop
        => config[Target] # "draft"

=============================================================================
