---------------------------- MODULE PivotProofs ----------------------------
(***************************************************************************)
(* Theorems about Pivot, for every set of clusters, namespaces, Secrets    *)
(* and command lines and every number of runs.                             *)
(***************************************************************************)
EXTENDS Pivot, TLAPS

(***************************************************************************)
(* Type correctness, one lemma per group of phases.                        *)
(***************************************************************************)
USE DEF Plane, CapiState, CfgState, RepoState, Outcome, MovePhase, Phase,
        Option

LEMMA ConstantsTyped ==
    /\ Workload \in Cluster /\ Mgmt \in Cluster
    /\ CfgSecret \in Secret /\ VerifySecret \subseteq Secret
    /\ Named \subseteq Secret /\ Labelled \subseteq Secret
    /\ Options \subseteq Option
    /\ PivotSupported \in BOOLEAN
  BY ClusterAssumption, SecretAssumption, OptionAssumption, FlagAssumption

LEMMA InitTyped == Init => TypeOK
  <1> SUFFICES ASSUME Init PROVE TypeOK
    OBVIOUS
  <1>1. opt \in Option
    BY DEF Init, NoOptions
  <1>2. inv \in [Plane -> SUBSET Cluster] /\ paused \in [Plane -> SUBSET Cluster]
    BY DEF Init
  <1>3. /\ capi \in [Plane -> CapiState] /\ secrets \in [Plane -> SUBSET Secret]
        /\ config \in [Plane -> CfgState] /\ repos \in [Plane -> RepoState]
    BY DEF Init
  <1>4. /\ pc \in Phase /\ outcome \in Outcome
        /\ attempt \in Nat /\ mv \in Nat \ {0} /\ runs \in Nat
    BY DEF Init
  <1>5. /\ kindUp \in BOOLEAN /\ infraRec \in BOOLEAN
        /\ rebound \in BOOLEAN /\ ctxLost \in BOOLEAN
        /\ doomed \subseteq Cluster /\ infra \subseteq Cluster
    BY DEF Init
  <1> QED
    BY <1>1, <1>2, <1>3, <1>4, <1>5 DEF TypeOK

LEMMA KindTyped == TypeOK /\ KindSteps => TypeOK'
  <1> SUFFICES ASSUME TypeOK, KindSteps PROVE TypeOK'
    OBVIOUS
  <1> USE ConstantsTyped DEF TypeOK, planes, local, Goto, End, Die, Fault
  <1>1. CASE CheckKind
    BY <1>1 DEF CheckKind
  <1>2. CASE DeleteWorkload
    BY <1>2 DEF DeleteWorkload, MarkWorkload
  <1>3. CASE DeleteKind
    <2>1. pc' = "kindCreate" /\ UNCHANGED local /\ LoseKind
      BY <1>3 DEF DeleteKind
    <2> HIDE DEF Option
    <2> QED
      BY <2>1 DEF LoseKind
  <1>4. CASE DeleteKindFails
    BY <1>4 DEF DeleteKindFails
  <1>5. CASE CreateKind
    BY <1>5 DEF CreateKind
  <1>6. CASE CreateKindFails
    BY <1>6 DEF CreateKindFails
  <1>7. CASE SyncBootstrapConfigToKind
    BY <1>7 DEF SyncBootstrapConfigToKind
  <1>8. CASE ClusterctlInit
    <2>1. infraRec' \in BOOLEAN
      BY <1>8 DEF ClusterctlInit
    <2>2. capi' \in [Plane -> CapiState]
      BY <1>8 DEF ClusterctlInit
    <2> QED
      BY <1>8, <2>1, <2>2 DEF ClusterctlInit
  <1>9. CASE ClusterctlInitFails
    BY <1>9 DEF ClusterctlInitFails
  <1>10. CASE InitReady
    BY <1>10 DEF InitReady
  <1>11. CASE InitNotReady
    BY <1>11 DEF InitNotReady
  <1>12. CASE CapacityFits
    BY <1>12 DEF CapacityFits
  <1>13. CASE CapacityExceeded
    BY <1>13 DEF CapacityExceeded
  <1>14. CASE EnsureKindSystem
    BY <1>14 DEF EnsureKindSystem
  <1>15. CASE EnsureKindSystemFails
    BY <1>15 DEF EnsureKindSystemFails
  <1> QED
    BY <1>1, <1>2, <1>3, <1>4, <1>5, <1>6, <1>7, <1>8, <1>9, <1>10, <1>11, <1>12, <1>13, <1>14, <1>15 DEF KindSteps

LEMMA MgmtTyped == TypeOK /\ MgmtSteps => TypeOK'
  <1> SUFFICES ASSUME TypeOK, MgmtSteps PROVE TypeOK'
    OBVIOUS
  <1> USE ConstantsTyped DEF TypeOK, planes, local, Goto, End, Die, Fault
  <1>1. CASE PivotGate
    BY <1>1 DEF PivotGate
  <1>2. CASE ApplyMgmtManifest
    BY <1>2 DEF ApplyMgmtManifest, Apply
  <1>3. CASE ApplyMgmtManifestFails
    BY <1>3 DEF ApplyMgmtManifestFails, Apply, RetryOrDie
  <1>4. CASE MgmtAvailable
    BY <1>4 DEF MgmtAvailable
  <1>5. CASE MgmtNotAvailable
    BY <1>5 DEF MgmtNotAvailable
  <1>6. CASE InstallCAPIOnManagement
    BY <1>6 DEF InstallCAPIOnManagement, InstallSkips
  <1>7. CASE InstallCAPIOnManagementFails
    BY <1>7 DEF InstallCAPIOnManagementFails, InstallSkips
  <1>8. CASE ScaleDeploymentsToZero
    <2>1. infraRec' \in BOOLEAN
      BY <1>8 DEF ScaleDeploymentsToZero
    <2> QED
      BY <1>8, <2>1 DEF ScaleDeploymentsToZero, StartMove
  <1> QED
    BY <1>1, <1>2, <1>3, <1>4, <1>5, <1>6, <1>7, <1>8 DEF MgmtSteps

LEMMA MoveTyped == TypeOK /\ MoveSteps => TypeOK'
  <1> SUFFICES ASSUME TypeOK, MoveSteps PROVE TypeOK'
    OBVIOUS
  <1> USE ConstantsTyped DEF TypeOK, planes, local, Goto, End, Die, Fault
  <1>1. CASE MovePause
    BY <1>1 DEF MovePause, Here
  <1>2. CASE MoveCopy
    BY <1>2 DEF MoveCopy, CopyToMgmt, Here
  <1>3. CASE MoveDelete
    BY <1>3 DEF MoveDelete, DropFromKind, Here
  <1>4. CASE MoveRefused
    BY <1>4 DEF MoveRefused, RetryOrDie
  <1>5. CASE MoveCopyBreaks
    BY <1>5 DEF MoveCopyBreaks, CopyToMgmt, Here, RetryMoveOrDie
  <1>6. CASE MoveDeleteBreaks
    BY <1>6 DEF MoveDeleteBreaks, DropFromKind, Here, RetryMoveOrDie
  <1>7. CASE MoveDryRun
    BY <1>7 DEF MoveDryRun
  <1>8. CASE MoveDryRunFails
    BY <1>8 DEF MoveDryRunFails
  <1>9. CASE MoveDone
    BY <1>9 DEF MoveDone
  <1> QED
    BY <1>1, <1>2, <1>3, <1>4, <1>5, <1>6, <1>7, <1>8, <1>9 DEF MoveSteps

LEMMA ParityTyped == TypeOK /\ ParitySteps => TypeOK'
  <1> SUFFICES ASSUME TypeOK, ParitySteps PROVE TypeOK'
    OBVIOUS
  <1> USE ConstantsTyped DEF TypeOK, planes, local, Goto, End, Die, Fault
  <1>1. CASE HandOff
    BY <1>1 DEF HandOff, HandOffTargets, HandOffConfig, copyYageSystemSecrets
  <1>2. CASE EnsureMgmtSystem
    BY <1>2 DEF EnsureMgmtSystem
  <1>3. CASE EnsureMgmtSystemFails
    BY <1>3 DEF EnsureMgmtSystemFails
  <1>4. CASE EnsureMgmtRepos
    BY <1>4 DEF EnsureMgmtRepos
  <1>5. CASE EnsureMgmtReposFails
    BY <1>5 DEF EnsureMgmtReposFails
  <1>6. CASE VerifyParity
    BY <1>6 DEF VerifyParity
  <1>7. CASE VerifyParityExpires
    BY <1>7 DEF VerifyParityExpires
  <1>8. CASE Rebind
    BY <1>8 DEF Rebind
  <1>9. CASE RebindFails
    BY <1>9 DEF RebindFails
  <1> QED
    BY <1>1, <1>2, <1>3, <1>4, <1>5, <1>6, <1>7, <1>8, <1>9 DEF ParitySteps

LEMMA WorkloadTyped == TypeOK /\ WorkloadSteps => TypeOK'
  <1> SUFFICES ASSUME TypeOK, WorkloadSteps PROVE TypeOK'
    OBVIOUS
  <1> USE ConstantsTyped DEF TypeOK, planes, local, Goto, End, Die, Fault
  <1>1. CASE StopBeforeWorkload
    BY <1>1 DEF StopBeforeWorkload
  <1>2. CASE ApplyWorkloadManifest
    BY <1>2 DEF ApplyWorkloadManifest, ApplyTarget, Target, Apply, SyncOnRender
  <1>3. CASE ApplyWorkloadManifestFails
    BY <1>3 DEF ApplyWorkloadManifestFails, ApplyTarget, Target, Apply, SyncOnRender, RetryOrDie
  <1>4. CASE WorkloadReady
    BY <1>4 DEF WorkloadReady
  <1>5. CASE WorkloadNotReady
    BY <1>5 DEF WorkloadNotReady
  <1>6. CASE TeardownKind
    BY <1>6 DEF TeardownKind, LoseKind
  <1>7. CASE TeardownKindFails
    <2>1. ctxLost' \in BOOLEAN
      BY <1>7 DEF TeardownKindFails
    <2> QED
      BY <1>7, <2>1 DEF TeardownKindFails
  <1>8. CASE TeardownSkipped
    BY <1>8 DEF TeardownSkipped
  <1>9. CASE PromoteBootstrapConfigToRealized
    BY <1>9 DEF PromoteBootstrapConfigToRealized, Target
  <1> QED
    BY <1>1, <1>2, <1>3, <1>4, <1>5, <1>6, <1>7, <1>8, <1>9 DEF WorkloadSteps

LEMMA RunStepTyped == TypeOK /\ RunStep => TypeOK'
  BY KindTyped, MgmtTyped, MoveTyped, ParityTyped, WorkloadTyped DEF RunStep

LEMMA OutsideTyped ==
    TypeOK /\ (StartRun \/ Kill \/ Controllers \/ Operator) => TypeOK'
  <1> SUFFICES ASSUME TypeOK, StartRun \/ Kill \/ Controllers \/ Operator
               PROVE TypeOK'
    OBVIOUS
  <1> USE ConstantsTyped DEF TypeOK, planes, local, End
  <1>1. CASE StartRun
    <2> HIDE DEF Option
    <2>1. opt' \in Option
      BY <1>1 DEF StartRun
    <2>2. pc' \in Phase /\ outcome' \in Outcome
      BY <1>1 DEF StartRun
    <2>3. runs' \in Nat /\ attempt' \in Nat /\ mv' \in Nat \ {0}
      BY <1>1 DEF StartRun
    <2>4. rebound' \in BOOLEAN /\ ctxLost' \in BOOLEAN
      BY <1>1 DEF StartRun
    <2> QED
      BY <1>1, <2>1, <2>2, <2>3, <2>4 DEF StartRun
  <1>2. CASE Kill
    BY <1>2 DEF Kill
  <1>3. ASSUME NEW p \in Plane, NEW c \in Cluster, Provision(p, c)
        PROVE TypeOK'
    BY <1>3 DEF Provision
  <1>4. ASSUME NEW c \in Cluster, Reap(c) PROVE TypeOK'
    BY <1>4 DEF Reap
  <1>5. CASE MgmtControllersComeUp
    BY <1>5 DEF MgmtControllersComeUp
  <1>6. CASE WriteBootstrapConfigSecret
    BY <1>6 DEF WriteBootstrapConfigSecret
  <1>7. ASSUME NEW s \in Secret, OperatorWrites(s) PROVE TypeOK'
    BY <1>7 DEF OperatorWrites
  <1>8. ASSUME NEW c \in Cluster, OtherRun(c) PROVE TypeOK'
    BY <1>8 DEF OtherRun
  <1> QED
    BY <1>1, <1>2, <1>3, <1>4, <1>5, <1>6, <1>7, <1>8 DEF Controllers, Operator

LEMMA StutterTyped == TypeOK /\ UNCHANGED vars => TypeOK'
  BY DEF TypeOK, vars, planes, local

(* Every value of a run has its type, in every behaviour of Pivot.         *)
THEOREM TypeCorrect == Spec => []TypeOK
  <1>1. TypeOK /\ [Next]_vars => TypeOK'
    BY RunStepTyped, OutsideTyped, StutterTyped DEF Next
  <1> QED
    BY InitTyped, <1>1, PTL DEF Spec

(***************************************************************************)
(* The argument for the safety of a pivot.  The hypotheses: no command     *)
(* line may force the deletion of kind, and clusterctl move is run for     *)
(* the namespace of every cluster.                                         *)
(***************************************************************************)
KindSurvivesForce == \A o \in Options : o.force => o.noDelete

AllNamespacesMoved == \A c \in Cluster : \E i \in 1..Len(PivotNs) :
                          PivotNs[i] = NsOf[c]

PivotPhase == {"applyMgmt", "waitMgmt", "installMgmt", "quiesce", "move",
               "moveCopy", "moveDelete", "handoff", "mgmtSystem", "mgmtRepos",
               "verify", "rebind"}
HandedPhase == {"handoff", "mgmtSystem", "mgmtRepos", "verify", "rebind"}
TailPhase == {"stop", "applyWorkload", "ready", "teardown", "promote"}

(* Nothing on kind is being deleted.                                       *)
NoDeletion == /\ doomed = {} /\ pc \notin {"reap", "kindDelete"}
              /\ opt.force => opt.noDelete

(* The phases between the gate and the rebind belong to a pivot.           *)
PivotFlags == /\ pc \in PivotPhase => opt.pivot
              /\ pc \in MovePhase => ~opt.dryRun /\ mv <= Len(PivotNs)
              /\ pc \in HandedPhase => ~opt.dryRun

(* The namespaces before mv are empty on kind; before the originals are    *)
(* deleted, the copies are there.                                          *)
MovedSoFar ==
    /\ pc \in {"move"} \cup MovePhase /\ ~opt.dryRun
         => \A i \in 1..(mv - 1) : \A c \in inv["kind"] : NsOf[c] # PivotNs[i]
    /\ pc = "moveDelete" => Here("kind", PivotNs[mv]) \subseteq inv["mgmt"]

(* After the move a pivot leaves kind empty, and what it writes goes to    *)
(* the management cluster.                                                 *)
KindEmpty == /\ pc \in HandedPhase => inv["kind"] = {}
             /\ pc \in TailPhase /\ opt.pivot => rebound /\ inv["kind"] = {}

(* What VerifyParity saw stays true.                                       *)
ParityStays == pc = "rebind" \/ (pc \in TailPhase /\ opt.pivot) => ParityHolds

Progress == NoDeletion /\ PivotFlags /\ MovedSoFar /\ KindEmpty /\ ParityStays

IInv == TypeOK /\ ClusterHeld /\ Progress

LEMMA KindProgress ==
  ASSUME TypeOK, Progress, KindSteps, KindSurvivesForce, AllNamespacesMoved
  PROVE  Progress'
  <1> USE ConstantsTyped DEF TypeOK, Progress, NoDeletion, PivotFlags,
          MovedSoFar, KindEmpty, ParityStays, ParityHolds, Here, planes, local,
          Goto, End, Die, Fault, PivotPhase, HandedPhase, TailPhase
  <1>1. CASE CheckKind
    BY <1>1 DEF CheckKind
  <1>2. CASE DeleteWorkload
    BY <1>2 DEF DeleteWorkload, MarkWorkload
  <1>3. CASE DeleteKind
    BY <1>3 DEF DeleteKind, LoseKind
  <1>4. CASE DeleteKindFails
    BY <1>4 DEF DeleteKindFails
  <1>5. CASE CreateKind
    BY <1>5 DEF CreateKind
  <1>6. CASE CreateKindFails
    BY <1>6 DEF CreateKindFails
  <1>7. CASE SyncBootstrapConfigToKind
    BY <1>7 DEF SyncBootstrapConfigToKind
  <1>8. CASE ClusterctlInit
    BY <1>8 DEF ClusterctlInit
  <1>9. CASE ClusterctlInitFails
    BY <1>9 DEF ClusterctlInitFails
  <1>10. CASE InitReady
    BY <1>10 DEF InitReady
  <1>11. CASE InitNotReady
    BY <1>11 DEF InitNotReady
  <1>12. CASE CapacityFits
    BY <1>12 DEF CapacityFits
  <1>13. CASE CapacityExceeded
    BY <1>13 DEF CapacityExceeded
  <1>14. CASE EnsureKindSystem
    BY <1>14 DEF EnsureKindSystem
  <1>15. CASE EnsureKindSystemFails
    BY <1>15 DEF EnsureKindSystemFails
  <1> QED
    BY <1>1, <1>2, <1>3, <1>4, <1>5, <1>6, <1>7, <1>8, <1>9, <1>10, <1>11, <1>12, <1>13, <1>14, <1>15 DEF KindSteps

LEMMA MgmtProgress ==
  ASSUME TypeOK, Progress, MgmtSteps, KindSurvivesForce, AllNamespacesMoved
  PROVE  Progress'
  <1> USE ConstantsTyped DEF TypeOK, Progress, NoDeletion, PivotFlags,
          MovedSoFar, KindEmpty, ParityStays, ParityHolds, Here, planes, local,
          Goto, End, Die, Fault, PivotPhase, HandedPhase, TailPhase
  <1>1. CASE PivotGate
    BY <1>1 DEF PivotGate
  <1>2. CASE ApplyMgmtManifest
    BY <1>2 DEF ApplyMgmtManifest, Apply
  <1>3. CASE ApplyMgmtManifestFails
    BY <1>3 DEF ApplyMgmtManifestFails, Apply, RetryOrDie
  <1>4. CASE MgmtAvailable
    BY <1>4 DEF MgmtAvailable
  <1>5. CASE MgmtNotAvailable
    BY <1>5 DEF MgmtNotAvailable
  <1>6. CASE InstallCAPIOnManagement
    BY <1>6 DEF InstallCAPIOnManagement, InstallSkips
  <1>7. CASE InstallCAPIOnManagementFails
    BY <1>7 DEF InstallCAPIOnManagementFails, InstallSkips
  <1>8. CASE ScaleDeploymentsToZero
    BY <1>8 DEF ScaleDeploymentsToZero, StartMove
  <1> QED
    BY <1>1, <1>2, <1>3, <1>4, <1>5, <1>6, <1>7, <1>8 DEF MgmtSteps

LEMMA MoveProgress ==
  ASSUME TypeOK, Progress, MoveSteps, KindSurvivesForce, AllNamespacesMoved
  PROVE  Progress'
  <1> USE ConstantsTyped DEF TypeOK, Progress, NoDeletion, PivotFlags,
          MovedSoFar, KindEmpty, ParityStays, ParityHolds, Here, planes, local,
          Goto, End, Die, Fault, PivotPhase, HandedPhase, TailPhase
  <1>1. CASE MovePause
    BY <1>1 DEF MovePause, Moving, Here
  <1>2. CASE MoveCopy
    BY <1>2 DEF MoveCopy, CopyToMgmt, Here
  <1>3. CASE MoveDelete
    BY <1>3 DEF MoveDelete, DropFromKind, Here
  <1>4. CASE MoveRefused
    BY <1>4 DEF MoveRefused, RetryOrDie
  <1>5. CASE MoveCopyBreaks
    BY <1>5 DEF MoveCopyBreaks, CopyToMgmt, Here, RetryMoveOrDie
  <1>6. CASE MoveDeleteBreaks
    BY <1>6 DEF MoveDeleteBreaks, DropFromKind, Here, RetryMoveOrDie
  <1>7. CASE MoveDryRun
    BY <1>7 DEF MoveDryRun
  <1>8. CASE MoveDryRunFails
    BY <1>8 DEF MoveDryRunFails
  <1>9. CASE MoveDone
    <2>1. CASE opt.dryRun
      BY <1>9, <2>1 DEF MoveDone
    <2>2. CASE ~opt.dryRun
      <3>1. ASSUME NEW c \in inv["kind"] PROVE FALSE
        <4>1. c \in Cluster
          OBVIOUS
        <4>2. PICK i \in 1..Len(PivotNs) : PivotNs[i] = NsOf[c]
          BY <4>1 DEF AllNamespacesMoved
        <4>3. i \in 1..(mv - 1)
          BY <1>9, PivotNsAssumption DEF MoveDone
        <4> QED
          BY <1>9, <2>2, <4>2, <4>3 DEF MoveDone
      <3>2. inv["kind"] = {}
        BY <3>1
      <3> QED
        BY <1>9, <2>2, <3>2 DEF MoveDone
    <2> QED
      BY <2>1, <2>2
  <1> QED
    BY <1>1, <1>2, <1>3, <1>4, <1>5, <1>6, <1>7, <1>8, <1>9 DEF MoveSteps

LEMMA ParityProgress ==
  ASSUME TypeOK, Progress, ParitySteps, KindSurvivesForce, AllNamespacesMoved
  PROVE  Progress'
  <1> USE ConstantsTyped DEF TypeOK, Progress, NoDeletion, PivotFlags,
          MovedSoFar, KindEmpty, ParityStays, ParityHolds, Here, planes, local,
          Goto, End, Die, Fault, PivotPhase, HandedPhase, TailPhase
  <1>1. CASE HandOff
    BY <1>1 DEF HandOff, HandOffTargets, HandOffConfig, copyYageSystemSecrets
  <1>2. CASE EnsureMgmtSystem
    BY <1>2 DEF EnsureMgmtSystem
  <1>3. CASE EnsureMgmtSystemFails
    BY <1>3 DEF EnsureMgmtSystemFails
  <1>4. CASE EnsureMgmtRepos
    BY <1>4 DEF EnsureMgmtRepos
  <1>5. CASE EnsureMgmtReposFails
    BY <1>5 DEF EnsureMgmtReposFails
  <1>6. CASE VerifyParity
    BY <1>6 DEF VerifyParity, ParityChecked
  <1>7. CASE VerifyParityExpires
    BY <1>7 DEF VerifyParityExpires
  <1>8. CASE Rebind
    BY <1>8 DEF Rebind
  <1>9. CASE RebindFails
    BY <1>9 DEF RebindFails
  <1> QED
    BY <1>1, <1>2, <1>3, <1>4, <1>5, <1>6, <1>7, <1>8, <1>9 DEF ParitySteps

LEMMA WorkloadProgress ==
  ASSUME TypeOK, Progress, WorkloadSteps, KindSurvivesForce, AllNamespacesMoved
  PROVE  Progress'
  <1> USE ConstantsTyped DEF TypeOK, Progress, NoDeletion, PivotFlags,
          MovedSoFar, KindEmpty, ParityStays, ParityHolds, Here, planes, local,
          Goto, End, Die, Fault, PivotPhase, HandedPhase, TailPhase
  <1>1. CASE StopBeforeWorkload
    BY <1>1 DEF StopBeforeWorkload
  <1>2. CASE ApplyWorkloadManifest
    BY <1>2 DEF ApplyWorkloadManifest, ApplyTarget, Target, Apply, SyncOnRender
  <1>3. CASE ApplyWorkloadManifestFails
    BY <1>3 DEF ApplyWorkloadManifestFails, ApplyTarget, Target, Apply, SyncOnRender, RetryOrDie
  <1>4. CASE WorkloadReady
    BY <1>4 DEF WorkloadReady
  <1>5. CASE WorkloadNotReady
    BY <1>5 DEF WorkloadNotReady
  <1>6. CASE TeardownKind
    BY <1>6 DEF TeardownKind, LoseKind
  <1>7. CASE TeardownKindFails
    BY <1>7 DEF TeardownKindFails
  <1>8. CASE TeardownSkipped
    BY <1>8 DEF TeardownSkipped
  <1>9. CASE PromoteBootstrapConfigToRealized
    BY <1>9 DEF PromoteBootstrapConfigToRealized, Target
  <1> QED
    BY <1>1, <1>2, <1>3, <1>4, <1>5, <1>6, <1>7, <1>8, <1>9 DEF WorkloadSteps

LEMMA OutsideProgress ==
  ASSUME TypeOK, Progress, StartRun \/ Kill \/ Controllers \/ Operator,
         KindSurvivesForce
  PROVE  Progress'
  <1> USE DEF TypeOK, Progress, NoDeletion, PivotFlags, MovedSoFar, KindEmpty,
          ParityStays, ParityHolds, Here, planes, local, End, PivotPhase,
          HandedPhase, TailPhase
  <1>1. CASE StartRun
    BY <1>1 DEF StartRun, KindSurvivesForce
  <1>2. CASE Kill
    BY <1>2 DEF Kill
  <1>3. ASSUME NEW p \in Plane, NEW c \in Cluster, Provision(p, c)
        PROVE  Progress'
    BY <1>3 DEF Provision
  <1>4. ASSUME NEW c \in Cluster, Reap(c) PROVE Progress'
    BY <1>4 DEF Reap
  <1>5. CASE MgmtControllersComeUp
    BY <1>5 DEF MgmtControllersComeUp
  <1>6. CASE WriteBootstrapConfigSecret
    BY <1>6 DEF WriteBootstrapConfigSecret
  <1>7. ASSUME NEW s \in Secret, OperatorWrites(s) PROVE Progress'
    BY <1>7 DEF OperatorWrites
  <1>8. ASSUME NEW c \in Cluster, OtherRun(c) PROVE Progress'
    BY <1>8 DEF OtherRun
  <1> QED
    BY <1>1, <1>2, <1>3, <1>4, <1>5, <1>6, <1>7, <1>8 DEF Controllers, Operator

LEMMA ProgressPreserved ==
  ASSUME TypeOK, Progress, [Next]_vars, KindSurvivesForce, AllNamespacesMoved
  PROVE  Progress'
  <1>1. CASE RunStep
    BY <1>1, KindProgress, MgmtProgress, MoveProgress, ParityProgress,
       WorkloadProgress DEF RunStep
  <1>2. CASE StartRun \/ Kill \/ Controllers \/ Operator
    BY <1>2, OutsideProgress
  <1>3. CASE UNCHANGED vars
    BY <1>3 DEF vars, planes, local, Progress, NoDeletion, PivotFlags,
                MovedSoFar, KindEmpty, ParityStays, ParityHolds, Here
  <1> QED
    BY <1>1, <1>2, <1>3 DEF Next

(***************************************************************************)
(* The refinement.  A step of a run takes objects, releases objects, lets  *)
(* machines appear, or changes nothing Custody speaks of.                  *)
(***************************************************************************)
LEMMA TakeStep ==
  ASSUME TypeOK, NEW p \in Plane, NEW S \in SUBSET Cluster,
         inv' = [inv EXCEPT ![p] = @ \cup S], infra' = infra
  PROVE  PivotCustody!Next
  BY DEF PivotCustody!Next, PivotCustody!Take, PivotCustody!Plane

LEMMA ReleaseStep ==
  ASSUME TypeOK, NEW S \in SUBSET Cluster, S \subseteq inv["mgmt"],
         inv' = [inv EXCEPT !["kind"] = @ \ S], infra' = infra
  PROVE  PivotCustody!Next
  BY DEF PivotCustody!Next, PivotCustody!Release

LEMMA CustodyStep ==
  ASSUME TypeOK, Progress, [Next]_vars
  PROVE  [PivotCustody!Next]_<<infra, inv>>
  <1> DEFINE Goal == [PivotCustody!Next]_<<infra, inv>>
  <1>1. CASE KindSteps
    <2>1. UNCHANGED <<infra, inv>>
      BY <1>1 DEF KindSteps, CheckKind, DeleteWorkload, DeleteKind,
         DeleteKindFails, CreateKind, CreateKindFails,
         SyncBootstrapConfigToKind, ClusterctlInit, ClusterctlInitFails,
         InitReady, InitNotReady, CapacityFits, CapacityExceeded,
         EnsureKindSystem, EnsureKindSystemFails, Fault, Die, planes,
         Progress, NoDeletion
    <2> QED
      BY <2>1
  <1>2. CASE MgmtSteps
    <2>1. CASE ApplyMgmtManifest \/ ApplyMgmtManifestFails
      <3>1. infra' = infra
        BY <2>1 DEF ApplyMgmtManifest, ApplyMgmtManifestFails
      <3>2. CASE inv' = [inv EXCEPT !["kind"] = @ \cup {Mgmt}]
        <4>1. {Mgmt} \in SUBSET Cluster
          BY ConstantsTyped
        <4> QED
          BY <3>1, <3>2, <4>1, TakeStep
      <3>3. CASE UNCHANGED inv
        BY <3>1, <3>3
      <3> QED
        BY <2>1, <3>2, <3>3 DEF ApplyMgmtManifest, ApplyMgmtManifestFails, Apply
    <2>2. CASE ~(ApplyMgmtManifest \/ ApplyMgmtManifestFails)
      <3>1. UNCHANGED <<infra, inv>>
        BY <1>2, <2>2 DEF MgmtSteps, PivotGate, MgmtAvailable,
           MgmtNotAvailable, InstallCAPIOnManagement,
           InstallCAPIOnManagementFails, ScaleDeploymentsToZero, Die, planes
      <3> QED
        BY <3>1
    <2> QED
      BY <2>1, <2>2
  <1>3. CASE MoveSteps
    <2>0. Here("kind", PivotNs[mv]) \in SUBSET Cluster
      BY DEF TypeOK, Here
    <2>1. CASE MoveCopy \/ MoveCopyBreaks
      <3>1. infra' = infra
        BY <2>1 DEF MoveCopy, MoveCopyBreaks
      <3>2. PICK S \in SUBSET Cluster : inv' = [inv EXCEPT !["mgmt"] = @ \cup S]
        BY <2>0, <2>1 DEF MoveCopy, MoveCopyBreaks, CopyToMgmt
      <3> QED
        BY <3>1, <3>2, TakeStep
    <2>2. CASE MoveDelete \/ MoveDeleteBreaks
      <3>1. infra' = infra
        BY <2>2 DEF MoveDelete, MoveDeleteBreaks
      <3>2. Here("kind", PivotNs[mv]) \subseteq inv["mgmt"]
        BY <2>2 DEF MoveDelete, MoveDeleteBreaks, Progress, MovedSoFar
      <3>3. PICK S \in SUBSET Here("kind", PivotNs[mv]) :
               inv' = [inv EXCEPT !["kind"] = @ \ S]
        BY <2>2 DEF MoveDelete, MoveDeleteBreaks, DropFromKind
      <3> QED
        BY <2>0, <3>1, <3>2, <3>3, ReleaseStep
    <2>3. CASE ~(MoveCopy \/ MoveCopyBreaks \/ MoveDelete \/ MoveDeleteBreaks)
      <3>1. UNCHANGED <<infra, inv>>
        BY <1>3, <2>3 DEF MoveSteps, MovePause, MoveRefused, MoveDryRun,
           MoveDryRunFails, MoveDone, Die, planes
      <3> QED
        BY <3>1
    <2> QED
      BY <2>1, <2>2, <2>3
  <1>4. CASE ParitySteps
    <2>1. UNCHANGED <<infra, inv>>
      BY <1>4 DEF ParitySteps, HandOff, EnsureMgmtSystem,
         EnsureMgmtSystemFails, EnsureMgmtRepos, EnsureMgmtReposFails,
         VerifyParity, VerifyParityExpires, Rebind, RebindFails, Fault, Die,
         planes
    <2> QED
      BY <2>1
  <1>5. CASE WorkloadSteps
    <2>1. CASE ApplyWorkloadManifest \/ ApplyWorkloadManifestFails
      <3>1. infra' = infra /\ Target \in Plane
        BY <2>1 DEF ApplyWorkloadManifest, ApplyWorkloadManifestFails, Target
      <3>2. CASE inv' = [inv EXCEPT ![Target] = @ \cup {Workload}]
        <4>1. {Workload} \in SUBSET Cluster
          BY ConstantsTyped
        <4> QED
          BY <3>1, <3>2, <4>1, TakeStep
      <3>3. CASE UNCHANGED inv
        BY <3>1, <3>3
      <3> QED
        BY <2>1, <3>2, <3>3 DEF ApplyWorkloadManifest,
           ApplyWorkloadManifestFails, Apply, ApplyTarget
    <2>2. CASE TeardownKind
      <3>1. inv["kind"] = {}
        BY <2>2 DEF TeardownKind, TearsDown, Progress, KindEmpty, TailPhase
      <3>2. UNCHANGED <<infra, inv>>
        BY <2>2, <3>1 DEF TeardownKind, LoseKind, TypeOK
      <3> QED
        BY <3>2
    <2>3. CASE ~(ApplyWorkloadManifest \/ ApplyWorkloadManifestFails \/ TeardownKind)
      <3>1. UNCHANGED <<infra, inv>>
        BY <1>5, <2>3 DEF WorkloadSteps, StopBeforeWorkload, WorkloadReady,
           WorkloadNotReady, TeardownKindFails, TeardownSkipped,
           PromoteBootstrapConfigToRealized, Die, planes
      <3> QED
        BY <3>1
    <2> QED
      BY <2>1, <2>2, <2>3
  <1>6. CASE StartRun \/ Kill
    BY <1>6 DEF StartRun, Kill, planes
  <1>7. ASSUME NEW p \in Plane, NEW c \in Cluster, Provision(p, c)
        PROVE  Goal
    BY <1>7 DEF Provision, Active, PivotCustody!Next, PivotCustody!Start,
                PivotCustody!Held, PivotCustody!Plane
  <1>8. ASSUME NEW c \in Cluster PROVE ~Reap(c)
    BY DEF Reap, Progress, NoDeletion
  <1>9. CASE MgmtControllersComeUp
    BY <1>9 DEF MgmtControllersComeUp
  <1>10. CASE Operator
    <2>1. CASE WriteBootstrapConfigSecret
      BY <2>1 DEF WriteBootstrapConfigSecret
    <2>2. ASSUME NEW s \in Secret, OperatorWrites(s) PROVE Goal
      BY <2>2 DEF OperatorWrites
    <2>3. ASSUME NEW c \in Cluster, OtherRun(c) PROVE Goal
      <3>1. inv' = [inv EXCEPT !["kind"] = @ \cup {c}] /\ infra' = infra
        BY <2>3 DEF OtherRun
      <3>2. {c} \in SUBSET Cluster
        OBVIOUS
      <3> QED
        BY <3>1, <3>2, TakeStep
    <2> QED
      BY <1>10, <2>1, <2>2, <2>3 DEF Operator
  <1>11. CASE UNCHANGED vars
    BY <1>11 DEF vars, planes
  <1> QED
    BY <1>1, <1>2, <1>3, <1>4, <1>5, <1>6, <1>7, <1>8, <1>9, <1>10, <1>11
       DEF Next, RunStep, Controllers

(* Custody alone keeps every live cluster held.                            *)
LEMMA CustodyHolds ==
  ASSUME TypeOK, ClusterHeld, [PivotCustody!Next]_<<infra, inv>>
  PROVE  ClusterHeld'
  <1>1. ASSUME NEW c \in Cluster, PivotCustody!Start(c) PROVE ClusterHeld'
    BY <1>1 DEF ClusterHeld, PivotCustody!Start, PivotCustody!Held,
                PivotCustody!Plane
  <1>2. ASSUME NEW p \in Plane, NEW S \in SUBSET Cluster,
               PivotCustody!Take(p, S)
        PROVE  ClusterHeld'
    BY <1>2 DEF ClusterHeld, PivotCustody!Take, TypeOK
  <1>3. ASSUME NEW S \in SUBSET Cluster, PivotCustody!Release(S)
        PROVE  ClusterHeld'
    BY <1>3 DEF ClusterHeld, PivotCustody!Release, TypeOK
  <1>4. CASE UNCHANGED <<infra, inv>>
    BY <1>4 DEF ClusterHeld
  <1> QED
    BY <1>1, <1>2, <1>3, <1>4 DEF PivotCustody!Next, PivotCustody!Plane

LEMMA InitSafe == Init => IInv
  BY InitTyped DEF Init, IInv, ClusterHeld, Progress, NoDeletion, PivotFlags,
     MovedSoFar, KindEmpty, ParityStays, PivotPhase, HandedPhase, TailPhase,
     NoOptions

LEMMA StepSafe ==
  ASSUME IInv, [Next]_vars, KindSurvivesForce, AllNamespacesMoved
  PROVE  IInv'
  <1>1. TypeOK'
    BY RunStepTyped, OutsideTyped, StutterTyped DEF Next, IInv
  <1>2. Progress'
    BY ProgressPreserved DEF IInv
  <1>3. ClusterHeld'
    BY CustodyStep, CustodyHolds DEF IInv
  <1> QED
    BY <1>1, <1>2, <1>3 DEF IInv

LEMMA Safe ==
  ASSUME KindSurvivesForce, AllNamespacesMoved
  PROVE  Spec => []IInv
  <1>1. IInv /\ [Next]_vars => IInv'
    BY StepSafe
  <1> QED
    BY InitSafe, <1>1, PTL DEF Spec

(* No cluster with machines is ever without the objects that describe it,  *)
(* whatever breaks off, is retried or is killed.                           *)
THEOREM ClustersStayHeld ==
  ASSUME KindSurvivesForce, AllNamespacesMoved
  PROVE  Spec => []ClusterHeld
  <1>1. IInv => ClusterHeld
    BY DEF IInv
  <1> QED
    BY Safe, <1>1, PTL

(* Every run of Pivot is a run of Custody: kind gives a live cluster up    *)
(* only when the management cluster stores it.                             *)
THEOREM PivotImplementsCustody ==
  ASSUME KindSurvivesForce, AllNamespacesMoved
  PROVE  Spec => ImplementsCustody
  <1>1. Init => PivotCustody!Init
    BY InitTyped DEF Init, TypeOK, PivotCustody!Init, PivotCustody!Plane
  <1>2. IInv /\ [Next]_vars => [PivotCustody!Next]_(PivotCustody!vars)
    BY CustodyStep DEF IInv, PivotCustody!vars
  <1> QED
    BY Safe, <1>1, <1>2, PTL DEF Spec, ImplementsCustody, PivotCustody!Spec

(* In the phase "teardown" only TeardownKind makes kind disappear.         *)
LEMMA OnlyTeardown ==
  ASSUME [Next]_vars, pc = "teardown", kindUp' # kindUp
  PROVE  TeardownKind
  <1>1. ~KindSteps
    BY DEF KindSteps, CheckKind, DeleteWorkload, DeleteKind,
       DeleteKindFails, CreateKind, CreateKindFails,
       SyncBootstrapConfigToKind, ClusterctlInit, ClusterctlInitFails,
       InitReady, InitNotReady, CapacityFits, CapacityExceeded,
       EnsureKindSystem, EnsureKindSystemFails
  <1>2. ~MgmtSteps
    BY DEF MgmtSteps, PivotGate, ApplyMgmtManifest, ApplyMgmtManifestFails,
       MgmtAvailable, MgmtNotAvailable, InstallCAPIOnManagement,
       InstallCAPIOnManagementFails, ScaleDeploymentsToZero
  <1>3. ~MoveSteps
    BY DEF MoveSteps, MovePause, Moving, MoveCopy, MoveDelete, MoveRefused,
       MoveCopyBreaks, MoveDeleteBreaks, MoveDryRun, MoveDryRunFails, MoveDone
  <1>4. ~ParitySteps
    BY DEF ParitySteps, HandOff, EnsureMgmtSystem, EnsureMgmtSystemFails,
       EnsureMgmtRepos, EnsureMgmtReposFails, VerifyParity,
       VerifyParityExpires, Rebind, RebindFails
  <1>5. WorkloadSteps => TeardownKind
    BY DEF WorkloadSteps, StopBeforeWorkload, ApplyWorkloadManifest,
       ApplyWorkloadManifestFails, WorkloadReady, WorkloadNotReady,
       TeardownKindFails, TeardownSkipped, PromoteBootstrapConfigToRealized,
       planes
  <1>6. ~(StartRun \/ Kill \/ Controllers \/ Operator \/ UNCHANGED vars)
    BY DEF StartRun, Kill, Controllers, Provision, Reap,
       MgmtControllersComeUp, Operator, WriteBootstrapConfigSecret,
       OperatorWrites, OtherRun, vars, planes
  <1> QED
    BY <1>1, <1>2, <1>3, <1>4, <1>5, <1>6 DEF Next, RunStep

(* kind is torn down only while mgmt has all that VerifyParity asked for   *)
(* and kind stores no live cluster.                                        *)
THEOREM ParityUntilTeardown ==
  ASSUME KindSurvivesForce, AllNamespacesMoved
  PROVE  Spec => TeardownKeepsParity
  <1>1. IInv /\ [Next]_vars => [ParityAtTeardown]_vars
    <2> SUFFICES ASSUME IInv, [Next]_vars, pc = "teardown", kindUp, ~kindUp'
                 PROVE  ParityHolds /\ inv["kind"] \cap infra = {}
      BY DEF ParityAtTeardown
    <2>1. opt.pivot
      BY OnlyTeardown DEF TeardownKind, TearsDown
    <2> QED
      BY <2>1 DEF IInv, Progress, KindEmpty, ParityStays, TailPhase
  <1> QED
    BY Safe, <1>1, PTL DEF Spec, TeardownKeepsParity

(***************************************************************************)
(* The label "realized".  Without a forced deletion machines never go, so  *)
(* a workload that was found ready still has them when the run comes to    *)
(* the promotion, and whenever somebody reads the label afterwards.        *)
(***************************************************************************)
ReadyIsLive == pc \in {"teardown", "promote"} => Workload \in infra

LEMMA NoDeletionKept ==
  ASSUME TypeOK, NoDeletion, [Next]_vars, KindSurvivesForce
  PROVE  NoDeletion'
  <1> USE DEF NoDeletion, TypeOK, planes, local, Goto, End, Die, Fault
  <1>1. CASE KindSteps
    BY <1>1 DEF KindSteps, CheckKind, DeleteWorkload, DeleteKind,
       DeleteKindFails, CreateKind, CreateKindFails,
       SyncBootstrapConfigToKind, ClusterctlInit, ClusterctlInitFails,
       InitReady, InitNotReady, CapacityFits, CapacityExceeded,
       EnsureKindSystem, EnsureKindSystemFails
  <1>2. CASE MgmtSteps
    BY <1>2 DEF MgmtSteps, PivotGate, ApplyMgmtManifest,
       ApplyMgmtManifestFails, RetryOrDie, MgmtAvailable, MgmtNotAvailable,
       InstallCAPIOnManagement, InstallCAPIOnManagementFails,
       ScaleDeploymentsToZero, StartMove
  <1>3. CASE MoveSteps
    BY <1>3 DEF MoveSteps, MovePause, MoveCopy, MoveDelete, MoveRefused,
       MoveCopyBreaks, MoveDeleteBreaks, RetryOrDie, RetryMoveOrDie,
       MoveDryRun, MoveDryRunFails, MoveDone
  <1>4. CASE ParitySteps
    BY <1>4 DEF ParitySteps, HandOff, EnsureMgmtSystem,
       EnsureMgmtSystemFails, EnsureMgmtRepos, EnsureMgmtReposFails,
       VerifyParity, VerifyParityExpires, Rebind, RebindFails
  <1>5. CASE WorkloadSteps
    BY <1>5 DEF WorkloadSteps, StopBeforeWorkload, ApplyWorkloadManifest,
       ApplyWorkloadManifestFails, RetryOrDie, WorkloadReady,
       WorkloadNotReady, TeardownKind, LoseKind, TeardownKindFails,
       TeardownSkipped, PromoteBootstrapConfigToRealized
  <1>6. CASE StartRun \/ Kill
    BY <1>6 DEF StartRun, Kill, KindSurvivesForce
  <1>7. CASE Controllers
    BY <1>7 DEF Controllers, Provision, Reap, MgmtControllersComeUp
  <1>8. CASE Operator
    BY <1>8 DEF Operator, WriteBootstrapConfigSecret, OperatorWrites, OtherRun
  <1>9. CASE UNCHANGED vars
    BY <1>9 DEF vars
  <1> QED
    BY <1>1, <1>2, <1>3, <1>4, <1>5, <1>6, <1>7, <1>8, <1>9
       DEF Next, RunStep

(* Machines appear one cluster at a time, beside every other action.       *)
LEMMA MachinesStay ==
  ASSUME TypeOK, NoDeletion, [Next]_vars
  PROVE  infra \subseteq infra'
  <1>1. RunStep => UNCHANGED infra
    BY DEF RunStep, planes, Die, Fault, LoseKind,
       KindSteps, CheckKind, DeleteWorkload, DeleteKind, DeleteKindFails,
       CreateKind, CreateKindFails, SyncBootstrapConfigToKind,
       ClusterctlInit, ClusterctlInitFails, InitReady, InitNotReady,
       CapacityFits, CapacityExceeded, EnsureKindSystem,
       EnsureKindSystemFails,
       MgmtSteps, PivotGate, ApplyMgmtManifest, ApplyMgmtManifestFails,
       MgmtAvailable, MgmtNotAvailable, InstallCAPIOnManagement,
       InstallCAPIOnManagementFails, ScaleDeploymentsToZero,
       MoveSteps, MovePause, MoveCopy, MoveDelete, MoveRefused,
       MoveCopyBreaks, MoveDeleteBreaks, MoveDryRun, MoveDryRunFails,
       MoveDone,
       ParitySteps, HandOff, EnsureMgmtSystem, EnsureMgmtSystemFails,
       EnsureMgmtRepos, EnsureMgmtReposFails, VerifyParity,
       VerifyParityExpires, Rebind, RebindFails,
       WorkloadSteps, StopBeforeWorkload, ApplyWorkloadManifest,
       ApplyWorkloadManifestFails, WorkloadReady, WorkloadNotReady,
       TeardownKind, TeardownKindFails, TeardownSkipped,
       PromoteBootstrapConfigToRealized
  <1>2. ASSUME Controllers PROVE infra \subseteq infra'
    BY <1>2 DEF Controllers, Provision, Reap, MgmtControllersComeUp, NoDeletion
  <1>3. StartRun \/ Kill \/ Operator \/ UNCHANGED vars => UNCHANGED infra
    BY DEF StartRun, Kill, Operator, WriteBootstrapConfigSecret,
       OperatorWrites, OtherRun, vars, planes
  <1> QED
    BY <1>1, <1>2, <1>3 DEF Next

(* A run is at the teardown or the promotion only if it saw the workload   *)
(* ready.                                                                  *)
LEMMA ReadyIsLiveKept ==
  ASSUME TypeOK, NoDeletion, ReadyIsLive, [Next]_vars
  PROVE  ReadyIsLive'
  <1> USE DEF local, Goto, End, Die, Fault
  <1> SUFFICES ASSUME pc' \in {"teardown", "promote"} PROVE Workload \in infra'
    BY DEF ReadyIsLive
  <1>1. ~KindSteps
    BY DEF KindSteps, CheckKind, DeleteWorkload, DeleteKind,
       DeleteKindFails, CreateKind, CreateKindFails,
       SyncBootstrapConfigToKind, ClusterctlInit, ClusterctlInitFails,
       InitReady, InitNotReady, CapacityFits, CapacityExceeded,
       EnsureKindSystem, EnsureKindSystemFails
  <1>2. ~MgmtSteps
    BY DEF MgmtSteps, PivotGate, ApplyMgmtManifest,
       ApplyMgmtManifestFails, RetryOrDie, MgmtAvailable, MgmtNotAvailable,
       InstallCAPIOnManagement, InstallCAPIOnManagementFails,
       ScaleDeploymentsToZero, StartMove
  <1>3. ~MoveSteps
    BY DEF MoveSteps, MovePause, MoveCopy, MoveDelete, MoveRefused, Moving,
       MoveCopyBreaks, MoveDeleteBreaks, RetryOrDie, RetryMoveOrDie,
       MoveDryRun, MoveDryRunFails, MoveDone
  <1>4. ~ParitySteps
    BY DEF ParitySteps, HandOff, EnsureMgmtSystem,
       EnsureMgmtSystemFails, EnsureMgmtRepos, EnsureMgmtReposFails,
       VerifyParity, VerifyParityExpires, Rebind, RebindFails
  <1>5. CASE WorkloadSteps
    <2>1. Workload \in infra
      BY <1>5 DEF WorkloadSteps, StopBeforeWorkload, ApplyWorkloadManifest,
         ApplyWorkloadManifestFails, RetryOrDie, WorkloadReady,
         WorkloadNotReady, TeardownKind, TeardownKindFails,
         TeardownSkipped, PromoteBootstrapConfigToRealized, ReadyIsLive
    <2> QED
      BY <2>1, MachinesStay
  <1>6. ~StartRun /\ ~Kill
    BY DEF StartRun, Kill
  <1>7. CASE Controllers \/ Operator \/ UNCHANGED vars
    <2>1. UNCHANGED pc
      BY <1>7 DEF Controllers, Provision, Reap, MgmtControllersComeUp,
         Operator, WriteBootstrapConfigSecret, OperatorWrites, OtherRun, vars
    <2> QED
      BY <2>1, MachinesStay DEF ReadyIsLive
  <1> QED
    BY <1>1, <1>2, <1>3, <1>4, <1>5, <1>6, <1>7 DEF Next, RunStep

(* A label becomes "realized" by the promotion, or comes from kind.        *)
LEMMA RealizedComesFrom ==
  ASSUME TypeOK, [Next]_vars, NEW p \in Plane, config'[p] = "realized"
  PROVE  \/ \E q \in Plane : config[q] = "realized"
         \/ pc = "promote"
  <1> USE DEF TypeOK, planes, Die, End, Fault
  <1>1. CASE KindSteps
    BY <1>1 DEF KindSteps, CheckKind, DeleteWorkload, DeleteKind, LoseKind,
       DeleteKindFails, CreateKind, CreateKindFails,
       SyncBootstrapConfigToKind, ClusterctlInit, ClusterctlInitFails,
       InitReady, InitNotReady, CapacityFits, CapacityExceeded,
       EnsureKindSystem, EnsureKindSystemFails
  <1>2. CASE MgmtSteps
    BY <1>2 DEF MgmtSteps, PivotGate, ApplyMgmtManifest,
       ApplyMgmtManifestFails, MgmtAvailable, MgmtNotAvailable,
       InstallCAPIOnManagement, InstallCAPIOnManagementFails,
       ScaleDeploymentsToZero
  <1>3. CASE MoveSteps
    BY <1>3 DEF MoveSteps, MovePause, MoveCopy, MoveDelete, MoveRefused,
       MoveCopyBreaks, MoveDeleteBreaks, MoveDryRun, MoveDryRunFails, MoveDone
  <1>4. CASE ParitySteps
    <2>1. CASE HandOff
      <3>1. config' \in {config, HandOffConfig}
        BY <2>1 DEF HandOff
      <3> QED
        BY <3>1 DEF HandOffConfig
    <2>2. CASE ~HandOff
      BY <1>4, <2>2 DEF ParitySteps, EnsureMgmtSystem, EnsureMgmtSystemFails,
         EnsureMgmtRepos, EnsureMgmtReposFails, VerifyParity,
         VerifyParityExpires, Rebind, RebindFails
    <2> QED
      BY <2>1, <2>2
  <1>5. CASE WorkloadSteps
    BY <1>5 DEF WorkloadSteps, StopBeforeWorkload, ApplyWorkloadManifest,
       ApplyWorkloadManifestFails, WorkloadReady, WorkloadNotReady,
       TeardownKind, LoseKind, TeardownKindFails, TeardownSkipped,
       PromoteBootstrapConfigToRealized
  <1>6. CASE StartRun \/ Kill \/ Controllers \/ Operator \/ UNCHANGED vars
    BY <1>6 DEF StartRun, Kill, Controllers, Provision, Reap,
       MgmtControllersComeUp, Operator, WriteBootstrapConfigSecret,
       OperatorWrites, OtherRun, vars
  <1> QED
    BY <1>1, <1>2, <1>3, <1>4, <1>5, <1>6 DEF Next, RunStep

(* A configuration marked realized belongs to a workload with machines; no *)
(* hypothesis on the namespaces is needed.                                 *)
THEOREM RealizedIsLive ==
  ASSUME KindSurvivesForce
  PROVE  Spec => []RealizedHasMachines
  <1> DEFINE RInv == TypeOK /\ NoDeletion /\ ReadyIsLive /\ RealizedHasMachines
  <1>1. Init => RInv
    BY InitTyped DEF Init, NoOptions, NoDeletion, ReadyIsLive, RealizedHasMachines
  <1>2. ASSUME RInv, [Next]_vars PROVE RInv'
    <2>1. TypeOK'
      BY <1>2, RunStepTyped, OutsideTyped, StutterTyped DEF Next
    <2>2. NoDeletion' /\ ReadyIsLive'
      BY <1>2, NoDeletionKept, ReadyIsLiveKept
    <2>3. RealizedHasMachines'
      <3> SUFFICES ASSUME NEW p \in Plane, config'[p] = "realized"
                   PROVE  Workload \in infra'
        BY DEF RealizedHasMachines
      <3>1. Workload \in infra
        BY <1>2, RealizedComesFrom DEF RealizedHasMachines, ReadyIsLive
      <3> QED
        BY <1>2, <3>1, MachinesStay
    <2> QED
      BY <2>1, <2>2, <2>3
  <1> QED
    BY <1>1, <1>2, PTL DEF Spec

(***************************************************************************)
(* Who reconciles what.  Each step of a pivot from the move on takes       *)
(* clusters from the controllers of a plane, or gives some to mgmt that    *)
(* kind does not store any more.                                           *)
(***************************************************************************)
LEMMA KindEmptyUncontested ==
  ASSUME inv["kind"]' = {}
  PROVE  Contested' = {}
  BY DEF Contested, Active

LEMMA LessIsUncontested ==
  ASSUME (Active("kind"))' \subseteq Active("kind"),
         (Active("mgmt"))' \cap (Active("kind"))' \subseteq Active("mgmt")
  PROVE  Contested' \subseteq Contested
  BY DEF Contested

LEMMA PlanesKeptUncontested ==
  ASSUME UNCHANGED <<kindUp, capi, infraRec, inv, paused>>
  PROVE  Contested' \subseteq Contested
  BY DEF Contested, Active, Reconciling

LEMMA MoveUncontested ==
  ASSUME TypeOK, MoveSteps
  PROVE  Contested' \subseteq Contested
  <1> USE DEF TypeOK, Active, Reconciling
  <1>1. CASE MovePause
    BY <1>1, LessIsUncontested DEF MovePause
  <1>2. CASE MoveCopy
    BY <1>2, LessIsUncontested DEF MoveCopy, CopyToMgmt
  <1>3. CASE MoveDelete
    BY <1>3, LessIsUncontested DEF MoveDelete, DropFromKind
  <1>4. CASE MoveCopyBreaks
    BY <1>4, LessIsUncontested DEF MoveCopyBreaks, CopyToMgmt
  <1>5. CASE MoveDeleteBreaks
    BY <1>5, LessIsUncontested DEF MoveDeleteBreaks, DropFromKind
  <1>6. CASE MoveRefused \/ MoveDryRun \/ MoveDryRunFails \/ MoveDone
    BY <1>6, PlanesKeptUncontested
       DEF MoveRefused, MoveDryRun, MoveDryRunFails, MoveDone, Die, planes
  <1> QED
    BY <1>1, <1>2, <1>3, <1>4, <1>5, <1>6 DEF MoveSteps

LEMMA ParityUncontested ==
  ASSUME ParitySteps
  PROVE  Contested' \subseteq Contested
  BY PlanesKeptUncontested
     DEF ParitySteps, HandOff, EnsureMgmtSystem, EnsureMgmtSystemFails,
         EnsureMgmtRepos, EnsureMgmtReposFails, VerifyParity,
         VerifyParityExpires, Rebind, RebindFails, Fault, Die, planes

(* What a pivot writes after its move goes to mgmt, and kind is empty.     *)
LEMMA WorkloadUncontested ==
  ASSUME TypeOK, KindEmpty, opt.pivot, WorkloadSteps
  PROVE  Contested' \subseteq Contested
  <1>1. inv["kind"] = {} /\ rebound
    BY DEF KindEmpty, TailPhase, WorkloadSteps, StopBeforeWorkload,
       ApplyWorkloadManifest, ApplyWorkloadManifestFails, WorkloadReady,
       WorkloadNotReady, TeardownKind, TeardownKindFails, TeardownSkipped,
       PromoteBootstrapConfigToRealized
  <1>2. inv["kind"]' = {}
    BY <1>1 DEF TypeOK, WorkloadSteps, StopBeforeWorkload,
       ApplyWorkloadManifest, ApplyWorkloadManifestFails, Apply, ApplyTarget,
       Target, WorkloadReady, WorkloadNotReady, TeardownKind, LoseKind,
       TeardownKindFails, TeardownSkipped, PromoteBootstrapConfigToRealized,
       Die, planes
  <1> QED
    BY <1>2, KindEmptyUncontested

(* From the move on, no step of a pivot puts a cluster under the           *)
(* controllers of both planes.                                             *)
THEOREM NothingContested ==
  ASSUME KindSurvivesForce, AllNamespacesMoved
  PROVE  Spec => PivotContestsNothing
  <1>1. IInv /\ [Next]_vars =>
          [opt.pivot /\ (MoveSteps \/ ParitySteps \/ WorkloadSteps)
             => Contested' \subseteq Contested]_vars
    BY MoveUncontested, ParityUncontested, WorkloadUncontested
       DEF IInv, Progress
  <1> QED
    BY Safe, <1>1, PTL DEF Spec, PivotContestsNothing

=============================================================================
