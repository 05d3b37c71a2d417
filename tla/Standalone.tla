----------------------------- MODULE Standalone -----------------------------
(***************************************************************************)
(* What a call of yage does instead of installing a cluster                *)
(* (orchestrator/bootstrap.go, the first part of Run): it plans, or it     *)
(* saves or restores the state of the kind cluster.                        *)
(***************************************************************************)
EXTENDS Planning, Archives

VARIABLE call

standaloneVars == <<call, planningVars, archivesVars>>

StandaloneInit ==
  \/ call = "plan" /\ Init /\ ArchivesInit
  \/ call = "kind state" /\ ArchivesInit /\ asks = "none" /\ NoPreflight /\ NoEstimate /\ NoLookup

PlansOnly == call = "plan" /\ Next /\ UNCHANGED <<call, archivesVars>>
KeepsState == call = "kind state" /\ ArchivesNext /\ UNCHANGED <<call, planningVars>>

StandaloneNext == PlansOnly \/ KeepsState

StandaloneSpec == StandaloneInit /\ [][StandaloneNext]_standaloneVars
=============================================================================
