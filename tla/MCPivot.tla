------------------------------ MODULE MCPivot ------------------------------
(***************************************************************************)
(* Small instances of Pivot, and the properties TLC checks on them.        *)
(***************************************************************************)
EXTENDS Pivot, FiniteSets

CONSTANTS workload, mgmt, other,   \* clusters
          cfg, creds, state        \* Secrets

Two == {workload, mgmt}
Three == {workload, mgmt, other}

(* The workload and the management cluster in namespaces of their own;     *)
(* "other" is a second workload cluster in a third namespace.              *)
NsNames == {"nsW", "nsM", "nsO"}
Ns == [c \in Cluster |-> CASE c = workload -> "nsW"
                           [] c = mgmt -> "nsM"
                           [] OTHER -> "nsO"]
SharedNs == [c \in Cluster |-> IF c = mgmt THEN "nsM" ELSE "nsW"]
Namespaces == <<"nsW", "nsM">>
Credentials == {cfg, creds}
WithState == Credentials \cup {state}   \* the state of a tofu module
CfgOnly == {cfg}

Flags(S) == [o \in DOMAIN NoOptions |-> o \in S]
Disturbed(O) == {[o EXCEPT !.faults = TRUE] : o \in O}

(* The command lines that matter together: with and without a pivot, the   *)
(* early exits, and the two switches that keep kind.                       *)
SafeOptions == Disturbed({Flags({}), Flags({"stop"}), Flags({"pivot"}), Flags({"pivot", "keep"}),
                          Flags({"pivot", "stop"}), Flags({"pivot", "dryRun"}),
                          Flags({"pivot", "force", "noDelete"})})
PlainOptions == {Flags({}), Flags({"pivot"})}
PivotOnly == {Flags({"pivot"})}
(* Runs that are disturbed, also with --force, and runs that are not.      *)
LiveOptions == Disturbed({Flags({}), Flags({"pivot"}), Flags({"force"}), Flags({"pivot", "dryRun"})})
               \cup {Flags({}), Flags({"pivot"}), Flags({"pivot", "keep"}), Flags({"pivot", "stop"})}
=============================================================================
