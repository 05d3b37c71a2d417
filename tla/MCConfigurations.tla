-------------------------- MODULE MCConfigurations --------------------------
(* Two runs that may overlap, over one named kind cluster and the two      *)
(* default ones, with a flag, a variable and a file key for each way a     *)
(* setting is supplied.                                                    *)
EXTENDS Configurations, TLC

MCKindClusters == {"capi-provisioner", "yage-mgmt", "k"}
MCInputs == {<<"env", "InfraProvider", "proxmox">>, <<"env", "InfraProvider", "vsphere">>,
             <<"flag", "KindClusterName", "k">>, <<"flag", "ConfigName", "dev_1">>,
             <<"flag", "Gateway", "g1">>, <<"file", "OldToken", "t1">>,
             <<"env", "PostsyncHooksGitURL", "url#main">>}
MCEdits == {<<"CAPIToken", "t2">>}
MCHashed == [v \in {"url#main"} |-> "\"url"]
MCVault == [k \in {<<"CAPIToken">>} |-> "t3"]
MCSymmetry == Permutations(Runners)
============================================================================
