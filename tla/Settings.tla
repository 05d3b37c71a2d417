------------------------------ MODULE Settings ------------------------------
(***************************************************************************)
(* The configuration of a run (internal/config, internal/ui/cli): where    *)
(* each setting comes from, which of them a stored configuration may       *)
(* replace, and what a stored configuration holds.                         *)
(*                                                                         *)
(* The program has some three hundred settings and reads each in one of a  *)
(* few ways; every section below has one setting for each way it uses.     *)
(* Settings, variables, file keys and flags share one name, and values are *)
(* short texts: "" for none, "preset" for a built-in default, and "true"   *)
(* and "false" for a switch.                                               *)
(***************************************************************************)
EXTENDS FiniteSets, Sequences

\* the schema of a stored configuration, in the order config.yaml lists it
Stored == {"CiliumVersion", "KindClusterName", "Pool", "Gateway", "ConfigName",
           "WorkloadClusterName", "PivotEnabled", "MgmtClusterName",
           "WorkerMachineCount", "PostsyncHooksGitURL", "KyvernoEnabled"}

\* the settings with an *_EXPLICIT flag beside them
Guarded == {"Pool", "Gateway", "ConfigName", "WorkloadClusterName", "MgmtClusterName"}

Switches == {"Airgapped", "PivotEnabled", "KyvernoEnabled"}
Amounts == {"SystemAppsMemory"}
Credentials == {"CAPIToken", "DigitalOceanToken"}
Setting == Stored \cup Switches \cup Amounts \cup Credentials
             \cup {"InfraProvider", "AWSRegion", "AWSAMIID", "AzureSubscriptionID", "GCPProject",
                   "HetznerLocation", "OpenStackCloud", "VsphereServer", "OCITenancyOCID",
                   "IBMCloudVPCName"}

CONSTANT Hashed     \* the values with a "#", and what is left of each

\* One map over another.
f ++ g == [x \in DOMAIN f \cup DOMAIN g |-> IF x \in DOMAIN f THEN f[x] ELSE g[x]]

Truth == {"true", "false"}
Figures == {"4096", "8192"}     \* what reads as a number

ASSUME HashedAssumption ==
    /\ ({""} \cup Truth) \cap DOMAIN Hashed = {}
    /\ \A v \in DOMAIN Hashed : Hashed[v] \notin {""} \cup Truth \cup DOMAIN Hashed

--------------------------------------------------------------------------

\* The environment.  An empty variable counts as unset, except where an
\* empty one means "nothing" (getenvKeep).
Text(env, key, preset) ==
    IF key \in DOMAIN env /\ env[key] # "" THEN env[key] ELSE preset
Kept(env, key, preset) == IF key \in DOMAIN env THEN env[key] ELSE preset
Readable(env, key, forms, preset) ==
    IF Text(env, key, preset) \in forms THEN env[key] ELSE preset
Switch(env, key, preset) == Readable(env, key, Truth \ {preset}, preset)
Amount(env, key, preset) == Readable(env, key, Figures \ {preset}, preset)

LoadReleases(env) == [s \in {"CiliumVersion"} |-> Text(env, s, "preset")]
LoadTopLevel(env) == [s \in {"Airgapped"} |-> Switch(env, s, "false")]
LoadCosts(env) == [s \in {"DigitalOceanToken"} |-> Text(env, s, Text(env, "VendorToken", ""))]
LoadClouds(env) ==
       [s \in {"AWSRegion", "HetznerLocation"} |-> Text(env, s, "preset")]
    ++ [s \in {"AWSAMIID", "AzureSubscriptionID", "GCPProject", "OpenStackCloud",
               "VsphereServer", "OCITenancyOCID", "IBMCloudVPCName"} |-> Text(env, s, "")]
    ++ [s \in Amounts |-> Amount(env, s, "4096")]
LoadManagement(env) == [s \in {"KindClusterName", "InfraProvider"} |-> Text(env, s, "")]
LoadAddOns(env) ==
       [s \in {"PostsyncHooksGitURL"} |-> Kept(env, s, "preset")]
    ++ [s \in {"KyvernoEnabled"} |-> Switch(env, s, "true")]
LoadIdentities(env, keyring) ==
    [s \in {"CAPIToken"} |-> Text(env, s, Text(env, "OldToken", keyring))]
LoadNetwork(env) == [s \in {"Gateway"} |-> Text(env, s, "preset")]
LoadClusters(env) ==
       [s \in {"WorkloadClusterName", "WorkerMachineCount", "MgmtClusterName"} |->
            Text(env, s, "preset")]
    ++ [s \in {"ConfigName", "Pool"} |-> Text(env, s, Text(env, "WorkloadClusterName", "preset"))]
    ++ [s \in {"PivotEnabled"} |-> Switch(env, s, "true")]

\* A variable guards the setting it sets, but for the network settings, whose
\* guards the environment sets by variables of their own.
EnvFixes(env) ==
    {s \in Guarded \ {"Gateway"} : Text(env, s, "") # ""}
    \cup {s \in {"Gateway"} : Switch(env, "GatewayExplicit", "false") = "true"}

Load(env, keyring) ==
    [set |-> LoadReleases(env) ++ LoadTopLevel(env) ++ LoadCosts(env) ++ LoadClouds(env)
               ++ LoadManagement(env) ++ LoadAddOns(env) ++ LoadIdentities(env, keyring)
               ++ LoadNetwork(env) ++ LoadClusters(env),
     fixed |-> EnvFixes(env)]

--------------------------------------------------------------------------

\* Stored configurations: the settings that are not empty, and no secret.
Snapshot(cfg) == [s \in {t \in Stored : cfg.set[t] # ""} |-> cfg.set[s]]

\* parseFlatYAMLOrJSON: each value was written between quotes on a line of its
\* own, of which what follows a "#" is dropped before the quotes are looked at;
\* the opening one then stays.
Parsed(kv) == [s \in DOMAIN kv |-> IF kv[s] \in DOMAIN Hashed THEN Hashed[kv[s]] ELSE kv[s]]

\* mutant: a value read back fills gaps only
FilledFrom(cfg, kv) ==
    [cfg EXCEPT !.set = [s \in Setting |->
        IF s \in Stored \cap DOMAIN kv /\ cfg.set[s] = "" THEN kv[s] ELSE cfg.set[s]]]

\* mutant: guards are not looked at
OverlaidBlindly(cfg, kv) ==
    [cfg EXCEPT !.set = [s \in Setting |->
        IF s \in Stored \cap DOMAIN kv /\ kv[s] # "" THEN kv[s] ELSE cfg.set[s]]]

\* ApplySnapshotKV: what was stored replaces what is not guarded.
Replaceable(cfg, kv, s) ==
    /\ s \in Stored \cap DOMAIN kv
    /\ kv[s] # ""
    /\ s \in Guarded => s \notin cfg.fixed
    /\ s \in Switches => kv[s] \in Truth
Overlay(cfg, kv) ==
    [cfg EXCEPT !.set = [s \in Setting |->
        IF Replaceable(cfg, kv, s) THEN kv[s] ELSE cfg.set[s]]]

\* The file: the stored settings by the same rule, the secrets and the
\* provider by plain assignment, the token's former name only into a gap.
ApplyYAMLFile(cfg, file) ==
    LET given == {s \in DOMAIN file : file[s] # ""}
        extra == {"InfraProvider", "CAPIToken", "DigitalOceanToken"} \cap given
        read == [s \in extra |-> file[s]] ++ Overlay(cfg, file).set
    IN [cfg EXCEPT !.set =
          IF "OldToken" \in given /\ read["CAPIToken"] = ""
          THEN [read EXCEPT !["CAPIToken"] = file["OldToken"]] ELSE read]

--------------------------------------------------------------------------

\* The command line, section by section of the switch over its words.
Taken(cfg, flags, keys) ==
    [cfg EXCEPT !.set = [s \in keys \cap DOMAIN flags |-> flags[s]] ++ @]
Fixing(cfg, flags, keys) ==
    [Taken(cfg, flags, keys) EXCEPT !.fixed = @ \cup (keys \cap DOMAIN flags)]
Only(flags, key, form) == IF key \in DOMAIN flags /\ flags[key] = form THEN {key} ELSE {}

ParseProxmox(cfg, flags) == Taken(cfg, flags, {"KindClusterName", "CAPIToken", "Pool"})
ParseNetwork(cfg, flags) == Fixing(cfg, flags, {"Gateway"})
ParseAddOns(cfg, flags) ==
    Taken(cfg, flags, {"PostsyncHooksGitURL"} \cup Only(flags, "KyvernoEnabled", "false"))
ParseClusters(cfg, flags) ==
    Taken(Fixing(cfg, flags, {"ConfigName", "WorkloadClusterName"}), flags,
          {"WorkerMachineCount", "PivotEnabled"})
ParseCosts(cfg, flags) ==
    Taken(cfg, flags, Only(flags, "Airgapped", "true")
                        \cup {s \in Amounts \cap DOMAIN flags : flags[s] \in Figures})
ParseManagement(cfg, flags) == Taken(cfg, flags, {"MgmtClusterName"})
ParseProvider(cfg, flags) == Taken(cfg, flags, {"InfraProvider"})

Parse(cfg, flags) ==
    ParseProvider(ParseManagement(ParseCosts(ParseClusters(ParseAddOns(
        ParseNetwork(ParseProxmox(cfg, flags), flags), flags), flags), flags), flags), flags)

Configure(env, keyring, file, flags) == Parse(ApplyYAMLFile(Load(env, keyring), file), flags)

--------------------------------------------------------------------------

\* The fields a provider keeps, under the keys it gives them (KindSyncFields),
\* and the keys it takes back (AbsorbConfigYAML): all but Proxmox know their
\* keys by the bare names alone.
Bare(settings, cloud) ==
    [keeps |-> settings, takes |-> {<<s>> : s \in settings}, cloud |-> cloud]

Proxmox == [keeps |-> {"CAPIToken", "Pool"}, cloud |-> FALSE,
            takes |-> {<<"proxmox", "CAPIToken">>, <<"CAPIToken">>}]
AWS == Bare({"AWSRegion", "AWSAMIID"}, TRUE)
Azure == Bare({"AzureSubscriptionID"}, TRUE)
GCP == Bare({"GCPProject"}, TRUE)
Hetzner == Bare({"HetznerLocation"}, TRUE)
OpenStack == Bare({"OpenStackCloud"}, FALSE)
Vsphere == Bare({"VsphereServer"}, FALSE)
OCI == Bare({"OCITenancyOCID"}, TRUE)
IBMCloud == Bare({"IBMCloudVPCName"}, TRUE)

Registry == [proxmox |-> Proxmox, aws |-> AWS, azure |-> Azure, gcp |-> GCP, hetzner |-> Hetzner,
             openstack |-> OpenStack, vsphere |-> Vsphere, oci |-> OCI, ibmcloud |-> IBMCloud]

\* provider.For: none by that name, or a cloud while air-gapped.
ProviderFor(cfg) ==
    LET name == cfg.set["InfraProvider"]
    IN IF name \in DOMAIN Registry /\ (cfg.set["Airgapped"] = "true" => ~Registry[name].cloud)
       THEN Registry[name] ELSE Bare({}, FALSE)

Offered(cfg, kv, s) ==
    {kv[k] : k \in {j \in DOMAIN kv \cap ProviderFor(cfg).takes : j[Len(j)] = s}} \ {""}

\* mutant: a credential on kind replaces the one supplied
AbsorbOver(cfg, kv) ==
    [cfg EXCEPT !.set = [s \in Setting |->
        IF Offered(cfg, kv, s) # {} THEN CHOOSE v \in Offered(cfg, kv, s) : TRUE ELSE cfg.set[s]]]

\* Only gaps are filled, and keys the provider does not know are dropped.
AbsorbConfigYAML(cfg, kv) ==
    [cfg EXCEPT !.set = [s \in Setting |->
        IF cfg.set[s] = "" /\ Offered(cfg, kv, s) # {}
        THEN CHOOSE v \in Offered(cfg, kv, s) : TRUE ELSE cfg.set[s]]]

\* The settings of no provider: a gap takes what is stored.
FilledIn(cfg, kv) ==
    [cfg EXCEPT !.set = [s \in Setting |->
        IF s \in DOMAIN kv /\ cfg.set[s] = "" THEN kv[s] ELSE cfg.set[s]]]
============================================================================
