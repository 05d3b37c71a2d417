--------------------------- MODULE Configurations ---------------------------
(***************************************************************************)
(* Runs of the program and the configurations they keep on kind clusters   *)
(* (cmd/yage/main.go, internal/cluster/kindsync, orchestrator).            *)
(*                                                                         *)
(* A cluster holds two kinds of Secret: one for each configuration, which  *)
(* the dashboard writes and the start of a run reads back, and one that    *)
(* every run on the cluster shares, which each run overlays on its         *)
(* settings and rewrites several times.  Runs on one host may overlap, and *)
(* each may stop at any point.                                             *)
(***************************************************************************)
EXTENDS Settings, Naturals

CONSTANTS
    Runners,      \* the processes
    KindClusters, \* names a kind cluster may have
    Inputs,       \* <<source, setting, value>>: what an operator may supply
    Edits,        \* <<setting, value>>: what one may type into the form
    Vault,        \* what the operator's credential Secrets hold
    Styles,       \* how runs may be started, of the four below
    MaxInputs,    \* bound: inputs of one run
    MaxRuns       \* bound: runs

ASSUME InputsAssumption ==
    /\ {"capi-provisioner", "yage-mgmt"} \subseteq KindClusters
    /\ DOMAIN Hashed \cap KindClusters = {}
    /\ \A i \in Inputs : i[1] \in {"env", "file", "flag"}
    /\ \A e \in Edits : e[1] \in Setting
    /\ \A i \in Inputs : i[2] = "KindClusterName" => i[3] \in KindClusters \cup {""}
    /\ \A e \in Edits : e[1] = "KindClusterName" => e[2] \in KindClusters \cup {""}
    /\ \A i \in Inputs : i[1] = "flag" /\ i[2] \in Switches => i[3] \in Truth
    /\ \A e \in Edits : e[1] \in Switches => e[2] \in Truth
    /\ Styles \subseteq {"form", "attended", "unattended", "forced"}
    /\ {MaxInputs, MaxRuns} \subseteq Nat

VARIABLES
    clusters,  \* the kind clusters that exist
    current,   \* the cluster of kubectl's current context, or none
    configs,   \* the bootstrap-config Secrets of a cluster, by their label
    shared,    \* the proxmox-bootstrap-config Secret of a cluster
    built,     \* the workload clusters a cluster manages
    runs,      \* the processes
    begun      \* how many runs were started

vars == <<clusters, current, configs, shared, built, runs, begun>>

None == "none"
Nothing == [s \in {} |-> ""]

\* sanitizeLabelValue: what is not a letter, a digit or a dash becomes a dash.
Label(name) == IF name = "dev_1" THEN "dev-1" ELSE name

\* Inputs of one source as a map from names to values.
From(given, source) ==
    LET of == {i \in given : i[1] = source}
    IN [key \in {i[2] : i \in of} |-> (CHOOSE i \in of : i[2] = key)[3]]
Consistent(given) == \A i, j \in given : i[1] = j[1] /\ i[2] = j[2] => i = j
Choices == {given \in SUBSET Inputs : Cardinality(given) <= MaxInputs /\ Consistent(given)}

Idle == [pc |-> "off", cfg |-> Load(Nothing, ""), given |-> {}, picked |-> None,
         chosen |-> {}, style |-> "unattended"]

\* --xapiri; a terminal to ask at; --force, which asks nothing
Form(p) == runs[p].style = "form"
Attended(p) == runs[p].style \in {"form", "attended"}
Forced(p) == runs[p].style = "forced"

Set(cfg, s, v) == [cfg EXCEPT !.set[s] = v]
Get(p, s) == runs[p].cfg.set[s]

--------------------------------------------------------------------------

\* The Secret of one configuration.  "was" is the configuration it was made
\* from, for the properties.
ConfigSecret(cfg) ==
    LET kept == {s \in ProviderFor(cfg).keeps : cfg.set[s] # ""}
        plain == {s \in {"InfraProvider", "WorkloadClusterName", "DigitalOceanToken"} :
                     cfg.set[s] # ""}
    IN [label |-> Label(cfg.set["ConfigName"]),
        workload |-> Label(cfg.set["WorkloadClusterName"]),
        status |-> "draft",
        plain |-> [s \in plain |-> cfg.set[s]],
        fields |-> [k \in {<<cfg.set["InfraProvider"], s>> : s \in kept} |-> cfg.set[k[2]]],
        snapshot |-> Snapshot(cfg),
        was |-> cfg.set]

\* MergeBootstrapConfigFromKind: gaps from the plain keys and the provider's,
\* then the snapshot over everything that is not guarded.
MergeConfig(cfg) ==
    LET c == cfg.set["KindClusterName"]
        l == Label(cfg.set["ConfigName"])
    IN IF c \notin clusters \/ l \notin DOMAIN configs[c] THEN cfg
       ELSE LET sec == configs[c][l]
            IN Overlay(AbsorbConfigYAML(FilledIn(cfg, sec.plain), sec.fields), Parsed(sec.snapshot))

ApplyCandidate(cfg, c, sec) ==
    LET there == Set(Set(cfg, "KindClusterName", c), "ConfigName", sec.label)
    IN MergeConfig(IF "WorkloadClusterName" \in cfg.fixed \/ sec.workload = "" THEN there
                   ELSE Set(there, "WorkloadClusterName", sec.workload))

\* ResolveBootstrapContext: the cluster's own context, or the current one.
Context(cfg) ==
    CASE cfg.set["KindClusterName"] \in clusters -> cfg.set["KindClusterName"]
      [] cfg.set["KindClusterName"] \notin clusters -> current

\* MergeBootstrapSecretsFromKind: the shared snapshot, then credentials.
MergeShared(cfg) ==
    IF Context(cfg) = None THEN cfg
    ELSE AbsorbConfigYAML(Overlay(cfg, Parsed(shared[Context(cfg)])), Vault)

\* mutant: the cluster named is written to, whether it exists or not
SyncedToName(cfg) == [shared EXCEPT ![cfg.set["KindClusterName"]] = Snapshot(cfg)]

\* SyncBootstrapConfigToKind.
Synced(cfg) ==
    IF Context(cfg) = None THEN shared
    ELSE [shared EXCEPT ![Context(cfg)] = Snapshot(cfg)]

--------------------------------------------------------------------------

\* A process goes on, or ends and takes its settings with it.
Become(p, pc, cfg) ==
    runs' = [runs EXCEPT ![p] = IF pc = "off" THEN Idle ELSE [@ EXCEPT !.pc = pc, !.cfg = cfg]]

\* A new process reads environment, file and flags; its memory starts empty.
Start(p) == \E given \in Choices, style \in Styles :
    /\ runs[p].pc = "off"
    /\ begun < MaxRuns
    /\ begun' = begun + 1
    /\ runs' = [runs EXCEPT ![p] =
         [Idle EXCEPT !.pc = "recall", !.given = given, !.style = style,
                      !.cfg = Configure(From(given, "env"), "", From(given, "file"),
                                        From(given, "flag"))]]
    /\ UNCHANGED <<clusters, current, configs, shared, built>>

\* After the settings are complete: into the dashboard, on to the install, or
\* out for want of a provider.
After(p, cfg) == IF Form(p) THEN "form"
                 ELSE IF cfg.set["InfraProvider"] = "" THEN "off" ELSE "install"

\* A configuration named in so many words, on a cluster named too.
Named(p) == Get(p, "KindClusterName") # "" /\ "ConfigName" \in runs[p].cfg.fixed
Recall(p) ==
    /\ runs[p].pc = "recall"
    /\ Named(p) \/ Form(p)
    /\ LET cfg == IF Named(p) THEN MergeConfig(runs[p].cfg) ELSE runs[p].cfg
       IN Become(p, After(p, cfg), cfg)
    /\ UNCHANGED <<clusters, current, configs, shared, built, begun>>

\* Otherwise one of those on the cluster, or on any: the only one there is,
\* the operator's choice of several, or none of them.
Reachable(p) == IF Get(p, "KindClusterName") = "" THEN clusters
                ELSE clusters \cap {Get(p, "KindClusterName")}
Candidates(p) == {k \in Reachable(p) \X UNION {DOMAIN configs[c] : c \in KindClusters} :
                      k[2] \in DOMAIN configs[k[1]]}
PickConfig(p) ==
    /\ runs[p].pc = "recall"
    /\ ~Named(p) /\ ~Form(p)
    /\ \/ /\ Candidates(p) = {} \/ (Cardinality(Candidates(p)) > 1 /\ Attended(p))
          /\ Become(p, After(p, runs[p].cfg), runs[p].cfg)
       \/ \E k \in Candidates(p) :
            LET cfg == ApplyCandidate(runs[p].cfg, k[1], configs[k[1]][k[2]])
            IN runs' = [runs EXCEPT ![p] =
                 IF After(p, cfg) = "off" THEN Idle
                 ELSE [@ EXCEPT !.pc = After(p, cfg), !.cfg = cfg, !.picked = k[2]]]
    /\ UNCHANGED <<clusters, current, configs, shared, built, begun>>

\* The dashboard brings its cluster up before it opens (EnsureClusterUp).
OpenForm(p) ==
    LET c == IF Get(p, "KindClusterName") = "" THEN "yage-mgmt" ELSE Get(p, "KindClusterName")
    IN /\ runs[p].pc = "form"
       /\ clusters' = clusters \cup {c}
       /\ current' = c
       /\ Become(p, "filling", Set(runs[p].cfg, "KindClusterName", c))
       /\ UNCHANGED <<configs, shared, built, begun>>

Edit(p) == \E e \in Edits :
    /\ runs[p].pc = "filling"
    /\ runs' = [runs EXCEPT ![p].cfg = Set(@, e[1], e[2]), ![p].chosen = @ \cup {e[1]}]
    /\ UNCHANGED <<clusters, current, configs, shared, built, begun>>

Save(p) ==
    LET c == Get(p, "KindClusterName")
        sec == ConfigSecret(runs[p].cfg)
    IN /\ runs[p].pc = "filling"
       /\ configs' = IF c \in clusters
                     THEN [configs EXCEPT ![c] = [l \in {sec.label} |-> sec] ++ @] ELSE configs
       /\ \/ Become(p, "off", runs[p].cfg)
          \/ Get(p, "InfraProvider") # "" /\ Become(p, "install", runs[p].cfg)
       /\ UNCHANGED <<clusters, current, shared, built, begun>>

--------------------------------------------------------------------------

\* The install of the tools, in whose middle the shared settings come in.
Install(p) ==
    LET cfg == IF Get(p, "KindClusterName") # "" THEN runs[p].cfg
               ELSE Set(runs[p].cfg, "KindClusterName", "capi-provisioner")
    IN /\ runs[p].pc = "install"
       /\ Become(p, "select", MergeShared(cfg))
       /\ UNCHANGED <<clusters, current, configs, shared, built, begun>>

\* MaybeInteractiveSelectKindCluster, then the shared settings in and out.
KindChoices(p) ==
    LET own == Get(p, "KindClusterName")
    IN CASE Forced(p) -> {own}
         [] ~Forced(p) /\ Attended(p) ->
              IF own \in clusters /\ own = current THEN {own} ELSE {own} \cup clusters
         [] ~Forced(p) /\ ~Attended(p) ->
              IF Cardinality(clusters) = 1 THEN clusters
              ELSE IF current \in clusters THEN {current} ELSE {own}
Select(p) == \E c \in KindChoices(p) :
    LET cfg == MergeShared(Set(runs[p].cfg, "KindClusterName", c))
    IN /\ runs[p].pc = "select"
       /\ shared' = Synced(cfg)
       /\ runs' = [runs EXCEPT ![p].pc = "kind", ![p].cfg = cfg,
                     ![p].chosen = @ \cup {s \in {"KindClusterName"} :
                                              Attended(p) /\ c # Get(p, s)}]
       /\ UNCHANGED <<clusters, current, configs, built, begun>>

\* --force deletes the cluster that is there, with everything stored on it.
RecreateKind(p) ==
    LET c == Get(p, "KindClusterName")
    IN /\ runs[p].pc = "kind"
       /\ c \in clusters /\ Forced(p)
       /\ clusters' = clusters \ {c}
       /\ current' = IF current = c THEN None ELSE current
       /\ configs' = [configs EXCEPT ![c] = [l \in {} |-> Nothing]]
       /\ shared' = [shared EXCEPT ![c] = Nothing]
       /\ built' = [built EXCEPT ![c] = {}]
       /\ Become(p, "create", runs[p].cfg)
       /\ UNCHANGED begun

CreateKind(p) ==
    LET c == Get(p, "KindClusterName")
    IN /\ runs[p].pc \in {"kind", "create"}
       /\ runs[p].pc = "kind" => ~(c \in clusters /\ Forced(p))
       /\ clusters' = clusters \cup {c}
       /\ current' = c
       /\ shared' = [shared EXCEPT ![c] = Snapshot(runs[p].cfg)]
       /\ Become(p, "workload", runs[p].cfg)
       /\ UNCHANGED <<configs, built, begun>>

\* MaybeInteractiveSelectWorkloadCluster, then the shared settings again; the
\* workload cluster is applied and the configuration marked realized.
WorkloadChoices(p) ==
    LET own == Get(p, "WorkloadClusterName")
        there == IF Get(p, "KindClusterName") \in clusters THEN built[Get(p, "KindClusterName")] ELSE {}
    IN CASE Forced(p) -> {own}
         [] ~Forced(p) /\ Attended(p) -> {own} \cup there
         [] ~Forced(p) /\ ~Attended(p) -> IF Cardinality(there) = 1 THEN there ELSE {own}
Workload(p) == \E w \in WorkloadChoices(p) :
    LET cfg == MergeShared(Set(runs[p].cfg, "WorkloadClusterName", w))
    IN /\ runs[p].pc = "workload"
       /\ shared' = Synced(cfg)
       /\ runs' = [runs EXCEPT ![p].pc = "promote", ![p].cfg = cfg,
                     ![p].chosen = @ \cup {s \in {"WorkloadClusterName"} :
                                              Attended(p) /\ w # Get(p, s)}]
       /\ UNCHANGED <<clusters, current, configs, built, begun>>

Promote(p) ==
    LET c == Get(p, "KindClusterName")
        l == Label(Get(p, "ConfigName"))
    IN /\ runs[p].pc = "promote"
       /\ built' = IF c \in clusters
                   THEN [built EXCEPT ![c] = @ \cup {Get(p, "WorkloadClusterName")}] ELSE built
       /\ configs' = IF c \in clusters /\ l \in DOMAIN configs[c]
                     THEN [configs EXCEPT ![c][l].status = "realized"] ELSE configs
       /\ Become(p, "off", runs[p].cfg)
       /\ UNCHANGED <<clusters, current, shared, begun>>

\* A process is stopped, or one of its tools fails, between two steps.
Crash(p) ==
    /\ runs[p].pc # "off"
    /\ Become(p, "off", runs[p].cfg)
    /\ UNCHANGED <<clusters, current, configs, shared, built, begun>>

--------------------------------------------------------------------------

Init ==
    /\ clusters \in SUBSET {c \in KindClusters : c \notin {"capi-provisioner", "yage-mgmt"}}
    /\ current \in clusters \cup {None}
    /\ configs = [c \in KindClusters |-> [l \in {} |-> Nothing]]
    /\ shared = [c \in KindClusters |-> Nothing]
    /\ built = [c \in KindClusters |-> {}]
    /\ runs = [p \in Runners |-> Idle]
    /\ begun = 0

Step(p) ==
    \/ Start(p) \/ Recall(p) \/ PickConfig(p) \/ OpenForm(p) \/ Edit(p) \/ Save(p)
    \/ Install(p) \/ Select(p) \/ RecreateKind(p) \/ CreateKind(p)
    \/ Workload(p) \/ Promote(p) \/ Crash(p)

Next == \E p \in Runners : Step(p)

Spec == Init /\ [][Next]_vars
--------------------------------------------------------------------------

TypeOK ==
    /\ clusters \subseteq KindClusters
    /\ current \in clusters \cup {None}
    /\ \A c \in KindClusters :
         /\ c \notin clusters => DOMAIN configs[c] = {} /\ DOMAIN shared[c] = {} /\ built[c] = {}
         /\ DOMAIN shared[c] \subseteq Stored
    /\ \A p \in Runners :
         /\ runs[p].pc \in {"off", "recall", "form", "filling", "install", "select", "kind",
                            "create", "workload", "promote"}
         /\ DOMAIN runs[p].cfg.set = Setting
         /\ runs[p].cfg.fixed \subseteq Guarded
    /\ begun \in 0 .. MaxRuns

(* Whatever is merged into a running configuration - the file, a stored    *)
(* configuration, another run's shared settings, credentials on kind - a   *)
(* guarded setting the operator fixed and a credential that was supplied   *)
(* keep their values until the operator types another (snapshot.go:385,    *)
(* the *_EXPLICIT guards).  The names of the configuration and of the      *)
(* workload cluster are not among them: a pick changes both.               *)
Firm(p) == ({"Gateway", "Pool", "MgmtClusterName"} \cap runs[p].cfg.fixed)
             \cup {s \in Credentials : Get(p, s) # ""}
SuppliedStays ==
    [][\A p \in Runners :
         runs[p].pc \notin {"off", "filling"} /\ runs'[p].pc # "off" =>
             \A s \in Firm(p) : runs'[p].cfg.set[s] = Get(p, s)]_vars

(* A configuration saved from the dashboard comes back as it was: a run    *)
(* that asks for it by name, or picks it, starts from every setting it was *)
(* saved with and from its Proxmox token (bootstrap_config.go:229), but    *)
(* for what this run's operator fixed or supplied, and but for values with *)
(* a "#", which config.go:381 takes for a comment.                         *)
Restores(p) == runs[p].pc = "recall" /\ runs'[p].pc \notin {"off", "recall"}
                 /\ (Named(p) \/ runs'[p].picked # None)
Supplied(p) == {i[2] : i \in runs[p].given}
RestoredFrom(p, sec) == LET now == runs'[p].cfg IN
    /\ \A s \in Stored \ (now.fixed \cup Supplied(p)) :
          sec.was[s] \notin {""} \cup DOMAIN Hashed => now.set[s] = sec.was[s]
    /\ now.set["InfraProvider"] = "proxmox" /\ sec.was["InfraProvider"] = "proxmox"
         => Get(p, "CAPIToken") # "" \/ now.set["CAPIToken"] = sec.was["CAPIToken"]
RestoredAsSaved ==
    [][\A p \in Runners : Restores(p) =>
         LET c == IF Named(p) THEN Get(p, "KindClusterName") ELSE runs'[p].cfg.set["KindClusterName"]
             l == IF Named(p) THEN Label(Get(p, "ConfigName")) ELSE runs'[p].picked
         IN l \in DOMAIN configs[c] => RestoredFrom(p, configs[c][l])]_vars
============================================================================
