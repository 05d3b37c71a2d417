------------------------------ MODULE Manifests ------------------------------
(***************************************************************************)
(* The manifest of the workload cluster, from one run of the program to    *)
(* the next (internal/capi/manifest, orchestrator/capimanifest.go, the     *)
(* workload phase of orchestrator/bootstrap.go, and --workload-rollout).   *)
(*                                                                         *)
(* A run takes the manifest from where it is kept, a Secret of the         *)
(* management cluster or a file the operator named, or has clusterctl make *)
(* one when there is none or config.yaml is newer.  It then patches it,    *)
(* keeps it and applies it, object by object.  Machine templates cannot    *)
(* be changed once applied, so their names carry a digest of their spec.   *)
(* Runs may overlap and stop anywhere, and the operator edits what is kept *)
(* by hand.  The provider is Proxmox and the management cluster is one.    *)
(***************************************************************************)
EXTENDS Naturals, FiniteSets, Sequences

CONSTANTS
    Runners,      \* the processes
    Workloads,    \* the workload clusters asked for
    Sizes,        \* the sizes a machine may have
    Networks,     \* the networks a cluster may have
    Commands,     \* how runs may be started, of the set below
    Flavours,     \* how clusters may be built, BOOTSTRAP_MODE: "kubeadm" or "k3s"
    SpecRevisions,\* CAPI_PROXMOX_MACHINE_TEMPLATE_SPEC_REV
    MaxRuns,      \* bound: runs
    MaxEdits      \* bound: changes by the operator

ASSUME ManifestsAssumption ==
    /\ Commands \subseteq
          [mode : {"secret", "file"}, as : {"run", "attended", "rollout", "purge"}, regenerate : BOOLEAN,
           name : Workloads \cup {"default"}, net : Networks \cup {0}]
    /\ Flavours \subseteq {"kubeadm", "k3s"}
    /\ Sizes \subseteq Nat \ {0} /\ Sizes # {}
    /\ Networks \subseteq Nat \ {0} /\ Networks # {}
    /\ SpecRevisions \in BOOLEAN
    /\ {MaxRuns, MaxEdits} \subseteq Nat

VARIABLES
    flavour, \* the flavour of all runs
    yaml,    \* config.yaml on the host
    edits,   \* how often the operator changed something
    stamp,   \* the stamp of the last push, against config.yaml
    file,    \* the manifest in the operator's file
    fileOld, \* config.yaml is newer than that file
    shared,  \* the settings in the management cluster's bootstrap Secret
    secret,  \* the manifest in the management cluster's Secret
    live,    \* the objects of each workload on the management cluster
    runs,    \* the processes
    begun,   \* how many runs were started
    crossed  \* for a property: config.yaml was saved in the course of a run, or
             \* a manifest pushed between another run's load and its judgement

vars == <<flavour, yaml, edits, stamp, file, fileOld, shared, secret, live, runs, begun, crossed>>

None == [none |-> TRUE]

Roles == {"control-plane", "worker"}

\* The roles whose owner (control plane object, MachineDeployment) has the
\* name of its template in a fresh manifest.
SameName == IF flavour = "k3s" THEN Roles ELSE {"control-plane"}

\* A revision of a name: 0 is the name with no digest.  Digests of two specs
\* differ, so the spec stands for its digest.
Revisions == {0} \cup Sizes

Settings == [name : Workloads, size : [Roles -> Sizes], net : Networks, regenerate : BOOLEAN]

\* "want" and "seen" are for the properties: the sizes asked for when it was
\* made or edited, and which save of config.yaml its maker had read.
Manifests == [of : Workloads, net : Networks, spec : [Roles -> Sizes],
              template : [Roles -> Revisions], ref : [Roles -> Revisions],
              owner : [Roles -> Revisions], want : [Roles -> Sizes], seen : 0..MaxEdits]

\* "going": it has a deletion timestamp.
Absent == [net |-> 0, going |-> FALSE, templates |-> {}, owners |-> {}]
Exists(w) == live[w].net # 0

Off == [pc |-> "off"]
Running(r) == runs[r].pc \notin {"off", "done", "refused"}
At(r, pc) == runs[r].pc = pc
Quiet == \A r \in Runners : ~Running(r)

Init ==
    /\ flavour \in Flavours
    /\ yaml \in [of : {[name |-> w, size |-> [o \in Roles |-> s], net |-> n, regenerate |-> FALSE] :
                          w \in Workloads, s \in Sizes, n \in Networks},
                 save : {0}]
    /\ edits = 0
    /\ stamp = "absent"
    /\ file = None /\ fileOld = FALSE
    /\ shared = None /\ secret = None
    /\ live = [w \in Workloads |-> Absent]
    /\ runs = [r \in Runners |-> Off]
    /\ begun = 0
    /\ crossed = FALSE

--------------------------------------------------------------------------

\* MergeBootstrapSecretsFromKind on the settings a manifest is made from: what
\* the management cluster holds replaces all but what a guarded flag set.
Merged(cfg, given) ==
    IF shared = None THEN cfg
    ELSE [cfg EXCEPT !.name = IF "name" \in given THEN @ ELSE shared.name,
                     !.size = shared.size,
                     !.net = IF "net" \in given THEN @ ELSE shared.net,
                     !.regenerate = shared.regenerate]

\* TryFillWorkloadInputsFromManagement: the network of the live cluster.
Filled(cfg, given) ==
    IF "net" \notin given /\ Exists(cfg.name) THEN [cfg EXCEPT !.net = live[cfg.name].net] ELSE cfg

\* MaybeInteractiveSelectWorkloadCluster: the cluster the operator picks or
\* keeps, or with nobody to ask the only one there is.
Selectable(r) ==
    LET there == {w \in Workloads : Exists(w)}  kept == runs[r].cfg.name
    IN CASE runs[r].as = "attended" -> there \cup {kept}
         [] runs[r].as \in {"run", "purge"} /\ Cardinality(there) = 1 -> there
         [] OTHER -> {kept}

\* clusterctl generate, and the embedded K3s template.  clusterctl is given the
\* sizes of the workers for every machine.
Generated(r) ==
    LET cfg == runs[r].cfg
    IN [of |-> cfg.name, net |-> cfg.net,
        spec |-> IF flavour = "k3s" THEN cfg.size ELSE [o \in Roles |-> cfg.size["worker"]],
        template |-> [o \in Roles |-> 0], ref |-> [o \in Roles |-> 0],
        owner |-> [o \in Roles |-> 0], want |-> cfg.size, seen |-> runs[r].seen]

\* ApplyRoleResourceOverrides
\* mutant: only the templates of workers are found
SizedWorkers(m, cfg) == [m EXCEPT !.spec["worker"] = cfg.size["worker"]]
Sized(m, cfg) == [m EXCEPT !.spec = cfg.size]

\* PatchProxmoxMachineTemplateSpecRevisions: the digest replaces an older one in
\* a template's name; elsewhere only names with no digest are found and replaced.
\* mutant: a template that has a digest keeps its name
RevisedOnce(m) ==
    LET rev(o, n) == IF n = 0 THEN m.spec[o] ELSE n
    IN [m EXCEPT !.template = [o \in Roles |-> rev(o, @[o])],
                 !.ref = [o \in Roles |-> rev(o, @[o])],
                 !.owner = [o \in Roles |-> IF o \in SameName THEN rev(o, @[o]) ELSE @[o]]]
\* mutant: the digest is put after a name that has one
RevisedAgain(m) ==
    LET rev(o, n) == IF n = m.template[o] THEN 10 * n + m.spec[o] ELSE n
    IN [m EXCEPT !.template = [o \in Roles |-> rev(o, @[o])],
                 !.ref = [o \in Roles |-> rev(o, @[o])]]
Revised(m) ==
    IF ~SpecRevisions THEN m
    ELSE LET rev(o, n) == IF n = 0 THEN m.spec[o] ELSE n
         IN [m EXCEPT !.template = m.spec,
                      !.ref = [o \in Roles |-> rev(o, @[o])],
                      !.owner = [o \in Roles |-> IF o \in SameName THEN rev(o, @[o]) ELSE @[o]]]

\* The manifest a run works on.
Work(r) == IF runs[r].mode = "file" THEN file ELSE runs[r].work

\* A run writes its manifest: the file is then newer than config.yaml.
Write(r, m, pc) ==
    IF runs[r].mode = "file"
    THEN /\ file' = m /\ fileOld' = FALSE
         /\ runs' = [runs EXCEPT ![r].pc = pc]
    ELSE /\ runs' = [runs EXCEPT ![r].pc = pc, ![r].work = m]
         /\ UNCHANGED <<file, fileOld>>

\* WorkloadClusterctlIsStale
\* mutant: a manifest from the Secret is judged by the file it was just written to
StaleByFile(r) == runs[r].cfg.regenerate \/ (runs[r].mode = "file" /\ fileOld)
Stale(r) ==
    \/ runs[r].cfg.regenerate
    \/ runs[r].mode = "secret" /\ stamp # "newer"
    \/ runs[r].mode = "file" /\ fileOld

--------------------------------------------------------------------------

\* A run begins, with the settings of config.yaml and of its flags ("default"
\* and 0: no flag), or with --purge, or as a --workload-rollout of the objects on a live management
\* cluster.  A full k3s run ends before its workload phase, at the wait for the
\* kubeadm controllers.  The operator's file has one user at a time.
Start(r) ==
    /\ ~Running(r) /\ begun < MaxRuns
    /\ \E c \in Commands :
          LET cfg == [yaml.of EXCEPT !.name = IF c.name = "default" THEN @ ELSE c.name,
                                     !.net = IF c.net = 0 THEN @ ELSE c.net,
                                     !.regenerate = c.regenerate]
          IN
          /\ flavour = "k3s" => c.as = "rollout"
          /\ c.mode = "file" => \A q \in Runners : Running(q) => runs[q].mode = "secret"
          /\ runs' = [runs EXCEPT ![r] =
                 [pc |-> IF c.as = "purge" THEN "purge" ELSE "begin", as |-> c.as, mode |-> c.mode,
                  given |-> (IF c.name = "default" THEN {} ELSE {"name"})
                            \cup (IF c.net = 0 THEN {} ELSE {"net"}),
                  seen |-> yaml.save, work |-> None, left |-> <<>>, cfg |-> cfg]]
    /\ begun' = begun + 1
    /\ UNCHANGED <<yaml, edits, stamp, file, fileOld, shared, secret, live, crossed>>

\* --purge: the Cluster is told to go, if the API takes the call, then what the
\* manifest is kept in is deleted, whether or not it went in the time waited.
Purge(r) ==
    LET w == IF runs[r].mode = "file" /\ file # None THEN file.of ELSE runs[r].cfg.name
    IN
    /\ At(r, "purge")
    /\ \E go \in BOOLEAN : live' = [live EXCEPT ![w].going = @ \/ (go /\ Exists(w))]
    /\ IF runs[r].mode = "secret"
       THEN secret' = None /\ UNCHANGED <<file, fileOld>>
       ELSE file' = None /\ fileOld' = FALSE /\ UNCHANGED secret
    /\ runs' = [runs EXCEPT ![r] = [@ EXCEPT !.pc = "begin", !.cfg.name = w]]
    /\ UNCHANGED <<yaml, edits, stamp, shared, begun, crossed>>

\* The settings kept on the management cluster are merged and written back.
Begin(r) ==
    LET cfg == Merged(runs[r].cfg, runs[r].given) IN
    /\ At(r, "begin")
    /\ shared' = cfg
    /\ runs' = [runs EXCEPT ![r].pc = "select", ![r].cfg = cfg]
    /\ UNCHANGED <<yaml, edits, stamp, file, fileOld, secret, live, begun, crossed>>

\* The workload phase begins: the cluster is selected, the live network read,
\* and the kept settings merged again.
Select(r) ==
    /\ At(r, "select")
    /\ \E w \in Selectable(r) :
         LET cfg == [runs[r].cfg EXCEPT !.name = w]
             merged == Merged(Filled(cfg, runs[r].given), runs[r].given)
         IN runs' = [runs EXCEPT ![r].pc = "load", ![r].cfg = merged]
    /\ UNCHANGED <<yaml, edits, stamp, file, fileOld, shared, secret, live, begun, crossed>>

\* TryLoadCAPIManifestFromSecret: a call that fails leaves the run with nothing.
Load(r) ==
    /\ At(r, "load")
    /\ \E m \in IF runs[r].mode = "secret" THEN {secret, None} ELSE {None} :
          runs' = [runs EXCEPT ![r].pc = "judge", ![r].work = m]
    /\ UNCHANGED <<yaml, edits, stamp, file, fileOld, shared, secret, live, begun, crossed>>

\* Whether the manifest is used again, by the stamp as it is now.  One that is
\* not is truncated first.
Judge(r) ==
    LET again == Work(r) # None /\ ~Stale(r) IN
    /\ At(r, "judge")
    /\ runs' = [runs EXCEPT ![r].pc = IF again THEN "patch" ELSE "generate",
                            ![r].work = IF again THEN @ ELSE None]
    /\ IF runs[r].mode = "file" /\ file # None /\ ~again
       THEN file' = None /\ fileOld' = FALSE
       ELSE UNCHANGED <<file, fileOld>>
    /\ UNCHANGED <<yaml, edits, stamp, shared, secret, live, begun, crossed>>

\* clusterctl's output takes the manifest's place, or the K3s template does,
\* whose sizes need no override.
Generate(r) ==
    /\ At(r, "generate")
    /\ Write(r, Generated(r), IF flavour = "k3s" THEN "patch" ELSE "size")
    /\ shared' = IF flavour = "k3s" THEN runs[r].cfg ELSE shared
    /\ UNCHANGED <<yaml, edits, stamp, secret, live, begun, crossed>>

Size(r) ==
    /\ At(r, "size")
    /\ Write(r, Sized(Work(r), runs[r].cfg), "patch")
    /\ shared' = runs[r].cfg
    /\ UNCHANGED <<yaml, edits, stamp, secret, live, begun, crossed>>

\* The patches, DiscoverWorkloadClusterIdentity, which makes the manifest's
\* cluster the run's, and EnsureWorkloadClusterLabel, which writes even when
\* nothing changed.
Patch(r) ==
    LET m == Revised(Work(r))
        work == IF runs[r].mode = "secret" THEN m ELSE None
    IN
    /\ At(r, "patch")
    /\ runs' = [runs EXCEPT ![r] = [@ EXCEPT !.pc = "push", !.cfg.name = m.of, !.work = work]]
    /\ IF runs[r].mode = "file"
       THEN file' = m /\ fileOld' = FALSE
       ELSE UNCHANGED <<file, fileOld>>
    /\ UNCHANGED <<yaml, edits, stamp, shared, secret, live, begun, crossed>>

\* PushCAPIManifestToSecret
Docs == <<"cluster", "control-plane", "worker">>
Push(r) ==
    /\ At(r, "push")
    /\ IF runs[r].mode = "secret"
       THEN /\ secret' = runs[r].work
            /\ crossed' = (crossed \/ \E q \in Runners \ {r} : At(q, "judge") /\ runs[q].work # None)
       ELSE UNCHANGED <<secret, crossed>>
    /\ runs' = [runs EXCEPT ![r].pc = IF runs[r].mode = "secret" THEN "touch" ELSE "apply",
                            ![r].left = Docs]
    /\ UNCHANGED <<yaml, edits, stamp, file, fileOld, shared, live, begun>>

\* TouchWorkloadGencodeStamp, which may quietly fail.
Touch(r) ==
    /\ At(r, "touch")
    /\ stamp' \in {stamp, "newer"}
    /\ runs' = [runs EXCEPT ![r].pc = "apply"]
    /\ UNCHANGED <<yaml, edits, file, fileOld, shared, secret, live, begun, crossed>>

--------------------------------------------------------------------------

\* ApplyWorkloadManifestToManagementCluster, object by object.  A ProxmoxCluster
\* that is seen to be there, and to stay, is skipped.  It is applied when it is
\* not there, when it is going, and when the call that looks for it fails.
FindCluster(r) ==
    LET c == live[Work(r).of] IN
    /\ At(r, "apply") /\ runs[r].left = Docs
    /\ \/ /\ c.net # 0 /\ ~c.going
          /\ runs' = [runs EXCEPT ![r].left = Tail(@)]
       \/ runs' = [runs EXCEPT ![r].pc = "put"]
    /\ UNCHANGED <<yaml, edits, stamp, file, fileOld, shared, secret, live, begun, crossed>>

PutCluster(r) ==
    LET m == Work(r) IN
    /\ At(r, "put")
    /\ live' = [live EXCEPT ![m.of].net = m.net]
    /\ runs' = [runs EXCEPT ![r].pc = "apply", ![r].left = Tail(Docs)]
    /\ UNCHANGED <<yaml, edits, stamp, file, fileOld, shared, secret, begun, crossed>>

\* An owner replaces the one of its name.
ApplyOwner(c, m, o) ==
    [c EXCEPT !.owners = {x \in @ : <<x.role, x.name>> # <<o, m.owner[o]>>}
                         \cup {[role |-> o, name |-> m.owner[o], ref |-> m.ref[o]]}]

\* The webhook of the provider refuses another spec for a template.
Refused(c, m, o) ==
    \E t \in c.templates : t.role = o /\ t.rev = m.template[o] /\ t.spec # m.spec[o]
ApplyTemplate(c, m, o) ==
    [c EXCEPT !.templates = @ \cup {[role |-> o, rev |-> m.template[o], spec |-> m.spec[o]]}]

Apply(r) ==
    LET m == Work(r)  c == live[m.of]  doc == Head(runs[r].left) IN
    /\ At(r, "apply") /\ runs[r].left \notin {<<>>, Docs}
    /\ IF Refused(c, m, doc)
       THEN /\ live' = [live EXCEPT ![m.of] = ApplyOwner(c, m, doc)]
            /\ runs' = [runs EXCEPT ![r].pc = "refused"]
       ELSE /\ live' = [live EXCEPT ![m.of] = ApplyTemplate(ApplyOwner(c, m, doc), m, doc)]
            /\ runs' = [runs EXCEPT ![r].left = Tail(@)]
    /\ UNCHANGED <<yaml, edits, stamp, file, fileOld, shared, secret, begun, crossed>>

\* A failed call has the whole manifest applied again.
Retry(r) ==
    /\ At(r, "put") \/ (At(r, "apply") /\ runs[r].left # Docs)
    /\ runs' = [runs EXCEPT ![r].pc = "apply", ![r].left = Docs]
    /\ UNCHANGED <<yaml, edits, stamp, file, fileOld, shared, secret, live, begun, crossed>>

Finish(r) ==
    /\ At(r, "apply") /\ runs[r].left = <<>>
    /\ runs' = [runs EXCEPT ![r] = [pc |-> "done"]]
    /\ UNCHANGED <<yaml, edits, stamp, file, fileOld, shared, secret, live, begun, crossed>>

\* The process is killed, clusterctl fails, or calls fail too often.
Stop(r) ==
    /\ Running(r)
    /\ runs' = [runs EXCEPT ![r] = Off]
    /\ UNCHANGED <<yaml, edits, stamp, file, fileOld, shared, secret, live, begun, crossed>>

--------------------------------------------------------------------------

\* The operator saves config.yaml.
SaveConfig ==
    /\ edits < MaxEdits
    /\ \E s \in [Roles -> Sizes], n \in Networks :
          yaml' = [of |-> [yaml.of EXCEPT !.size = s, !.net = n], save |-> yaml.save + 1]
    /\ edits' = edits + 1
    /\ stamp' = IF stamp = "newer" THEN "older" ELSE stamp
    /\ fileOld' = (file # None)
    /\ crossed' = (crossed \/ ~Quiet)
    /\ UNCHANGED <<file, shared, secret, live, runs, begun>>

\* The operator edits the settings on the management cluster.
EditShared ==
    /\ shared # None /\ edits < MaxEdits
    /\ \E o \in Roles, s \in Sizes : shared' = [shared EXCEPT !.size[o] = s]
    /\ edits' = edits + 1
    /\ UNCHANGED <<yaml, stamp, file, fileOld, secret, live, runs, begun, crossed>>

\* The operator edits a machine template in the kept manifest.
HandEdit ==
    /\ edits < MaxEdits
    /\ \E o \in Roles, s \in Sizes :
          LET edit(m) == [m EXCEPT !.spec[o] = s, !.want[o] = s] IN
          \/ secret # None /\ secret' = edit(secret) /\ UNCHANGED <<file, fileOld>>
          \/ file # None /\ Quiet /\ file' = edit(file) /\ fileOld' = FALSE /\ UNCHANGED secret
    /\ edits' = edits + 1
    /\ UNCHANGED <<yaml, stamp, shared, live, runs, begun, crossed>>

\* What was told to go has gone, with what it owned.
Gone(w) ==
    /\ live[w].going
    /\ live' = [live EXCEPT ![w] = Absent]
    /\ UNCHANGED <<yaml, edits, stamp, file, fileOld, shared, secret, runs, begun, crossed>>

RunStep(r) ==
    \/ Start(r) \/ Purge(r) \/ Begin(r) \/ Select(r) \/ Load(r) \/ Judge(r) \/ Generate(r)
    \/ Size(r) \/ Patch(r) \/ Push(r) \/ Touch(r) \/ FindCluster(r) \/ PutCluster(r)
    \/ Apply(r) \/ Retry(r) \/ Finish(r) \/ Stop(r)

Operator == SaveConfig \/ EditShared \/ HandEdit

Next ==
    /\ UNCHANGED flavour
    /\ (\E r \in Runners : RunStep(r)) \/ Operator \/ (\E w \in Workloads : Gone(w))

Spec == Init /\ [][Next]_vars

--------------------------------------------------------------------------

TypeOK ==
    /\ flavour \in Flavours
    /\ yaml.of \in Settings /\ yaml.save \in 0..MaxEdits
    /\ edits \in 0..MaxEdits
    /\ stamp \in {"absent", "older", "newer"}
    /\ file \in Manifests \cup {None} /\ fileOld \in BOOLEAN
    /\ shared \in Settings \cup {None} /\ secret \in Manifests \cup {None}
    /\ \A w \in Workloads :
          /\ live[w].net \in Networks \cup {0} /\ live[w].going \in BOOLEAN
          /\ live[w].templates \subseteq [role : Roles, rev : Revisions, spec : Sizes]
          /\ live[w].owners \subseteq [role : Roles, name : Revisions, ref : Revisions]
    /\ \A r \in Runners : Running(r) => runs[r].cfg \in Settings
    /\ crossed \in BOOLEAN

\* No run is turned away by the provider for changing a machine template in
\* place, whichever manifests were generated, edited by hand, kept and applied
\* before it, by runs that overlap or were cut short: the digest in a name is
\* always of the spec under it (patches.go, PatchProxmoxMachineTemplateSpecRevisions).
ApplyAccepted == \A r \in Runners : ~At(r, "refused")

\* Machines are replaced only for a reason: when a control plane object or a
\* deployment of a live cluster is pointed at another template, the two
\* templates differ in their spec.  Applying again what was applied before
\* moves nothing, however often its names were patched in between.
RolledOnlyWhenChanged ==
    [][\A w \in Workloads :
          \A x \in live[w].owners, y \in live'[w].owners :
             x.role = y.role /\ x.name = y.name /\ x.ref # y.ref =>
                \A t \in live[w].templates, u \in live'[w].templates :
                   t.role = x.role /\ t.rev = x.ref /\ u.role = y.role /\ u.rev = y.ref =>
                      t.spec # u.spec]_vars

\* The Secret never holds a half-made manifest: whatever stopped between the
\* generation and the push, the machines in it have the sizes asked for and
\* every template its digest.  (A manifest in a file can be half-made.)
SecretIsWhole ==
    secret # None =>
        /\ secret.spec = secret.want
        /\ SpecRevisions => \A o \in Roles : secret.template[o] # 0 /\ secret.ref[o] # 0

\* The stamp tells the truth: while it is newer than config.yaml, the manifest
\* in the Secret was made by a run that had read config.yaml as it is, however
\* runs were cut short, also between the push and the touch, and whatever was
\* purged or edited by hand.  It says nothing once config.yaml was saved in the
\* course of a run, or a manifest was pushed after another run had loaded the
\* one before it and before it looked at the stamp: the code does not order these.
StampMeansRead ==
    ~crossed /\ stamp = "newer" /\ secret # None => secret.seen = yaml.save
=============================================================================
