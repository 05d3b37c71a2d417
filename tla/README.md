# yage: models, checks and proofs

yage (`src/`) bootstraps a Cluster API management plane in a local *kind*
cluster, provisions a workload cluster on an infrastructure provider, and may
*pivot*: move the management plane off the operator's machine. This directory
holds TLA+ modules that model the parts of it whose behaviour is hard to test,
TLC instances that check them, and theorems about them that TLAPS has proved.
`PROJECT.json` relates every definition to the lines it models and lists the
runs, mutants, findings, hazards and theorems.

    tlc -workers 2 -config MCPivot.cfg MCPivot      # check one instance
    tlapm LogRingProofs.tla                          # check the proofs of a module

## 1. The system

All paths are under `src/internal/` unless they start with `src/` or `cmd/`.

| Component | State it keeps | Operations | Interacts with |
|---|---|---|---|
| Orchestrator (`orchestrator/`) | none of its own between runs; `kubeconfig` overrides and the resolved context during one | `Run`, the pivot sequence, purge, plan (dry run), cleanup at exit | everything below |
| Pivot (`capi/pivot`) | Cluster API objects and controllers on two planes | `EnsureManagementCluster`, `InstallCAPIOnManagement`, `MoveCAPIState`, `VerifyParity`, `TeardownKind` | kind, the new management cluster, clusterctl |
| kindsync (`cluster/kindsync`) | Secrets in `yage-system` and in one namespace per configuration | merge, write, list, promote, hand-off to the management cluster, pricing credentials | dashboard, orchestrator, providers |
| kind (`cluster/kind`) | the kind cluster, its kubeconfig contexts, backup archives | ensure, connect, backup, restore | orchestrator |
| OpenTofu (`platform/opentofux`) | Kubernetes Jobs, Pods and PVCs in `yage-system`, OpenTofu state | repository sync, plan/apply/output/destroy of modules, registry and issuing CA | orchestrator |
| Dashboard (`ui/xapiri`) | the form, the table of costs, the list of configurations, requests in flight | one `Update` per message; commands in goroutines | kindsync, cost, log ring |
| Log ring (`ui/xapiri/logring.go`) | the last 500 lines, the subscribers | `Write`, `Lines`, `Subscribe` | all goroutines that log, the dashboard |
| Cost (`cost/`, `pricing/`) | process-wide credentials, a price cache on disk, currency rates | streaming comparison, per-vendor catalogues | dashboard, plan, operator |
| Capacity and feasibility (`cluster/capacity`, `feasibility/`) | none | sizing, fit and budget verdicts | orchestrator, dashboard |
| Configuration (`config/`, `ui/cli`) | one struct | flags, environment, snapshot to and from a flat YAML | everything |
| Providers (`provider/*`) | what they create at the provider (pools, users, tokens, groups) | identity bootstrap, inventory, cost estimate, manifest patches, purge | orchestrator, capacity, cost |
| Manifests and add-ons (`capi/manifest`, `caaph`, `argocd`, `postsync`, `csi/`) | text | rendering and patching | orchestrator |
| Operator (`operator/`, `cmd/yage-operator`) | `CostEstimate` objects | one controller that renders estimates | cost |
| Platform (`platform/shell`, `installer`, `k8sclient`, `kubectl`, `airgap`, `sysinfo`, `obs/`) | downloaded tools, loggers | processes, downloads, API calls | everything |

What makes them hard:

- **Orchestrator and pivot.** A run is a straight line of phases with many
  early exits, over planes that outlive it: it may be killed in any phase, or
  die on a failed call, and the next run starts from what is there. Controllers
  of both planes work at the same time. `clusterctl move` is retried and may
  stop half-way. Correct means: a cluster with machines never loses the objects
  that describe it; only one plane reconciles it; kind goes only when the new
  plane has everything; a run ends.
- **Dashboard.** One handler at a time, but every handler starts commands whose
  answers come in any order and refer to the model as it was, or through a
  shared pointer as it is. Correct means: a change is never left unpriced, the
  strip does not say "fetching" for ever, saves exclude each other and store
  what they were asked to, what is deployed is what the form shows.
- **Log ring.** Any goroutine writes; pokes are dropped by design; the watcher
  is re-armed by hand. Correct means: a ring that reads as the last lines, and
  a tab that never stays behind it.
- **OpenTofu jobs.** Jobs that delete themselves are polled by name; a Pod or
  Job may vanish between two polls. Correct means: an outcome is reported only
  for what happened, and every wait ends.
- **kindsync.** Read-modify-write of Secrets by the dashboard, the editor and a
  run; a hand-off of many Secrets in which each may fail.
- **Cost and pricing.** Caches with an age, paged catalogues, process-wide
  state written by delayed goroutines.
- **Capacity and feasibility.** Integer and floating-point arithmetic at
  boundaries: zero machines, exact fit, thresholds.
- **kind backup and restore.** Objects are read call by call while controllers
  write them, calls that fail are passed over, and an archive is written back
  one document at a time, onto a cluster that may be new. Correct means: after a
  restore that reports success, every field that a complete backup saved is
  there, and nothing else was changed or lost.

## 2. The modules

| Module | Models | Kind |
|---|---|---|
| `Custody` | what a pivot promises about clusters with machines | abstract specification |
| `Pivot` | the bootstrap-and-pivot run, failures, kills and re-runs | state machine |
| `MCPivot`, `PivotProofs` | instances; proofs | |
| `Dashboard` | `dashModel.Update` and the commands it starts | state machine |
| `MCDashboard`, `DashboardProofs` | instances; proofs | |
| `BoundedLog` | a log of the last `Cap` lines | abstract specification |
| `LogRing` | the circular buffer, its subscribers and watchers | state machine |
| `MCLogRing`, `LogRingProofs` | instances; proofs | |
| `TofuRunner` | what callers of an OpenTofu runner rely on | abstract specification |
| `TofuJobs` | Jobs run and polled by name; the issuing CA | state machine |
| `MCTofuJobs`, `TofuProofs` | instances; proofs | |
| `Capacity` | machine counts, weights, the inventory of Proxmox, the verdicts | operators |
| `Sizing` | runs that are judged and create machines beside other users | state machine |
| `Feasibility` | the budget gate, in the cloud and on premises | operators |
| `Bills` | the monthly estimate of each vendor, add-ons, comparison, retention | operators |
| `Estimates` | needs, plans and prices that change, and both read again | state machine |
| `Catalogues` | how each lookup finds its price in a vendor's catalogue | operators |
| `Quotations` | a catalogue whose rows come, go and change | state machine |
| `Planning` | a session of one of the three | composition |
| `PlanningProofs` | proofs | |
| `Archives` | backups and restores of the kind cluster | state machine |
| `ArchivesProofs` | proofs | |
| `Standalone`, `MCStandalone` | calls that install nothing: a plan, or the state of kind; instance | composition |
| `Settings` | how every setting is read, guarded, stored and overlaid | operators |
| `Configurations` | runs, forms and the configurations kept on kind clusters | state machine |
| `MCConfigurations`, `ConfigurationsProofs` | instance; proofs | |
| `Manifests` | the manifest of the workload from run to run | state machine |
| `MCManifests`, `ManifestsProofs` | instance; proofs | |

    Custody        BoundedLog      TofuRunner
       |  (refined by)  |              |
     Pivot           LogRing        TofuJobs      Dashboard     Manifests

    Capacity -> Sizing ---------------.
    Capacity -> Feasibility, Bills     \
                -> Estimates -----------> Planning ---.
    Catalogues -> Quotations ---------/              Standalone
                                      Archives ------/
    Settings -> Configurations

A definition marked `mutant` in a comment is a defect the definition after it
could have had. No action uses it. It is there to show that a property of a run
notices it.

### 2.1 Pivot

`pc` is the phase of the run, named after the part of `Run` and
`runPostPivotSequence` it stands for; one action per phase and outcome
(`ApplyMgmtManifest`, `ApplyMgmtManifestFails`, ...). `kindUp`, `capi`, `inv`,
`paused`, `doomed`, `secrets`, `config` and `repos` are what the two planes
hold; `infra` is the set of clusters with machines; `rebound` and `ctxLost` say
what the context `kind-<name>` reaches. `clusterctl move` is external and
modelled by its documented order: pause, copy paused, delete, unpause, one
namespace at a time, each step breakable. Controllers (`Provision`, `Reap`,
`MgmtControllersComeUp`) and the operator (`OperatorWrites`,
`WriteBootstrapConfigSecret`, `OtherRun`) act between any two steps.

Choices worth knowing:

- clusterctl init on a reused kind is external: it may restore the replicas of
  the controllers, leave them at zero, or refuse.
- Waits time out only when faults are allowed or what they wait for cannot
  come.
- kind removes its context from the kubeconfig in use before it removes the
  containers, which after the rebind is the context that reaches mgmt.
- Secrets in `VerifySecrets` other than `proxmox-bootstrap-config` are never
  written by yage: `OperatorWrites` stands for whoever does.
- `OtherRun` stands for earlier runs for other workload clusters on the same
  kind cluster; it acts only while this one is idle.
- The hand-off copies in two passes, as `HandOffBootstrapSecretsToManagement`
  does: the Secrets it knows by name (`Named`), then those of `yage-system` with
  its label (`Labelled`), such as the states of OpenTofu modules. Either may
  fail and be only a warning.
- An option `faults` says whether a run is disturbed: without it calls succeed
  and nobody kills it, so one instance holds runs of both kinds.
- Backup and restore are in `Archives`; purge and rollout are commands of
  `Manifests`.

`Custody` has two variables, who has machines and who stores what, and three
steps: machines may appear for a described cluster, a plane may take objects,
and kind may release a live cluster only when mgmt already holds it. `Pivot`
implements it with `live <- infra`, `holder <- inv` (`ImplementsCustody`).

### 2.2 Dashboard

Each handler of `Update` is an action. A command is split where it reads or
writes something shared: `PickEntry` (the copy of `m.cfg`), `ReadEntry` (the
Secrets), `EntryArrives` (the message); `PressSave`, `EnsureNamespace`,
`WriteBootstrapConfigSecret` (reads `m.cfg` through the pointer), `SaveReply`.
The contents of a configuration are a version number, new with every edit of a
cost field. `rows` counts the copies of a row (pair, version); their order is
irrelevant because rendering sorts them. `streams` holds every refresh whose
channel is still read, `ticks` counts the debounce timers, `recent` says that
less than 380 ms have passed since `lastDirty`.

- `return m, m.markDirty()` leaves to the Go compiler whether the returned
  model has the changes `markDirty` makes (`tab_costs.go:70` shows that the
  authors know): `Edit(kept)` takes both.
- Receiving a row and handling its message are one step; a re-tick while the
  last edit is recent is a stutter.
- A loaded snapshot overwrites the fields it holds (`ApplySnapshotKV`); the
  version stands for those. Fields it lacks are left out (a hazard without a
  property).
- The mode after a load follows from the loaded provider: either.
- `session` says what an operator does in a session (edits, loads, mode
  switches, saves, and with how many prices on the way), so that one run holds
  sessions about prices and sessions about saves.
- Left out: the editor, terminal, dependency and log-filter handlers, the token
  prompt (it only delays keys), mouse and rendering.

### 2.3 Log ring

`buf`, `head`, `size` are the fields under `r.mu`; `token[ch]` says that the
one-place channel of a subscriber is full. `appendLine` is two steps,
`AppendLine` under `r.mu` and `Notify` under `r.subsMu`: between them anything
may happen. `LoadEntry` is what the handler of `cfgEntryLoadMsg` does to the
ring: a second subscription, and a second watcher on the first channel. The
ring implements `BoundedLog` with `log <- Lines`.

### 2.4 OpenTofu jobs

yage is one client. `step` is where its call stands: `prepare` (namespace,
ConfigMap, Secret), `delete`, `create`, `pod` (`waitForPod`), `logs`
(`streamLogs`, `capturePodLogs`), `job` (`waitForJob`); `applied`, `store` and
`wire` are what `EnsureIssuingCA` does between and after its two calls. `job`
has one slot per name, because the API server has; `pods` are told apart by the
number of the call whose Job made them, and all pods of one operation carry the
same label. `creds` are the two Secrets a pod reads when it starts.

- Deletion is in the background: the Job goes at once, its pods when the
  garbage collector comes (`CollectPod`), and until then they may start, finish
  or hold the lock.
- The kubelet, the Job controller, the TTL controller and the lock of the
  OpenTofu backend are external, modelled by their documented behaviour.
- `waitForPod` takes any pod that is listed first; names are random.
- A limit passes when what is polled for is not there, and at any time when
  faults are allowed. `GiveUp` is every return with an error.
- `done`, `ok` and `alone` are history: no action reads `done` and `ok`, and
  `alone` is read by `StoresItsOwn` only.
- `JobCompletes` includes the deletion that follows a sync and an output; an
  output whose log does not parse is deleted all the same, although
  `job_runner.go:114` says it is left for inspection.
- Left out: the contents of the repositories, the local runner, the registry.

`TofuRunner` has one rule: a call returns without an error only after it was
carried out with its own arguments. Work may also be done for calls that failed
or were killed, at any time.

### 2.5 Planning

Three groups of operators are checked through three state machines, which
`Planning` puts in one behaviour: a session asks whether the cluster fits
(`Sizing`), what it costs and where it fits the budget (`Estimates`), or for one
price (`Quotations`).

- `Capacity` counts machines with the code's `atoiOr` (an unset count has a
  default, a zero is a zero), weighs them in whole cores, MiB and GB, and judges
  them against the inventory of the allowed nodes that are online. `CheckCombined`
  has the two limits of the code, a share of the host for the machines of the
  plan and a tolerated overcommitment for everything together. `Preflight` is
  the run's judgement, `PlanCapacity` the one of the dry run, kept apart because
  the code has it twice. A query that fails leaves out what it would have shown.
- `Sizing` acts for the other users of an installation (nodes and machines come
  and go) and for a run (`Judge`, `Create`, `Restart`).
- `Feasibility` follows `feasibility.go` in its order: resources of the
  templates, the cheapest instance of the four vendors it prices, workers by
  processor and by memory, storage and egress that count as nothing when they
  have no price, verdicts at 48 and 80 percent of the budget, blocking reasons.
- `Bills` has one operator per vendor. A bill is a sequence of lines with a
  quantity and a unit price made of products times factors; the text of a line
  is its name. An error of one price that the code returns makes the whole
  estimate `NoAnswer`; one it skips makes the line disappear. Amounts are whole
  cents.
- `Catalogues` has one operator per price function of `pricing/`. A row of a
  catalogue has the words its text matches, the regions it is offered in, its
  place in the vendor's answer, and an amount. A lookup yields a set, because
  the order of a Go map decides between rows that match alike. What is
  abstracted is the JSON, the paging and the exact phrases.
- Currencies, the cache on disk and the HTTP clients are left out.

`Standalone` puts such a session beside a process that saves or restores kind
(2.8): the calls that `Run` serves before it installs anything.

### 2.6 Configurations

`Settings` translates `config.Load`, `Parse`, the snapshot and what providers
absorb, section by section. There are some three hundred settings and a few ways
to read one: a text with a default, a text kept as it is, a switch, a number,
with a guard or without. Each section of the code has one setting for each way
it uses, so that a definition stands for all lines of its section. `Parsed` is
the parser of `config.yaml`: a value is written between quotes, and a line is cut
at its first `#` before the quotes are looked at, so that a value of `Hashed`
comes back as something else.

`Configurations` has kind clusters with two kinds of Secret on them, one per
configuration (`WriteBootstrapConfigSecret`) and one shared by all runs
(`SyncBootstrapConfigToKind`). A run reads environment, file and flags, then the
configuration it names or picks (`Recall`, `PickConfig`), may go through the
form (`OpenForm`, `Edit`, `Save`), installs, selects a kind cluster, merges the
shared settings and writes them back, creates or recreates the cluster, selects
the workload, and promotes. It may end anywhere (`Crash`).

### 2.7 Manifests

A process is a run, an attended run, a rollout or a purge, on the Secret of the
management cluster or on a file of the operator, and follows `Run` from the
merge of the shared settings (`Begin`) over the selection (`Select`), the choice
between the kept manifest and a new one (`Load`, which may fail and leaves
nothing then, and later `Judge`, by the stamp as it is then), `Generate`, `Size`,
`Patch`, `Push` and `Touch`, which may fail quietly, to the object-by-object
application (`FindCluster`, `PutCluster`, `Apply`) with `Retry`. Two may overlap, each may stop anywhere, and the operator edits
`config.yaml`, the shared settings or the manifest.

- A template's spec is its size, and stands for its digest too: SHA-256 is taken
  to be injective. A name is the digest in it, 0 for none.
- `live` holds what the API server has: templates cannot change
  (`Refused` is the webhook), owners are replaced by name, a `ProxmoxCluster`
  that is seen to exist and not to be going is skipped. It is looked up and
  applied in two calls, and a look-up that fails is followed by the second. A
  purge marks a workload as `going`; it has gone when Cluster API is done
  (`Gone`), which may be after the run went on.
- `stamp` is the file whose modification time is compared with `config.yaml`.
- `want` and `seen` in a manifest are history for the properties, and so is
  `crossed`: a save fell into a run, or a push between another run's `Load` and
  its `Judge`.
- The provider is Proxmox; patches that touch neither sizes, names nor networks
  are left out.

### 2.8 Archives

`there` is the kind cluster: its namespaces, the kinds it serves, its objects.
A backup reads each namespace, what `api-resources` lists, and the objects kind
by kind (`ReadNamespace`, `ReadKinds`, `ListKind`); then it opens the archive
under its name, which empties what was there, and completes it (`OpenArchive`,
`WriteArchive`). A restore goes through the namespaces in the order of their
names and applies the namespace and then its objects by kind (`ApplyNamespace`,
`ApplyObject`); it ends at the first that is refused. `Drift` is everybody else: objects are
written and deleted, kind is made anew, Cluster API is installed on it.

- An archive holds sets of namespaces and of lines, a line being an object and
  what it was; the order of the file is the one in which the namespaces and the
  kinds were read (`Reached`, `NextLine`). Objects of one kind in one namespace
  may come in any order.
- An object has fields, each with a value or none; a field is what `kubectl
  apply` merges as one, such as a key of a ConfigMap or a list. `owned` says that
  it has owner references, which a restore does not write.
- A restore gives `kubectl apply` a document without the record of what was last
  applied (`restore.go:287`), so `Merged` takes away only what an earlier apply
  recorded on the live object (`last`) had put there.
- A call without an answer leaves out what it would have shown, and an
  `api-resources` that fails half-way is used as far as it came.
- Which passphrase a tool sees follows from the variables it reads: `age` and
  `openssl` have one each, and only a restore sets them to what it found.
- `missed`, `steady` and `seen` of a backup and `before` and `touched` of a
  restore are history for `RoundTrip`.
- Left out: the recipe for the cluster in `kind/`, which nothing reads back, and
  the temporary directory.

## 3. What the runs show

Deadlock is checked for `LogRing`. The other modules describe processes that
exit or sessions that are over, so their configurations switch it off.

| Run | Instance | Shows |
|---|---|---|
| `pivot_safety` | three clusters, two of them in one namespace; three Secrets; seven command lines; two runs; faults and kills | `TypeOK`; `ClusterHeld`: a cluster with machines is always stored on some plane; `ImplementsCustody`; `PivotContestsNothing`: no step after the move puts a cluster under both planes; `TeardownKeepsParity`: parity still holds when kind goes; `RealizedHasMachines` |
| `pivot_live` | the same; disturbed runs, also with `--force`, and undisturbed ones | `RunEnds`: every run ends; `HandOffCompletes`: with the provider's Secrets on kind, an undisturbed pivot that has moved its workload succeeds |
| `dashboard` | sessions with two edits, a load and a mode switch while one pair is priced; sessions with two saves, an edit, a load and a switch | `AtRestPriced`, `FetchingEnds`: nothing is left unpriced or "fetching" at rest; `OneSaveAtATime`; `DeployUsesForm` |
| `dashboard_priced` | two pairs through a channel of one, an edit and a load, fair timers | `EditsGetPriced` |
| `tofu_jobs` | three Jobs, two roots, faults and kills | `ImplementsRunner`; `StoresItsOwn`: a run that starts when nothing of an earlier one is at work stores the CA of its own root; `CallEnds`: every call returns if pods end |
| `log_ring` | three slots, two writers, batches of one and two lines, one load | `LogCaughtUp`, `ImplementsBoundedLog` |
| `standalone` | plans: configurations around an exact fit on two nodes, needs and bills around their thresholds, every lookup of the catalogues; two changes a session. Archives: three objects in two namespaces, a backup of both in the clear and one of a namespace that is sealed; four starts and changes by others | `RoundTrip`: a restore that reports success has brought back every field that a complete backup saved, any other object is as before or had one from the backup merged into it, and none is missing; `CreatedFits`, `LoadNeverHelps`; `RecommendationIsAffordable`, `VerdictsAreMonotone`; `BillCountsThePlan`, `BillsAreMonotone`; `QuotedWhereItRuns`, `DearerIsNotCheaper`, `LargerDatabaseCostsMore` |
| `configurations` | two runs that may overlap, in four styles, each with any two of seven inputs, a form, prompts and crashes | `SuppliedStays`: what the operator fixed or supplied survives every merge; `RestoredAsSaved`: a configuration comes back as it was saved, but for what the operator fixes or supplies anew and values with a `#` |
| `manifests` | two runs that overlap, two workload clusters, sizes and flavours, one edit | `ApplyAccepted`, `RolledOnlyWhenChanged`, `SecretIsWhole`; `StampMeansRead`: a stamp newer than `config.yaml` vouches for the Secret, unless a save fell into a run or a push between the load and the judgement of another |

`TypeOK` is part of every run but `standalone`: the states of a plan are inputs.

### Findings

These runs find a claim of the repository violated (`PROJECT.json` quotes it):

| Run | Claim | What happens |
|---|---|---|
| `first_run` | the move brings the workload across | on a first run the pivot comes before the workload manifest is applied: there is no workload to move and `VerifyParity` dies |
| `output_stale` | Output captures the log of the Job it created | `waitForPod` takes the first pod with the label `job-name`, and one of an earlier Job of that name may still be there: the CA of an earlier root is stored |
| `promotion_lost` | the Secret is promoted after success | `TeardownKind` removes the context the promotion writes through |

The models also show, and no run is kept for it:

- A pivot dry run leaves the controllers of kind at zero (`move.go:143` comes
  before the look at `DryRun`); `bootstrap.go:888` says that kind still manages
  the workload.
- A save stores what the configuration holds after it has waited for the API
  server, not what it held when Ctrl+S was pressed (`dashboard.go:864`).
- An entry that arrives between Start Deploy and the queued Quit turns the
  deploy into an abort (`dashboard.go:801`).
- `--stop-before-workload` returns (`bootstrap.go:901`) before `TeardownKind`,
  so kind stays up; `bootstrap.go:897` says it is torn down.
- `--force` after a dry run: the controllers of kind are at zero, so the
  workload is never deleted; the wait gives up (`purge.go:260` drops its error)
  and kind goes with the machines still there.
- A refresh that was still streaming appends its rows to the newer one's:
  `costRowMsg` does not say which refresh it belongs to (`dashboard.go:614`).
- After an entry is loaded the list stays "loading" and ignores keys
  (`dashboard.go:454`); a mode switch clears the tally and asks for no refresh
  (`dashboard_focus.go:59`); without an answer from kind the old contents
  appear under the new name (`tab_editor.go:57`).
- A sync Job with a TTL of zero may be gone before the next poll sees that it
  completed (`fetcher.go:197`): the run dies of a timeout after a sync that
  succeeded. A pod of an earlier, killed apply may apply its older variables
  after the new one: its lock is free again by then.
- Each loaded entry leaves a subscriber of the log ring that nobody reads and
  nobody unsubscribes (`dashboard.go:434`). An entry that arrives during a save
  forgets that it runs: `OneSaveAtATime` names this exception.

Capacity:

- The preflight of a run that was interrupted, or dry-run through a pivot
  before, counts the machines of its own first attempt once more and may refuse
  what fits (`bootstrap.go:776`).
- `bootstrap.go:773` and its neighbours speak of a default share of 0.75; the
  default is two thirds.
- `WouldFitAsK3s` and `CheckOnPrem` ignore what already runs on the host; a
  census that fails counts as an empty host; storage that cannot be listed is
  not judged.
- A count of "0" is taken as zero by the plan and as unset by the bills; the
  minimum of processors takes zero workers for one, and the dry run does not
  check it. The dry run announces that the real run aborts also when
  overcommitment is allowed.

Costs and prices:

- Workers of the management cluster are in the plan and on no vendor's bill;
  only AWS lets its overhead be overridden.
- The gate counts storage and egress that have no price as nothing. A month has
  720 hours in `monthlyTCO` and 730.5 in `TCOEstimate`.
- The comment at `aws_services.go:23` says that its lookups are regional; two of
  the helpers compare no location. The second path of EKS, and the phrases of
  Cloud NAT and Cloud SQL, pass over an offer of the region for one of elsewhere.
- Azure's retail answers are read to the end of the first page only; without its
  row for memory an OCI machine is nearly free; DigitalOcean, Linode, EC2, EBS
  and Hetzner take a price of zero; Aurora storage above a dollar is refused.
- A database of no size is priced from Azure's list even when there are live
  rates (`azure_postgres.go:48`), and the list may be the dearer one. Hence the
  exception in `LargerDatabaseCostsMore`.
- Read, not modelled: list prices fill gaps although `pricing.go:5` says that
  there are none; a currency that cannot be fetched is remembered as zero for a
  day; the PostgreSQL of IBM Cloud is quoted in the display currency and taken
  for dollars; two processes share one temporary file of the cache;
  `--data-center-location` moves no region.

Configurations:

- `main.go:72` says that the command line wins. Only eight flags have a guard
  (`parse.go:112` to `:125`, `:302` to `:309`); the shared settings of the kind
  cluster replace the others, and a pick replaces even a cluster that was named.
- `bootstrap_config.go:239` says that a recall fills only empty settings and that
  those of the environment win, `:320` that those of the command line always do.
  The snapshot replaces every setting without a guard, supplied or not
  (`snapshot.go:385`), so `RestoredAsSaved` speaks of neither.
- `bootstrap_config.go:229` says that the snapshot restores everything. A value
  with a `#`, such as a URL with a fragment, comes back cut at it and with the
  opening quote before it (`cluster/kindsync/config.go:381`), and the next write
  to the shared Secret stores it so. Without its exception for them
  `RestoredAsSaved` is violated.
- What providers other than Proxmox store is not read back: `VSPHERE_SERVER` is
  made of their keys and no provider takes it (`bootstrap_config.go:309`).
- The configuration that was picked in the dashboard need not be the one that is
  deployed (`main.go:118`).
- Before the cluster that is asked for exists, the settings are written into the
  shared Secret of whichever cluster is current.
- "dev_1" and "dev-1" have one label and overwrite each other; an empty setting
  is not stored, so an entry loaded over another keeps the other's value; the
  Secret is written under a key that can be configured and read under two fixed
  ones.

Manifests:

- The Secret holds one manifest per management cluster, the log line at
  `capimanifest.go:70` speaks of the workload's own: a run for a second workload
  takes the first one's manifest and its name with it.
- A change of sizes in `config.yaml` never reaches the cluster when the shared
  settings hold others, and `--regenerate` sticks because it is stored with
  them.
- Without `crossed`, `StampMeansRead` is false in two ways. The push of a run
  vouches for a save of `config.yaml` that fell into the run. And without a save in
  a run: after a save one run loads the old manifest (`bootstrap.go:921`), another
  makes a new one, pushes it and touches the stamp, and the first then finds the
  stamp newer (`generate.go:246`), takes its old manifest for good, pushes it over
  the new one and touches the stamp. The saved change does not reach the cluster
  until the next save. With `MaxRuns = 3` TLC finds that trace.
- The comment at `kubectl.go:79` says that a `ProxmoxCluster` that exists is not
  applied again. It is when the look-up fails (`kubectl.go:128` takes any error for
  "not there") and when it is being deleted, and two first runs may both find
  none: with two networks, the live cluster's changes. No property says otherwise.
- After a hand edit of a template's spec in the kept manifest the template gets a
  new digest in its name, and what refers to it keeps the old one: only a bare
  stem is looked for (`patches.go:379`), against the comment at `patches.go:297`.
  The machines do not follow the edit, which `RolledOnlyWhenChanged` allows.
- A run in file mode that is killed between the output of clusterctl and the
  sizing leaves a manifest that the next one takes for complete.
- The regular expression for owners renames a K3s control plane and its
  deployment, which the comment at `patches.go:297` excludes: after a change of
  sizes a second owner is created beside the first.
- A full run with K3s never reaches its workload phase (it waits for the
  controllers of kubeadm), a purge in Secret mode reads the identity of the
  workload from an empty file, and a purge in file mode removes the operator's
  own file.
- `EnsureRegistry` is called by nobody, though the dry run announces the
  registry and the purge destroys it.

Archives:

- Without a list of namespaces a backup takes the one of the bootstrap Secrets
  and the one of the workload (`namespaces.go:31`): the namespaces of the single
  configurations are not among them.
- A backup that missed calls reports success like any other, and "skipping
  object dump" (`backup.go:177`) is said also when a part of the kinds was
  listed and is dumped.
- A backup with `openssl` reads `BOOTSTRAP_KIND_BACKUP_PASSPHRASE` only, so one
  with `AGE_PASSPHRASE` alone fails and may leave an empty archive. With both
  set and different, `age` seals with the second and a restore tries the first.
- An archive is emptied before its successor is complete; a name that is asked
  for with `.gz` gets another `.gz`, and the file of the name asked for is
  removed (`backup.go:138`).
- A field that was added to an object after the backup survives a restore that
  reports success, unless it was `kubectl apply` that added it: the object is then
  neither as it was saved nor as it ever was. `RoundTrip` says which fields may be
  left.
- Owner references are not restored; events of the newer API group are saved,
  because only the name "events" is passed over. A damaged line would be read
  again for ever (`restore.go:250`).

### Bounds, and why they are enough

- `MaxRuns = 2`: the second run meets every state a first
  one leaves behind; what a run leaves behind depends on the planes only.
  `MaxApply` and `MaxMove` are the code's own limits.
- Three clusters, two sharing a namespace: one moved with the workload without
  being asked for, one management cluster, one workload.
- `MaxVer = 3` is a form, a stored entry and two edits, so that an edit falls
  before, during and after the timer of another one. Two saves and one load are
  what it takes for a command to meet the answer of another.
- `ChanCap = 1`: with two pairs the second pricing goroutine waits for the
  handler. The code's channel holds 64 rows and a refresh prices at most 32
  (eight vendors, four regions), so there nobody waits; the model has these
  interleavings and more.
- `MaxCalls = 3` is an apply that was killed, and an apply with its output; the
  stale output needs four. The proof of the refinement is for any number.
- Two changes in a plan of `standalone` are a change and one that undoes or
  doubles it; every comparison of its properties is between one state and the
  next. Counts, sizes and prices lie on both sides of each threshold: `Sizes` has
  a database of no size, the last of the first class and one of every class
  above it, `Published` the amounts a row may have: zero and two more, for
  Aurora with the last rate that is taken for one of its storage.
- Four events in an archive session are a backup, a change during it, a cluster
  made anew and a restore; or a restore that fails and is repeated. One missed
  call is what makes a backup incomplete. Two fields are one that a document has
  and one that it lacks; one object was applied before, so that apply may take a
  field away, the others were not.
- Two runs in `configurations` are one that stores and one that reads back, or
  two that rewrite the shared Secret in turn; two of the inputs at a time are a
  value and what replaces or guards it. One of the seven has a `#`. The runs are
  interchangeable, and so a symmetry set.
- Two runs and one edit in `manifests` are a run that meets the edit of what an
  earlier or an overlapping run kept; the proofs are for any number of both. The
  three runs that push between load and judgement are named above. Runs and
  workloads are interchangeable. There is one network: no property of the run
  tells two apart.
- `Cap = 3` with batches of up to two lines wraps the ring around in both
  halves of `appendLine`; the proofs are for every `Cap`.

### Fairness

`Pivot.FairSpec` assumes that the program executes its next statement and that
controllers do their work; nobody has to start a run, kill one or write a
Secret. A wait ends because the code gives it a limit. `Dashboard.FairSpec`
assumes that timers fire, that pricing calls return (every client in `pricing/`
has a timeout) and that `Update` handles what arrived; nobody has to press a
key. One weak fairness condition over all of it is enough, because each of
these steps uses up something finite. `TofuJobs.FairSpec` assumes that yage goes
on and that pods end. The code bounds each poll, but not the following of a log,
so the second assumption is one about the containers.

## 4. What is proved

| Theorem | For all | Says |
|---|---|---|
| `PivotProofs!TypeCorrect` | constants | `TypeOK` |
| `PivotProofs!ClustersStayHeld` | constants under the two hypotheses below | `ClusterHeld` |
| `PivotProofs!PivotImplementsCustody` | the same | `ImplementsCustody` |
| `PivotProofs!ParityUntilTeardown` | the same | `TeardownKeepsParity` |
| `LogRingProofs!TypeCorrect` | capacities, writers, channels, batches | `TypeOK` |
| `LogRingProofs!NoPokeIsLost` | the same | `LogCaughtUp` |
| `LogRingProofs!RingIsALog` | the same | `ImplementsBoundedLog` |
| `PivotProofs!NothingContested` | the same | `PivotContestsNothing` |
| `PivotProofs!RealizedIsLive` | constants under `KindSurvivesForce` | `RealizedHasMachines` |
| `DashboardProofs!TypeCorrect` | configurations, vendors, edits, loads, saves | `TypeOK` |
| `DashboardProofs!NoChangeUnpriced` | the same | `AtRestPriced` |
| `DashboardProofs!FetchingIsTrue` | the same | `FetchingEnds` |
| `DashboardProofs!SavesExclude` | the same | `OneSaveAtATime` |
| `DashboardProofs!DeployedAsShown` | the same | `DeployUsesForm` |
| `TofuProofs!TypeCorrect` | roots, calls, failures | `TypeOK` |
| `TofuProofs!RunnerImplemented` | the same | `ImplementsRunner` |
| `TofuProofs!OwnCAStored` | the same | `StoresItsOwn` |
| `ArchivesProofs!TypeCorrect` | namespaces, kinds, objects, processes, changes | `ArchivesTypeOK` |
| `ArchivesProofs!RestoresWhatWasSaved` | the same | `RoundTrip` |
| `ConfigurationsProofs!TypeCorrect` | processes, kind clusters, inputs, edits, credentials | `TypeOK` |
| `ConfigurationsProofs!SuppliedIsKept` | the same | `SuppliedStays` |
| `ConfigurationsProofs!SavedComesBack` | the same | `RestoredAsSaved` |
| `ManifestsProofs!TypeCorrect` | runs, workloads, sizes, networks, edits | `TypeOK` |
| `ManifestsProofs!NeverTurnedAway` | the same, with `SpecRevisions` | `ApplyAccepted` |
| `ManifestsProofs!MachinesRollForAReason` | the same | `RolledOnlyWhenChanged` |
| `ManifestsProofs!SecretAlwaysWhole` | runs, workloads, sizes, networks, edits | `SecretIsWhole` |
| `ManifestsProofs!StampIsTrue` | the same | `StampMeansRead` |
| `PlanningProofs!MachinesFit` | configurations, installations, drift | `CreatedFits` |
| `PlanningProofs!DryRunHolds` | the same | `LoadNeverHelps` |
| `PlanningProofs!RecommendationFitsTheBudget` | needs, quotes, budgets, amounts | `RecommendationIsAffordable` |
| `PlanningProofs!VerdictsFollowTheMoney` | the same | `VerdictsAreMonotone` |
| `PlanningProofs!BillsCountThePlan` | plans, prices, amounts | `BillCountsThePlan` |
| `PlanningProofs!BillsOnlyRise` | plans, prices, budgets, amounts | `BillsAreMonotone` |
| `PlanningProofs!DearerQuotesNoLess` | lookups, sizes, published amounts under `RatesBelowADollar` | `DearerIsNotCheaper` |
| `PlanningProofs!QuotesAreLocal` | lookups, sizes, published amounts | `QuotedWhereItRuns` |
| `PlanningProofs!LargerNeverCostsLess` | the same under `BelowTheList` | `LargerDatabaseCostsMore` |

Pivot. Without hypotheses the safety theorems are false: `--force` deletes kind
on purpose, and a namespace that is not moved goes with kind. `KindSurvivesForce`
(no command line forces a deletion that is not stopped by `noDelete`) and
`AllNamespacesMoved` state that. `ClusterHeld` is not inductive: that kind may
be torn down follows from what the run knows at that phase. The invariant adds
`Progress`, one conjunct per fact the phases hand on: no deletion is under way,
the pivot flags match the phase, the namespaces before `mv` are empty on kind,
kind is empty after the move, and parity, once verified, stays. Every step is
then classified as a step of `Custody` or a stutter. `NothingContested` uses the
same invariant: each step of the move takes a cluster from the controllers of a
plane or unpauses on mgmt what kind no longer stores, and after the move kind is
empty. `RealizedIsLive` needs less. Machines never go, because
nobody deletes a cluster that is not forced (`NoDeletion`, `MachinesStay`); and
the run that promotes a configuration has seen the workload ready
(`ReadyIsLive`). A namespace left behind does not matter to it.

Dashboard. At rest there is nothing in flight that could still price the form,
so the invariant (`PriceInv`) says what is in flight while the form is not yet
priced: a timer that is due, or a refresh of the version the form has
(`Covered`). `pending` means that a timer runs (`TimerDue`). Rows and streams of an older
version do no harm, since they price no version but their own. For the saves: an
entry that is awaited means that a load was counted (`LoadCounted`), and until
one is, the save that runs is shown (`SaveShown`). A deployment sends the form
to the configuration before it leaves, and what answers later changes neither
(`DeployFlushed`).

Log ring. `LogCaughtUp` says nothing while a poke is on its way, so the
invariant `Listened` says who will come: a message, a poke, or a writer that
owes one; and that somebody always listens. The refinement rests on `PutInRing`,
an equality of sequences proved slot by slot from the arithmetic of `% Cap` on
indexes below `2 * Cap`.

OpenTofu jobs. That `waitForJob` sees the Job of its own call follows from the
failing creation; that the Job stands for this call's variables follows from the
Secret being written before the Job exists. `Inv` has a conjunct for each: until
`create` a call has no Job and no pod (`Fresh`), afterwards the Job of its name
is its own (`Mine`), its pods find its variables and have used them once they
run (`Provided`, `Used`), and a Job is complete only when such a pod did its
work (`Carried`). `OwnCAStored` follows one run (`OwnInv`): while it is alone, one
pod of its own works at a time (`OnePod`) and nobody else's can
(`NobodyElse`); after its apply the state holds its root (`AppliedOwn`,
`BetweenCalls`); so the pod of `output` reads that root (`ReadsOwn`), and the log
that is parsed says so (`LogIsOwn`).

Archives. The invariant follows a line from the cluster into an archive and
back. During a backup, what nobody touched is still as it was (`SteadyHolds`),
what is there to be saved was seen (`InScope`), and each such object is saved or
still ahead, in a namespace or among the kinds not yet read, unless a call was
missed (`SavedSoFar`). `Truthful` says that an object is saved once and that its line
agrees with what nobody touched; without it, a second line of one object could
undo the first. It is saved once because what is saved is never come to again
(`NoneAhead`). An archive that is whole keeps this and that nothing is left out
(`Sound`), and during a restore each line is ahead, touched by others or brought
back (`BringsBack`), and an object whose line is ahead is as it was before. What
one apply leaves is `MergedLaidOver`. That no kind of
a steady object is left out needs `Housed`: an object has its namespace and a
kind that is served, which an object without a place would break.

Manifests. That a template in place keeps its spec follows from what a run holds
when it applies: `Holds` says, for each place of a run, that its manifest is one
(not the file another run truncated), that from the push on its names carry the
digests of their specs, that in the Secret mode it has the sizes asked for and
comes from `config.yaml` as it is. It needs `OneFileUser`, because a manifest in
a file may be written by whoever uses the file. `LiveRevised` carries it over to
the objects on the cluster. The lemmas `RevisedType` and `SizedType` say what
the two patches leave of a manifest; a lemma per action says that a run still
holds what it must, and `OthersHold` that no other run takes it away. For
`StampMeansRead` the invariant follows the stamp to the runs (`Vouching`): while
it is newer, or a run is about to touch it (`Vouched`), both the Secret and a
manifest that was loaded and not yet judged (`Loaded`) are made from `config.yaml`
as it is. A push would break the second half, which is what `crossed` records.

Configurations. `Merges` is the relation every pass over a running configuration
satisfies - it stays complete, its guards stay, and what is fixed or supplied
keeps its value - and it composes, so one lemma per pass (`OverlayMerges`,
`FilledMerges`, `AbsorbMerges`, `SharedMerges`, `ConfigMerges`) gives
`SuppliedIsKept` for every step. That a saved configuration comes back needs an
invariant over the Secrets (`Faithful`): a Secret names the cluster it is on, its
label is what its label would be written as, its snapshot has exactly the settings
that were not empty, which `ParsedSays` carries through the parser, and a Proxmox token is stored under the key that is read, and
under no other. `RecallsConfig` follows the three merges of a recall from there.
Overlapping runs matter in two places: the shared settings may name another kind
cluster, which is why every one stored is the name of a cluster (`SharedInv`), and
a cluster may be recreated under a run, so what is not there holds nothing
(`ClustersInv`). The assumption on the constants is what the program makes sure of
or the instance picks: a kind cluster's name, wherever it is supplied, is one of
`KindClusters`; flags and edits of a switch are `true` or `false`; and the two
default names exist. A switch from a variable or a file may be anything, and is
read only when it is one of the two.

Planning. The operators add up machines, disks and prices, so the proofs rest on
lemmas about sums: a sum over a set is the sum without one element plus that
element (`SumStep`), it is a number, it grows with its parts, it splits over a
partition (`SumIsInt`, `SumMonotone`, `SumsSplit`). They are proved without an
induction theorem: the strict subsets of a finite set are well-founded, so a sum
that broke the statement would have a smallest one that does (`Smallest`), and
taking one element away shows that there is none. `SizingInv` is the invariant
of the preflight: the run's own machines are not on the host until it creates
them (otherwise they would be counted twice), what passed the preflight and was
not disturbed since is within the tolerance, and what was created fits. That
creating keeps it is `CreateFits`: the usage afterwards is the usage before plus
the plan, role by role and replica by replica (`TakenWithTheRun`,
`RunWeighsItsPlan`). `DryRunHolds` needs both judgements read as the same
inequality (`VerdictSaysWithin`, `JudgeFindsWithin`). `GateInv` keeps needs and
quotes numbers; `RecommendedIsCheapest` and `CostsAndVerdicts` say what the gate's
rows are, `RankFollows` and `DearerCostsMore` how they move. The assumptions on
the constants (`IsConfiguration`, `IsInstallation`, `IsNeed`, `IsQuote`) are what
flags, the Proxmox API and the catalogues can hold: counts and sizes are
numbers, what a host has and what a machine uses is not negative, a vendor
quotes no negative price, and before the run no machine has a name the run will
give.

Bills. What is counted or charged on a bill is one idea: `Measured(bill, g)`, the
sum of what `g` says of each line, where `g` is the number of things of a name
(`ByName`), the price of a line (`At`) or the price of a line of servers
(`ServersAt`, for the backup fifth). It adds up over the parts of a bill
(`MeasuredParts`), and every vendor's bill consists of six: control plane,
workers, management cluster, database, add-ons, overhead (`BillMeasured`). Each of
the first three is a managed line or the servers of the role, the same for all
plans that differ in counts only (`ControlPlaneKinds`, `WorkerKinds`,
`MgmtKinds`); the lines of the others bear none of their names (`Others`).
`BillsCountThePlan` evaluates the six by name. `BillsOnlyRise` compares old and
new part by part: `Below` says that the new price of a line is no lower even when
it counts more, servers grow with it (`ServersGrow`), the other parts are the same
lines (`RestStays`), because a rise never gives a product a price it did not have.
`BillInv` keeps plans and prices what `IsPlan` and `IsPrice` say: counts, sizes
and prices are not negative (a negative count, which the parser would let
through, is planned and not billed).

Price lookups. The invariant `QuoteInv` (`AlwaysQuoted`) is about the catalogue: its rows are
rows of the session's lookup, each at its place in the vendor's answer and no two
at one, and there are none when it cannot be read. Without it a dearer row could
meet a second one at its place, and a class could be priced twice.

- *A dearer row.* A lookup yields a set, and `NotLess` compares sets by their
  least and greatest element, so the proofs do too (`NoCheaper`, `Spans`;
  `PairsNoCheaper` where a price has two parts). A catalogue whose row got dearer
  is `Costlier`. One lemma each says that the ways to search, choose and add that
  the lookups share keep the order (`RowsRise`, `FirstRises`, `CheapestRises`,
  `OrElseGrows`, `PlusGrows`); from them come the lookups of each vendor
  (`AWSRises`, `AzureRises`, `GCPRises`, `OthersRise` and those of the
  databases), and from these `QuoteRises`. The hypothesis `RatesBelowADollar` is
  needed: the code drops a rate of Aurora's storage above a dollar, as one per
  million requests, so a rate that rises beyond it gives way to the cheaper one
  of the list.
- *The place.* What is searched in the region finds the same rows in a catalogue
  with only this region in it (`LocalRows`), and a search that tries all phrases in
  the region before it tries them elsewhere ends in the region when one of them
  finds a price there (`FoundHere`).
- *The size.* A larger size takes the same class or a later one. `EveryClass` finds
  the one row of each class, `Climbs` says that their prices rise, `PricedAs` what a
  size is billed then, and `ClassesCostMore` that
  classes, gigabytes and floors together rise; `CostsMore` is concluded vendor by
  vendor. `BelowTheList` is needed too: the largest class of RDS and of Azure
  comes from the list alone, so it is dearer than the others only as long as the
  vendor sells those below the list.

Only model-checked: liveness (`RunEnds`, `HandOffCompletes`, `EditsGetPriced`,
`CallEnds`), which needs ENABLED.

## 5. What is not modelled

`PROJECT.json` lists every component with its reason. In short:

- Text: rendering of manifests, Helm proxies, CSI values, terminal output.
- Calls to the outside whose outcomes the models take as choices: clients of
  Kubernetes and of vendors, the installer, child processes.
- Not yet: the creation of kind (`cluster/kind/ensure.go`), the identity module
  of Proxmox (`platform/opentofux/proxmox_identity.go`), the cache of prices and
  currencies on disk, the editor of the dashboard, the cost operator.
- From reading, without a model: the check of connectivity of the identity
  bootstrap can never fail; a second cluster set on one host destroys the tokens
  of the first, because OpenTofu's state directory is per host; the purge removes
  that state even when the destroy failed; `RefreshDerivedIdentityTokenIDs` may
  pair a token with the secret of another.

## 6. Plan

1. *Done.* `Custody`, `Pivot`, `BoundedLog`, `LogRing`, `TofuRunner`, `TofuJobs`
   with their refinements and proofs; `Dashboard`.
2. *Done.* `Capacity`, `Sizing`, `Feasibility`, `Bills`, `Estimates`,
   `Catalogues`, `Quotations`, `Planning`; `Settings`, `Configurations`;
   `Manifests` and its proofs; `Archives`, `Standalone`.
3. `PriceCache`, `Identity`, `CostOperator`, the editor.

Every safety property of a run is stated by a theorem; the modules of 3 will need
theirs.
