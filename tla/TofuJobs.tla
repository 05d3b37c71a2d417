------------------------------ MODULE TofuJobs ------------------------------
(***************************************************************************)
(* Kubernetes Jobs that yage runs and polls by name                        *)
(* (internal/platform/opentofux): the sync of the repositories             *)
(* (fetcher.go), and apply, output and destroy of the issuing-CA module    *)
(* (job_runner.go, issuing_ca.go).                                         *)
(*                                                                         *)
(* yage is one sequential client; between any two of its API calls the     *)
(* cluster moves: the controllers of Jobs, their pods, the garbage         *)
(* collector that removes the pods of deleted Jobs, and the removal of     *)
(* finished Jobs.  The process may be killed and started again.            *)
(***************************************************************************)
EXTENDS Naturals

CONSTANTS
    Wanted,      \* what a run asks for: a root CA, a ref of the repositories
    NoVars,      \* no variables; the state of a module not applied
    Absent,      \* no such object
    Garbage,     \* a log that is not the output of tofu
    Runs,        \* what is run: a sync, a bootstrap's apply, a purge's destroy
    AllowFaults, \* API calls and pods may fail
    MaxCalls     \* bound: Jobs that are asked for

ASSUME ConstantsAssumption ==
    /\ Runs \subseteq {"sync", "apply", "destroy"}
    /\ AllowFaults \in BOOLEAN /\ MaxCalls \in Nat
    /\ NoVars \notin Wanted /\ Absent \notin Wanted \cup {NoVars}
    /\ Garbage \notin Wanted \cup {NoVars, Absent}

VARIABLES
    n,         \* the calls made so far, each creates one Job
    op, want,  \* what the last one is for
    step,      \* where it is
    watched,   \* the pod whose log is followed
    log,       \* what Output has read
    creds,     \* the Secrets tofu-creds-<module> and tofu-creds-<module>-output
    job,       \* the Job of each name
    pods,      \* by the number of the call whose Job made them
    lock,      \* the pod that holds the lock of the state, 0 for none
    state,     \* the state of the module: what it was applied with
    mgmtCA, workloadCA,  \* the yage-issuing-ca Secrets
    done, ok,  \* history: what pods carried out, calls that returned nil
    alone      \* history: no earlier call was at work when the run started

process == <<n, op, want, step, watched, log>>
cluster == <<creds, job, pods, lock, state>>
stores == <<mgmtCA, workloadCA>>
history == <<done, ok, alone>>
vars == <<process, cluster, stores, history>>

Op == {"sync", "apply", "output", "destroy"}
Vars == Wanted \cup {NoVars}
SecretOf(o) == IF o = "output" THEN "output" ELSE "module"
Args(o, w) == IF o \in {"sync", "apply"} THEN w ELSE NoVars
InCall == {"prepare", "delete", "create", "pod", "logs", "job"}

Pod == [n : Nat, op : Op, phase : {"pending", "running", "locked", "succeeded", "failed"},
        vars : Vars, out : Vars \cup {Garbage}]
Job == [n : Nat, status : {"active", "complete", "failed"}, vars : Vars]

Ended(p) == p.phase \in {"succeeded", "failed"}
Ready(p) == p.phase # "pending"
Status(o) == IF job[o] = Absent THEN "absent" ELSE job[o].status
Owned(p) == job[p.op] # Absent /\ job[p.op].n = p.n
Becomes(p, q) == pods' = (pods \ {p}) \cup {q}

Init ==
    /\ n = 0 /\ op = "sync" /\ want \in Wanted
    /\ step = "idle" /\ watched = 0 /\ log = Garbage
    /\ creds = [s \in {"module", "output"} |-> Absent]
    /\ job = [o \in Op |-> Absent] /\ pods = {}
    /\ lock = 0 /\ state = NoVars
    /\ mgmtCA = Absent /\ workloadCA = Absent
    /\ done = {} /\ ok = {} /\ alone = TRUE

-----------------------------------------------------------------------------
(* A call: EnsureRepoSync, Apply, Destroy, Output.                         *)

Begin(o, w) ==
    /\ n' = n + 1 /\ op' = o /\ want' = w
    /\ step' = "prepare" /\ watched' = 0 /\ log' = Garbage
    /\ UNCHANGED <<cluster, stores, done, ok>>

(* Nothing of an earlier run is still at work, or is an output.            *)
Quiet ==
    /\ \A p \in pods : Ended(p) /\ p.op # "output"
    /\ \A o \in Op : Status(o) # "active"

(* EnsureRepoSync and EnsureIssuingCA of a bootstrap, DestroyIssuingCA of  *)
(* a purge.                                                                *)
Start(o, w) ==
    /\ step = "idle" /\ n + (IF o = "apply" THEN 2 ELSE 1) <= MaxCalls
    /\ Begin(o, w) /\ alone' = Quiet

(* EnsureIssuingCA reads the outputs back once Apply has returned.         *)
ReadBack == step = "applied" /\ Begin("output", want) /\ UNCHANGED alone

GiveUp == step' = "idle" /\ UNCHANGED <<n, op, want, watched, log>>
Continue(s) == step' = s /\ UNCHANGED <<n, op, want, watched, log>>

\* mutant: an existing Secret is left as it is
KeepCreds ==
    creds' = IF op = "sync" \/ creds[SecretOf(op)] # Absent THEN creds
             ELSE [creds EXCEPT ![SecretOf(op)] = Args(op, want)]

(* ensureCredsSecret: created, or updated when it exists.                  *)
WriteCreds ==
    creds' = IF op = "sync" THEN creds ELSE [creds EXCEPT ![SecretOf(op)] = Args(op, want)]

Prepare ==
    /\ step = "prepare" /\ WriteCreds /\ Continue("delete")
    /\ UNCHANGED <<job, pods, lock, state, stores, history>>

PrepareFails ==
    /\ AllowFaults /\ step = "prepare" /\ GiveUp
    /\ UNCHANGED creds \/ WriteCreds
    /\ UNCHANGED <<job, pods, lock, state, stores, history>>

(* The Job of an earlier call goes at once, its pods later; an error of    *)
(* the deletion is ignored.                                                *)
DeleteOld ==
    /\ step = "delete" /\ Continue("create")
    /\ \/ job' = [job EXCEPT ![op] = Absent]
       \/ AllowFaults /\ UNCHANGED job
    /\ UNCHANGED <<creds, pods, lock, state, stores, history>>

SubmitJob == job' = [job EXCEPT ![op] = [n |-> n, status |-> "active", vars |-> Args(op, want)]]

\* mutant: a Job of that name that exists already is taken for this one
CreateOrReuse ==
    /\ step = "create" /\ Continue("pod")
    /\ IF job[op] = Absent THEN SubmitJob ELSE UNCHANGED job
    /\ UNCHANGED <<creds, pods, lock, state, stores, history>>

Create ==
    /\ step = "create" /\ job[op] = Absent
    /\ SubmitJob /\ Continue("pod")
    /\ UNCHANGED <<creds, pods, lock, state, stores, history>>

CreateFails ==
    /\ step = "create" /\ GiveUp
    /\ \/ job[op] # Absent /\ UNCHANGED job
       \/ AllowFaults /\ job[op] = Absent /\ (UNCHANGED job \/ SubmitJob)
    /\ UNCHANGED <<creds, pods, lock, state, stores, history>>

(* waitForPod: the first pod with the name of the Job as its label.        *)
SeePod(p) ==
    /\ step = "pod" /\ p \in pods /\ p.op = op /\ Ready(p)
    /\ step' = "logs" /\ watched' = p.n
    /\ UNCHANGED <<n, op, want, log, cluster, stores, history>>

PodTimesOut ==
    /\ step = "pod" /\ (AllowFaults \/ \A p \in pods : p.op = op => ~Ready(p))
    /\ GiveUp
    /\ UNCHANGED <<cluster, stores, history>>

(* streamLogs and capturePodLogs follow the log to its end, however long   *)
(* that takes.                                                             *)
FollowLogs(p) ==
    /\ step = "logs" /\ p \in pods /\ p.n = watched /\ Ended(p)
    /\ step' = "job" /\ log' = p.out
    /\ UNCHANGED <<n, op, want, watched, cluster, stores, history>>

(* A broken stream is a warning, but an error in Output, which may also    *)
(* take what came until then for the whole.                                *)
LogsBreak ==
    /\ step = "logs" /\ (AllowFaults \/ \A p \in pods : p.n # watched)
    /\ \/ Continue("job")
       \/ op = "output" /\ GiveUp
    /\ UNCHANGED <<cluster, stores, history>>

\* mutant: EnsureIssuingCA does not look whether the outputs are there
AfterCallUnparsed ==
    IF op = "apply" THEN "applied" ELSE IF op = "output" THEN "store" ELSE "idle"

(* Where the caller goes on: EnsureIssuingCA with what it parses.          *)
AfterCall ==
    IF op = "apply" THEN "applied" ELSE IF op = "output" /\ log \in Wanted THEN "store" ELSE "idle"

(* The Job of a sync and of an output is deleted, then Output parses.      *)
JobCompletes ==
    /\ step = "job" /\ Status(op) = "complete"
    /\ Continue(AfterCall)
    /\ \/ op \in {"sync", "output"} /\ job' = [job EXCEPT ![op] = Absent]
       \/ (AllowFaults \/ op \notin {"sync", "output"}) /\ UNCHANGED job
    /\ ok' = IF op = "output" /\ log = Garbage THEN ok ELSE ok \cup {n}
    /\ UNCHANGED <<creds, pods, lock, state, stores, done, alone>>

JobFails ==
    /\ step = "job" /\ Status(op) = "failed"
    /\ GiveUp
    /\ UNCHANGED <<cluster, stores, history>>

\* mutant: a Job that is not found is no reason to stop
JobTimesOutIfFound ==
    /\ step = "job" /\ job[op] # Absent /\ (AllowFaults \/ Status(op) = "active")
    /\ GiveUp
    /\ UNCHANGED <<cluster, stores, history>>

(* Ten minutes; an error of Get, not found included, is retried till then. *)
JobTimesOut ==
    /\ step = "job" /\ (AllowFaults \/ Status(op) \in {"absent", "active"})
    /\ GiveUp
    /\ UNCHANGED <<cluster, stores, history>>

-----------------------------------------------------------------------------
(* EnsureIssuingCA with the outputs.                                       *)

StoreOnMgmt ==
    /\ step = "store"
    /\ \/ mgmtCA' = log /\ Continue("wire")
       \/ AllowFaults /\ mgmtCA' \in {mgmtCA, log} /\ GiveUp
    /\ UNCHANGED <<cluster, workloadCA, history>>

(* Errors here are warnings: cert-manager may not be installed yet.        *)
WireWorkload ==
    /\ step = "wire" /\ GiveUp
    /\ workloadCA' \in {log} \cup (IF AllowFaults THEN {workloadCA} ELSE {})
    /\ UNCHANGED <<cluster, mgmtCA, history>>

(* The process is killed; nothing in the cluster notices.                  *)
Kill ==
    /\ step # "idle" /\ GiveUp
    /\ UNCHANGED <<cluster, stores, history>>

-----------------------------------------------------------------------------
(* The cluster.  A Job has one pod and no retries (backoffLimit 0).        *)

CreatePod(o) ==
    /\ Status(o) = "active"
    /\ \A p \in pods : p.n # job[o].n
    /\ pods' = pods \cup {[n |-> job[o].n, op |-> o, phase |-> "pending",
                           vars |-> IF o = "sync" THEN job[o].vars ELSE NoVars,
                           out |-> Garbage]}
    /\ UNCHANGED <<process, creds, job, lock, state, stores, history>>

(* The container starts with the Secret as it is now; the sync has its ref *)
(* in the pod.                                                             *)
StartPod(p) ==
    /\ p \in pods /\ p.phase = "pending"
    /\ p.op = "sync" \/ creds[SecretOf(p.op)] # Absent
    /\ Becomes(p, [p EXCEPT !.phase = "running",
                            !.vars = IF p.op = "sync" THEN @ ELSE creds[SecretOf(p.op)]])
    /\ UNCHANGED <<process, creds, job, lock, state, stores, history>>

Lock(p) ==
    /\ p \in pods /\ p.phase = "running" /\ p.op \in {"apply", "destroy"} /\ lock = 0
    /\ Becomes(p, [p EXCEPT !.phase = "locked"]) /\ lock' = p.n
    /\ UNCHANGED <<process, creds, job, state, stores, history>>

(* tofu init && tofu apply / destroy / output -json, or the git containers.*)
Succeed(p) ==
    /\ p \in pods
    /\ p.phase = IF p.op \in {"apply", "destroy"} THEN "locked" ELSE "running"
    /\ Becomes(p, [p EXCEPT !.phase = "succeeded",
                            !.out = IF p.op = "output" THEN state ELSE Garbage])
    /\ state' = IF p.phase = "locked" THEN p.vars ELSE state
    /\ lock' = IF p.phase = "locked" THEN 0 ELSE lock
    /\ done' = done \cup {<<p.n, p.vars>>}
    /\ UNCHANGED <<process, creds, job, stores, ok, alone>>

(* A failed apply may have done its work; a second one finds the lock, and *)
(* a second sync the files of the first.                                   *)
Contended(p) ==
    \/ p.op \in {"apply", "destroy"} /\ lock \notin {0, p.n}
    \/ p.op = "sync" /\ \E q \in pods \ {p} : q.op = "sync" /\ q.phase = "running"
PodFails(p) ==
    /\ p \in pods /\ p.phase \in {"running", "locked"} /\ (AllowFaults \/ Contended(p))
    /\ Becomes(p, [p EXCEPT !.phase = "failed"])
    /\ state' \in {state} \cup (IF p.phase = "locked" THEN {p.vars} ELSE {})
    /\ lock' = IF p.phase = "locked" THEN 0 ELSE lock
    /\ UNCHANGED <<process, creds, job, stores, history>>

ObserveJob(p) ==
    /\ p \in pods /\ Owned(p) /\ Status(p.op) = "active" /\ Ended(p)
    /\ job' = [job EXCEPT ![p.op].status = IF p.phase = "succeeded" THEN "complete" ELSE "failed"]
    /\ UNCHANGED <<process, creds, pods, lock, state, stores, history>>

(* TTLSecondsAfterFinished is zero for the sync, and unset for the others. *)
ExpireJob ==
    /\ Status("sync") \in {"complete", "failed"}
    /\ job' = [job EXCEPT !["sync"] = Absent]
    /\ UNCHANGED <<process, creds, pods, lock, state, stores, history>>

(* A pod whose Job was deleted goes, running or not; what it had locked    *)
(* may stay locked.                                                        *)
CollectPod(p) ==
    /\ p \in pods /\ ~Owned(p)
    /\ pods' = pods \ {p}
    /\ state' \in {state} \cup (IF p.phase = "locked" THEN {p.vars} ELSE {})
    /\ lock' \in {lock} \cup (IF lock = p.n THEN {0} ELSE {})
    /\ UNCHANGED <<process, creds, job, stores, history>>

-----------------------------------------------------------------------------
Client ==
    \/ Prepare \/ PrepareFails \/ DeleteOld \/ Create \/ CreateFails
    \/ PodTimesOut \/ LogsBreak \/ JobCompletes \/ JobFails \/ JobTimesOut
    \/ \E p \in pods : SeePod(p) \/ FollowLogs(p)
    \/ ReadBack \/ StoreOnMgmt \/ WireWorkload

Cluster ==
    \/ \E o \in Op : CreatePod(o)
    \/ \E p \in pods : StartPod(p) \/ Lock(p) \/ Succeed(p) \/ PodFails(p)
                          \/ ObserveJob(p) \/ CollectPod(p)
    \/ ExpireJob

Next == Client \/ Cluster \/ Kill \/ \E o \in Runs, w \in Wanted : Start(o, w)

Spec == Init /\ [][Next]_vars

(* yage executes its next statement, and the pods of the cluster end.      *)
(* Nobody starts a run, and nobody has to kill one.                        *)
FairSpec == Spec /\ WF_vars(Client) /\ WF_vars(Cluster)

-----------------------------------------------------------------------------
(* Properties.                                                             *)

TypeOK ==
    /\ n \in Nat /\ op \in Op /\ want \in Wanted
    /\ step \in InCall \cup {"idle", "applied", "store", "wire"}
    /\ watched \in Nat /\ log \in Vars \cup {Garbage}
    /\ creds \in [{"module", "output"} -> Vars \cup {Absent}]
    /\ job \in [Op -> Job \cup {Absent}] /\ pods \in SUBSET Pod
    /\ lock \in Nat /\ state \in Vars
    /\ {mgmtCA, workloadCA} \subseteq Wanted \cup {Absent}
    /\ done \in SUBSET (Nat \X Vars) /\ ok \in SUBSET Nat /\ alone \in BOOLEAN

(* A call that returns nil was carried out by a pod of its own, with the   *)
(* variables of this call, whatever earlier calls left behind: Jobs,       *)
(* pods that still run, Secrets (runJob, Output, EnsureRepoSync).          *)
Runner == INSTANCE TofuRunner WITH
    Arg <- Vars, busy <- step \in InCall, args <- Args(op, want)
ImplementsRunner == Runner!Spec

(* The CA that a run stores was issued for the root the run was given, if  *)
(* nothing of an earlier run was left when it started; a run that fails or *)
(* is killed half-way stores no other one (EnsureIssuingCA).               *)
StoresItsOwn == [][alone /\ mgmtCA' # mgmtCA => mgmtCA' = want]_vars

(* Every call returns, also when its Job or its pod is gone: each poll has *)
(* a limit, and a log ends with its pod (PollUntil, waitForJob).           *)
CallEnds == step # "idle" ~> step = "idle"

(* What the code claims and does not keep: Output "captures the terminated *)
(* container's stdout log" of the Job it created.                          *)
OutputReadsItsPod == [][op = "output" /\ n \in ok' \ ok => watched = n]_vars
=============================================================================
