------------------------------- MODULE Sizing -------------------------------
(***************************************************************************)
(* A run of yage against a Proxmox installation that others use too: the   *)
(* operator edits the configuration, virtual machines come and go, the     *)
(* preflight judges, and a run that passes creates its machines.           *)
(***************************************************************************)
EXTENDS Capacity

CONSTANTS Cfgs,         \* configurations the operator may run
          Sites,        \* states of the installation before the first run
          MaxDrift      \* bound: changes made by others

\* A count or a size is a number or left empty; no size is negative.
IsConfiguration(c) ==
  /\ {c.cp, c.wk, c.mcp, c.mwk} \subseteq Int \union {Unset}
  /\ \A r \in {"cp", "wk", "mcp"} :
       {c.size[r].sockets, c.size[r].cores, c.size[r].mem, c.size[r].disk}
         \subseteq Nat \union {Unset}
  /\ c.budget[1] \in Int /\ c.budget[2] \in Nat \ {0}
  /\ {c.tolerance, c.system.cpu, c.system.mem} \subseteq Int
  /\ {c.pivot, c.overcommit} \subseteq BOOLEAN

\* Finitely many nodes, storages and machines, none with a negative figure.
IsInstallation(s) ==
  /\ DOMAIN s = {"nodes", "stores", "vms", "nodesAnswer", "vmsAnswer", "storesAnswer"}
  /\ {s.nodesAnswer, s.vmsAnswer, s.storesAnswer} \subseteq BOOLEAN
  /\ IsFiniteSet(DOMAIN s.nodes) /\ IsFiniteSet(s.stores) /\ IsFiniteSet(s.vms)
  /\ \A n \in DOMAIN s.nodes : s.nodes[n] \in [online : BOOLEAN, cpu : Nat, mem : Nat]
  /\ \A t \in s.stores : t.gb \in Nat
  /\ \A v \in s.vms : /\ DOMAIN v = {"id", "node", "qemu", "running", "cpu", "mem", "disk"}
                      /\ {v.cpu, v.mem, v.disk} \subseteq Nat
                      /\ {v.qemu, v.running} \subseteq BOOLEAN

\* The machines that a run will make are not there before it.
ASSUME CfgsAssumption == \A c \in Cfgs : IsConfiguration(c)
ASSUME SitesAssumption ==
  \A s \in Sites : IsInstallation(s) /\ \A v \in s.vms : v.id[1] \notin Roles

VARIABLES cfg, pve,
          answer,       \* of the last preflight, or "none"
          created,      \* the machines of the run exist
          sound,        \* the preflight saw everything, and nothing changed since
          drift         \* changes made by others so far

sizingVars == <<cfg, pve, answer, created, sound, drift>>

SizingInit ==
  /\ cfg \in Cfgs /\ pve \in Sites
  /\ answer = "none" /\ created = FALSE /\ sound = FALSE /\ drift = 0

\* The machines the manifests of a run ask for, all on one eligible node.
Machines(c, n) ==
  LET count(role) == IF role \in {"mcp", "mwk"} /\ ~c.pivot THEN 0
                     ELSE AtoiOr(c[role], IF role \in {"cp", "mcp"} THEN 1 ELSE 0)
      machine(role, i) ==
        LET size == Machine(c, role)
        IN [id |-> <<role, i>>, node |-> n, qemu |-> TRUE, running |-> TRUE,
            cpu |-> size.cpu, mem |-> size.mem, disk |-> size.disk]
  IN UNION {{machine(role, i) : i \in 1 .. count(role)} : role \in Roles}

\* The vCPU minimum comes first, long before the capacity is looked at.
Judge ==
  /\ answer = "none" /\ MinVCPU(cfg)
  /\ answer' = Preflight(cfg, pve)
  /\ sound' = (/\ Inventory(cfg, pve) # NoAnswer
               /\ pve.vmsAnswer /\ pve.storesAnswer /\ ~cfg.overcommit)
  /\ UNCHANGED <<cfg, pve, created, drift>>

Create ==
  /\ answer = "pass" /\ ~created
  /\ \E n \in Eligible(cfg, pve) :
       pve' = [pve EXCEPT !.vms = @ \union Machines(cfg, n)]
  /\ created' = TRUE
  /\ UNCHANGED <<cfg, answer, sound, drift>>

\* Nothing of it is checked again; the next run starts from the beginning.
Restart ==
  /\ answer # "none" /\ ~created
  /\ \E c \in Cfgs : cfg' = c
  /\ answer' = "none" /\ sound' = FALSE
  /\ UNCHANGED <<pve, created, drift>>

Changes(site) ==
  /\ ~created /\ drift < MaxDrift /\ drift' = drift + 1
  /\ pve' = site /\ sound' = FALSE
  /\ UNCHANGED <<cfg, answer, created>>

PowerChanges ==
  \E v \in pve.vms :
    Changes([pve EXCEPT !.vms = (@ \ {v}) \union {[v EXCEPT !.running = ~@]}])
NodeChanges == \E n \in DOMAIN pve.nodes : Changes([pve EXCEPT !.nodes[n].online = ~@])
AnswersChange ==
  \E field \in {"nodesAnswer", "vmsAnswer", "storesAnswer"} :
    Changes([pve EXCEPT ![field] = ~@])

SizingNext == Judge \/ Create \/ Restart \/ PowerChanges \/ NodeChanges \/ AnswersChange

SizingSpec == SizingInit /\ [][SizingNext]_sizingVars

------------------------------------------------------------------------------
(* What the machines that are there take, counted one by one.               *)
Taken(d) ==
  SumFunction([v \in {v \in pve.vms : /\ v.qemu /\ v.node \in AllowedSet(cfg, DOMAIN pve.nodes)
                                      /\ d = "disk" \/ v.running} |-> v[d]])

\* A run that passed a preflight which saw the whole installation leaves
\* memory and storage within the tolerated overcommitment when its machines
\* exist: the plan weighs every machine that is created, on the nodes and the
\* storage that were weighed.  The workers among them carry what the plan
\* promised of them to the system and to three tenants.
CreatedFits ==
  created =>
    LET workers == {v \in pve.vms : v.id[1] = "wk"}
        Carried(d) == (IF d = "cpu" THEN 1000 ELSE 1) * SumFunction([v \in workers |-> v[d]])
        shares == AllocationsFor(cfg)
    IN /\ sound =>
            \A d \in Judged(HostCapacity(cfg, pve)) \ {"cpu"} :
              100 * Taken(d) <= (100 + Tolerance(cfg.tolerance)) * HostCapacity(cfg, pve)[d]
       /\ PlanAllocations(cfg) # {} =>
            \A d \in {"cpu", "mem"} : shares.system[d] + 3 * shares.bucket[d] <= Carried(d)

\* From one installation to another machines were started or a node was lost,
\* and nothing got better.
Busier(old, new) ==
  /\ NoAnswer \notin {Inventory(cfg, old), Inventory(cfg, new)} /\ old.vmsAnswer /\ new.vmsAnswer
  /\ Judged(HostCapacity(cfg, new)) = Judged(HostCapacity(cfg, old))
  /\ \A d \in Dims : /\ ExistingUsage(cfg, new)[d] >= ExistingUsage(cfg, old)[d]
                     /\ HostCapacity(cfg, new)[d] <= HostCapacity(cfg, old)[d]

\* What the dry run says of the capacity holds for a run that follows, also
\* when the installation got busier in between (a refusal stays a refusal) or
\* quieter (what fits still passes).  Dry run and run judge in code of their
\* own (plan.go, planCapacity; bootstrap.go, preflightCapacity).
LoadNeverHelps ==
  [][cfg' = cfg =>
       /\ Busier(pve, pve') /\ PlanCapacity(cfg, pve).says = "abort" /\ ~cfg.overcommit
          => Preflight(cfg, pve') # "pass"
       /\ Busier(pve', pve) /\ PlanCapacity(cfg, pve).says \in {"fits", "tight"}
          => Preflight(cfg, pve') = "pass"
       /\ Preflight(cfg, pve') = "refuse, try k3s" /\ pve' = pve
          => PlanCapacity(cfg, pve).k3s]_sizingVars
=============================================================================
