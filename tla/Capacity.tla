------------------------------ MODULE Capacity ------------------------------
(***************************************************************************)
(* How many machines a configuration asks for, what they weigh, and        *)
(* whether a Proxmox host carries them: internal/cluster/capacity,         *)
(* provider/proxmox/inventory.go and the preflight of the orchestrator.    *)
(* A configuration is a record of the machine counts cp, wk, mcp and mwk   *)
(* (strings in the code: a number or Unset), the sizes of the roles, pivot,*)
(* mode, budget (a fraction <<num, den>>, or <<0, 1>>), tolerance (percent) *)
(* and overcommit.  Weights are records over Dims, in whole GiB and GB.    *)
(***************************************************************************)
EXTENDS Integers, FiniteSets, FiniteSetsExt, Functions

CONSTANT Unset      \* the empty string of a field that holds a number

ASSUME UnsetIsNoNumber == Unset \notin Int

Dims == {"cpu", "mem", "disk"}
Roles == {"cp", "wk", "mcp", "mwk"}
Nothing == [d \in Dims |-> 0]

\* capacity.atoiOr: a number is taken as it is, also 0 or a negative one.
AtoiOr(s, default) == IF s = Unset THEN default ELSE s

\* mutant: the workers of the management cluster are forgotten
WithoutMgmtWorkers(cfg) ==
  [cp |-> AtoiOr(cfg.cp, 1), wk |-> AtoiOr(cfg.wk, 0),
   mcp |-> IF cfg.pivot THEN AtoiOr(cfg.mcp, 1) ELSE 0, mwk |-> 0]

Replicas(cfg) ==
  [cp |-> AtoiOr(cfg.cp, 1), wk |-> AtoiOr(cfg.wk, 0),
   mcp |-> IF cfg.pivot THEN AtoiOr(cfg.mcp, 1) ELSE 0,
   mwk |-> IF cfg.pivot THEN AtoiOr(cfg.mwk, 0) ELSE 0]

\* Workers of the management cluster have the size of the workload's.
Machine(cfg, role) ==
  LET s == cfg.size[IF role = "mwk" THEN "wk" ELSE role]
  IN [cpu |-> AtoiOr(s.sockets, 1) * AtoiOr(s.cores, 1),
      mem |-> AtoiOr(s.mem, 0), disk |-> AtoiOr(s.disk, 0)]

K3sMachine(role) ==
  [cpu |-> 2, mem |-> 1, disk |-> IF role \in {"cp", "mcp"} THEN 20 ELSE 15]

Weight(n, machine, d) == IF n <= 0 THEN 0 ELSE n * machine[d]

PlanOf(cfg, size) ==
  LET n == Replicas(cfg)
  IN [d \in Dims |-> Weight(n["cp"], size["cp"], d) + Weight(n["wk"], size["wk"], d)
                     + Weight(n["mcp"], size["mcp"], d) + Weight(n["mwk"], size["mwk"], d)]

PlanFor(cfg) == PlanOf(cfg, [role \in Roles |-> Machine(cfg, role)])
PlanForK3s(cfg) == PlanOf(cfg, [role \in Roles |-> K3sMachine(role)])

\* Every role has at least one replica here: 0 and the empty string count as 1.
MinVCPU(cfg) ==
  LET Positive(s) == IF AtoiOr(s, 0) <= 0 THEN 1 ELSE AtoiOr(s, 0)
      Cores(s) == Positive(s.sockets) * Positive(s.cores)
  IN \A role \in {"cp", "wk"} \union IF cfg.pivot THEN {"mcp"} ELSE {} :
       Cores(cfg.size[role]) >= 2

------------------------------------------------------------------------------
(* The verdict.  Fractions are compared by cross multiplication; a host     *)
(* without storage figures is not judged on storage.                        *)

Threshold(budget) ==
  IF budget[1] <= 0 \/ budget[1] > budget[2] THEN <<2, 3>> ELSE budget
Tolerance(pct) == IF pct <= 0 THEN 15 ELSE pct

Judged(host) == IF host["disk"] > 0 THEN Dims ELSE Dims \ {"disk"}

\* mutant: a host without anything left is taken for one without figures
UnlessNothingLeft(plan, host, used, budget, pct) ==
  IF \A d \in Judged(host) \ {"cpu"} :
       \/ used[d] >= host[d]
       \/ (used[d] + plan[d]) * 100 <= (100 + Tolerance(pct)) * host[d]
  THEN "tight" ELSE "abort"

CheckCombined(plan, host, used, budget, pct) ==
  LET f == Threshold(budget)
      Total(d) == used[d] + plan[d]
  IN IF \A d \in Judged(host) : Total(d) * f[2] <= f[1] * host[d]
     THEN "fits"
     ELSE IF \A d \in Judged(host) \ {"cpu"} :
               Total(d) * 100 <= (100 + Tolerance(pct)) * host[d]
          THEN "tight"
          ELSE "abort"

\* The usage of the host has no part in this check.
CheckAlone(plan, host, budget) ==
  LET f == Threshold(budget)
  IN \A d \in Judged(host) : plan[d] <= (host[d] * f[1]) \div f[2]

WouldFitAsK3s(cfg, host) == CheckAlone(PlanForK3s(cfg), host, cfg.budget)

------------------------------------------------------------------------------
(* What Proxmox answers.  pve.nodes maps a node to [online, cpu, mem],      *)
(* pve.stores is a set of [store, node, shared, gb, up], pve.vms a set of   *)
(* [id, node, qemu, running, cpu, mem, disk]; an answer that does not come  *)
(* is NoAnswer.                                                             *)

CONSTANT NoAnswer

ASSUME NoAnswerIsNoNumber == NoAnswer \notin Int

AllowedSet(cfg, nodes) ==
  IF cfg.allowed # {} THEN cfg.allowed ELSE IF cfg.node # Unset THEN {cfg.node} ELSE nodes

Eligible(cfg, pve) ==
  {n \in AllowedSet(cfg, DOMAIN pve.nodes) \intersect DOMAIN pve.nodes : pve.nodes[n].online}

\* The storages of the allowed nodes with the configured name, whether or not
\* their node is online; one that is shared counts once.
StorageGB(cfg, pve) ==
  LET wanted == {s \in pve.stores : /\ s.up
                                    /\ cfg.store \in {Unset, s.store}
                                    /\ s.node \in AllowedSet(cfg, DOMAIN pve.nodes)}
      Key(s) == IF s.shared THEN <<s.store>> ELSE <<s.store, s.node>>
      keys == {Key(s) : s \in wanted}
  IN SumFunction([k \in keys |-> (CHOOSE s \in wanted : Key(s) = k).gb])

HostCapacity(cfg, pve) ==
  LET sum(d) == SumFunction([n \in Eligible(cfg, pve) |-> pve.nodes[n][d]])
  IN [cpu |-> sum("cpu"), mem |-> sum("mem"),
      disk |-> IF pve.storesAnswer THEN StorageGB(cfg, pve) ELSE 0]

\* Disks count in every power state, processors and memory of what runs only.
ExistingUsage(cfg, pve) ==
  LET vms == {v \in pve.vms : v.qemu /\ v.node \in AllowedSet(cfg, DOMAIN pve.nodes)}
      running == {v \in vms : v.running}
  IN [cpu |-> SumFunction([v \in running |-> v.cpu]),
      mem |-> SumFunction([v \in running |-> v.mem]),
      disk |-> SumFunction([v \in vms |-> v.disk])]

\* A census that fails is an empty host; an error of the first query, or no
\* node to place a machine on, is an error of the inventory.
Inventory(cfg, pve) ==
  IF ~pve.nodesAnswer \/ Eligible(cfg, pve) = {}
  THEN NoAnswer
  ELSE LET used == IF pve.vmsAnswer THEN ExistingUsage(cfg, pve) ELSE Nothing
           total == HostCapacity(cfg, pve)
       IN [total |-> total, used |-> used,
           available |-> [d \in Dims |-> total[d] - used[d]]]

\* The preflight: "pass", or "refuse" with or without the advice to use k3s.
Preflight(cfg, pve) ==
  LET inv == Inventory(cfg, pve)
      verdict == CheckCombined(PlanFor(cfg), inv.total, inv.used, cfg.budget, cfg.tolerance)
  IN IF inv = NoAnswer \/ verdict # "abort" \/ cfg.overcommit
     THEN "pass"
     ELSE IF cfg.mode # "k3s" /\ WouldFitAsK3s(cfg, inv.total)
          THEN "refuse, try k3s"
          ELSE "refuse"

\* What the dry run says a run would do, worked out by code of its own: the
\* verdict, or that it cannot tell, and whether it advises k3s.
PlanCapacity(cfg, pve) ==
  LET inv == Inventory(cfg, pve)
      verdict == CheckCombined(PlanFor(cfg), inv.total, inv.used, cfg.budget, cfg.tolerance)
  IN IF inv = NoAnswer
     THEN [says |-> "skip", k3s |-> FALSE]
     ELSE [says |-> verdict,
           k3s |-> verdict = "abort" /\ cfg.mode # "k3s" /\ WouldFitAsK3s(cfg, inv.total)]

\* What the workers leave to the three tenants of the cluster.
AllocationsFor(cfg) ==
  LET machine == Machine(cfg, "wk")
      n == AtoiOr(cfg.wk, 0)
      total == [cpu |-> 1000 * machine.cpu * n, mem |-> machine.mem * n]
      system == [cpu |-> IF cfg.system.cpu = 0 THEN 2000 ELSE cfg.system.cpu,
                 mem |-> IF cfg.system.mem = 0 THEN 4 ELSE cfg.system.mem]
      remain == [d \in {"cpu", "mem"} |-> total[d] - system[d]]
  IN [system |-> system, remain |-> remain,
      bucket |-> [d \in {"cpu", "mem"} |-> IF remain[d] > 0 THEN remain[d] \div 3 ELSE 0],
      overReserved |-> remain.cpu < 0 \/ remain.mem < 0]

\* The dry run shows what the system and each tenant get, or only that the
\* system alone takes more than the workers have.
PlanAllocations(cfg) ==
  LET a == AllocationsFor(cfg)
  IN IF a.overReserved THEN {} ELSE {a.system, a.bucket}
=============================================================================
