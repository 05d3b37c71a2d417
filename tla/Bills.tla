------------------------------- MODULE Bills -------------------------------
(***************************************************************************)
(* The monthly bill of a planned cluster on every vendor:                  *)
(* internal/provider/*/cost.go and overhead.go, and the add-on, managed    *)
(* service and comparison parts of internal/cost.  A bill is a sequence of *)
(* lines; a line has a quantity and the rates its unit price is made of, a *)
(* function from products to factors.  price maps products to cents per    *)
(* unit, or to NoAnswer; where a vendor bills by the hour the product is   *)
(* an hour and the factor MonthlyHours.                                    *)
(***************************************************************************)
EXTENDS Capacity, Sequences

MonthlyHours == 730

\* The estimators' own atoiOr: what counts as zero is taken for unset.
Count(s, default) == IF s \in {Unset, 0} THEN default ELSE s

Line(name, qty, rates) == [name |-> name, qty |-> qty, rates |-> rates]
LineIf(present, line) == IF present THEN <<line>> ELSE <<>>

Products(bill) == UNION {DOMAIN bill[i].rates : i \in DOMAIN bill}

\* mutant: what is processed by the gigabyte is taken off the hours
UnitLessTraffic(line, price) ==
  SumFunction([p \in DOMAIN line.rates |->
                 line.rates[p] * price[p] * (IF p \in {"lb gb", "nat gb"} THEN -1 ELSE 1)])

Unit(line, price) ==
  SumFunction([p \in DOMAIN line.rates |-> line.rates[p] * price[p]])
Subtotal(line, price) == line.qty * Unit(line, price)
Total(bill, price) == SumFunction([i \in DOMAIN bill |-> Subtotal(bill[i], price)])

------------------------------------------------------------------------------
(* Add-ons and managed services.                                           *)

PostgresVendors == {"aws", "azure", "gcp", "digitalocean", "linode", "oci", "ibmcloud"}

SubstituteFootprint ==
  [queue |-> [cpu |-> 1000, mem |-> 2048, gb |-> 20],
   objstore |-> [cpu |-> 1000, mem |-> 2048, gb |-> 500],
   cache |-> [cpu |-> 500, mem |-> 2048, gb |-> 0]]

\* A field that is overridden replaces the default; the cache has no volume.
EffectiveFootprint(plan, svc) ==
  [f \in {"cpu", "mem", "gb"} |->
     IF plan.override[svc][f] > 0 /\ ~(svc = "cache" /\ f = "gb")
     THEN plan.override[svc][f] ELSE SubstituteFootprint[svc][f]]

\* Fixed rates, in cents a month: 3504 a processor, 438 a GiB, 8 a GB.
AddonCents(fp) == (fp.cpu * 3504) \div 1000 + (fp.mem * 438) \div 1024 + fp.gb * 8

AddonLines(plan) ==
  LET line(svc) == LineIf(svc \in plan.addons /\ AddonCents(EffectiveFootprint(plan, svc)) > 0,
                          Line(svc, 1, [one \in {"cent"} |-> AddonCents(EffectiveFootprint(plan, svc))]))
  IN line("queue") \o line("objstore") \o line("cache")

\* A managed database whose price does not come leaves the bill without a word.
PostgresLines(v, plan, price) ==
  LineIf(plan.managedPG /\ v \in PostgresVendors /\ price["pg"] # NoAnswer,
         Line("postgres", 1, [p \in {"pg"} |-> 1]))

------------------------------------------------------------------------------
(* The machines.                                                           *)

DiskOf(name) ==
  CASE name = "control-plane" -> "control-plane disk" [] name = "workers" -> "workers disk"
    [] name = "mgmt" -> "mgmt disk"

\* Control plane and workers, with boot disks where the vendor bills them.
ServerLines(name, n, server, disk, gb) ==
  LineIf(n > 0, Line(name, n, [p \in {server} |-> 1]))
  \o LineIf(n > 0 /\ disk # "bundled", Line(DiskOf(name), n, [p \in {disk} |-> gb]))

\* A managed control plane is one line, whatever the count of machines.
ControlPlaneLines(plan, managed, disk, gb) ==
  IF plan.mode \in managed
  THEN <<Line("managed control-plane", 1, [p \in {"control plane"} |-> 1])>>
  ELSE ServerLines("control-plane", Count(plan.cp, 1), "server", disk, Count(plan.cpDisk, gb))

WorkerLines(plan, disk, gb) ==
  ServerLines("workers", Count(plan.wk, 0), "server", disk, Count(plan.wkDisk, gb))

\* mutant: the management cluster is billed with the count of the workload
MgmtLikeWorkload(plan, disk, gb) ==
  IF plan.pivot THEN ServerLines("mgmt", Count(plan.cp, 1), "mgmt server", disk,
                                 Count(plan.mcpDisk, gb))
  ELSE <<>>

MgmtLines(plan, disk, gb) ==
  IF plan.pivot THEN ServerLines("mgmt", Count(plan.mcp, 1), "mgmt server", disk,
                                 Count(plan.mcpDisk, gb))
  ELSE <<>>

\* Fargate bills pods instead of workers: half a processor and a GiB each.
FargateLines(plan) ==
  <<Line("pods", Count(plan.pods, 10),
         [p \in {"vcpu hour", "gib hour"} |-> IF p = "vcpu hour" THEN MonthlyHours \div 2
                                              ELSE MonthlyHours])>>

------------------------------------------------------------------------------
(* The overhead of a tier: how many of what.                               *)

Tier(t, dev, prod, enterprise) ==
  CASE t = "dev" -> dev [] t = "enterprise" -> enterprise [] OTHER -> prod

AWSOverhead(plan) ==
  LET default == Tier(plan.tier,
        [nat |-> 0, lb |-> 1, nlb |-> 0, gb |-> 20, logs |-> 2, dns |-> 0],
        [nat |-> 1, lb |-> 1, nlb |-> 0, gb |-> 100, logs |-> 10, dns |-> 1],
        [nat |-> 3, lb |-> 2, nlb |-> 1, gb |-> 500, logs |-> 50, dns |-> 2])
  IN [k \in DOMAIN default |-> Count(plan.awsCount[k], default[k])]
AzureOverhead(plan) ==
  Tier(plan.tier, [nat |-> 0, lb |-> 1, ip |-> 1, gb |-> 20, logs |-> 2, dns |-> 0],
                  [nat |-> 1, lb |-> 1, ip |-> 2, gb |-> 100, logs |-> 10, dns |-> 1],
                  [nat |-> 3, lb |-> 2, ip |-> 4, gb |-> 500, logs |-> 50, dns |-> 2])
GCPOverhead(plan) ==
  Tier(plan.tier, [nat |-> 0, lb |-> 1, gb |-> 20, logs |-> 2, dns |-> 0],
                  [nat |-> 1, lb |-> 1, gb |-> 100, logs |-> 10, dns |-> 1],
                  [nat |-> 3, lb |-> 3, gb |-> 500, logs |-> 50, dns |-> 2])
HetznerOverhead(plan) ==
  Tier(plan.tier, [lb11 |-> 1, lb21 |-> 0, ip |-> 0, gb |-> 0, backups |-> FALSE],
                  [lb11 |-> 0, lb21 |-> 1, ip |-> 1, gb |-> 0, backups |-> FALSE],
                  [lb11 |-> 0, lb21 |-> 2, ip |-> 2, gb |-> 5000, backups |-> TRUE])

\* Three tenths of the traffic pass the gateways, which share them.
NATLines(n, gb) ==
  LineIf(n > 0, Line("nat hours", n, [p \in {"nat hour"} |-> MonthlyHours]))
  \o LineIf(n > 0, Line("nat traffic", 1, [p \in {"nat gb"} |-> (3 * gb) \div 10]))

MeterLines(d) ==
  LineIf(d.gb > 0, Line("egress", 1, [p \in {"egress"} |-> d.gb]))
  \o LineIf(d.logs > 0, Line("logs", 1, [p \in {"logs"} |-> d.logs]))
  \o LineIf(d.dns > 0, Line("dns", d.dns, [p \in {"zone"} |-> 1]))

\* Five capacity units an hour on an application balancer, three on the other.
AWSOverheadLines(plan) ==
  LET d == AWSOverhead(plan)
      LB(n, unit, units) ==
        LineIf(n > 0, Line("lb", n, [p \in {"lb hour", unit} |->
                            IF p = unit THEN units * MonthlyHours ELSE MonthlyHours]))
  IN NATLines(d.nat, d.gb) \o LB(d.lb, "alb unit hour", 5) \o LB(d.nlb, "nlb unit hour", 3)
     \o MeterLines(d)

AzureOverheadLines(plan) ==
  LET d == AzureOverhead(plan)
  IN NATLines(d.nat, d.gb)
     \o LineIf(d.lb > 0, Line("lb", d.lb, [p \in {"lb hour", "lb gb"} |->
                               IF p = "lb gb" THEN 30 ELSE MonthlyHours]))
     \o LineIf(d.ip > 0, Line("ip", d.ip, [p \in {"ip hour"} |-> MonthlyHours]))
     \o MeterLines(d)

GCPOverheadLines(plan) ==
  LET d == GCPOverhead(plan)
  IN NATLines(d.nat, d.gb) \o LineIf(d.lb > 0, Line("lb", d.lb, [p \in {"lb"} |-> 1]))
     \o MeterLines(d)

\* A balancer or an address without a price stays on the bill as nothing.
HetznerOverheadLines(plan, price) ==
  LET d == HetznerOverhead(plan)
      Tolerant(name, n, product) ==
        LineIf(n > 0, Line(name, n, [p \in {q \in {product} : price[q] # NoAnswer} |-> 1]))
  IN Tolerant("lb", d.lb11, "lb11") \o Tolerant("lb", d.lb21, "lb21")
     \o Tolerant("ip", d.ip, "ip")
     \o LineIf(d.gb > 0, Line("volumes", 1, [p \in {"gb"} |-> d.gb]))

\* A fifth on every line whose name speaks of a control plane or of workers.
Backup(v, plan, bill, price) ==
  LET server(line) == line.name \in {"control-plane", "workers", "mgmt"}
      servers == SumFunction([i \in DOMAIN bill |->
                                IF server(bill[i]) THEN Subtotal(bill[i], price) ELSE 0])
  IN IF v = "hetzner" /\ HetznerOverhead(plan).backups THEN servers \div 5 ELSE 0

------------------------------------------------------------------------------
(* The vendors.                                                            *)

AWSBill(plan, price) ==
  ControlPlaneLines(plan, {"eks", "eks-fargate"}, "disk", 30)
  \o (IF plan.mode = "eks-fargate" THEN FargateLines(plan) ELSE WorkerLines(plan, "disk", 40))
  \o MgmtLines(plan, "disk", 30)
  \o PostgresLines("aws", plan, price) \o AddonLines(plan) \o AWSOverheadLines(plan)

AzureBill(plan, price) ==
  ControlPlaneLines(plan, {"aks"}, "disk", 128) \o WorkerLines(plan, "disk", 128)
  \o MgmtLines(plan, "standard disk", 64)
  \o PostgresLines("azure", plan, price) \o AddonLines(plan) \o AzureOverheadLines(plan)

GCPBill(plan, price) ==
  ControlPlaneLines(plan, {"gke"}, "disk", 30) \o WorkerLines(plan, "disk", 40)
  \o MgmtLines(plan, "disk", 30)
  \o PostgresLines("gcp", plan, price) \o AddonLines(plan) \o GCPOverheadLines(plan)

HetznerBill(plan, price) ==
  ControlPlaneLines(plan, {}, "bundled", 0) \o WorkerLines(plan, "bundled", 0)
  \o MgmtLines(plan, "bundled", 0) \o HetznerOverheadLines(plan, price) \o AddonLines(plan)

\* The other clouds bill servers, database and add-ons; the management
\* cluster is not on their bills.
ServersBill(v, plan, price) ==
  ControlPlaneLines(plan, {}, "bundled", 0) \o WorkerLines(plan, "bundled", 0)
  \o PostgresLines(v, plan, price) \o AddonLines(plan)
DigitalOceanBill(plan, price) == ServersBill("digitalocean", plan, price)
LinodeBill(plan, price) == ServersBill("linode", plan, price)
OCIBill(plan, price) == ServersBill("oci", plan, price)
IBMCloudBill(plan, price) == ServersBill("ibmcloud", plan, price)

Clouds == PostgresVendors \union {"hetzner"}

BillOf(v, plan, price) ==
  CASE v = "aws" -> AWSBill(plan, price) [] v = "azure" -> AzureBill(plan, price)
    [] v = "gcp" -> GCPBill(plan, price) [] v = "hetzner" -> HetznerBill(plan, price)
    [] v = "digitalocean" -> DigitalOceanBill(plan, price)
    [] v = "linode" -> LinodeBill(plan, price)
    [] v = "oci" -> OCIBill(plan, price) [] v = "ibmcloud" -> IBMCloudBill(plan, price)

\* Prices of disks that are asked for before it is known whether they are billed.
AskedFor(v) ==
  CASE v \in {"aws", "gcp"} -> {"disk"} [] v = "azure" -> {"disk", "standard disk"}
    [] OTHER -> {}

\* One price that does not come and there is no estimate.
EstimateMonthlyCost(v, plan, price) ==
  LET bill == BillOf(v, plan, price)
  IN IF \E p \in Products(bill) \union AskedFor(v) : price[p] = NoAnswer
     THEN NoAnswer
     ELSE Total(bill, price) + Backup(v, plan, bill, price)

------------------------------------------------------------------------------
(* The comparison: which providers get a row, and in which order.          *)

OnPrem == {"proxmox", "vsphere", "openstack", "docker"}

InScope(v, scope) ==
  /\ v # "docker"
  /\ scope = "cloud" => v \notin OnPrem
  /\ scope = "onprem" => v \in OnPrem

\* StreamWithFilter, where every provider answers in its own time.
Compared(sel) ==
  {v \in Clouds \union OnPrem :
     /\ sel.airgapped => v \in OnPrem
     /\ InScope(v, sel.scope)
     /\ sel.provider \in {"", v}
     /\ v \notin sel.skip}

\* Rows with a total come first, by total; the others follow by name.
Before(r, s) ==
  LET priced(row) == row.total # NoAnswer /\ row.total > 0
  IN \/ priced(r) /\ ~priced(s)
     \/ priced(r) /\ priced(s) /\ r.total < s.total

ComparedRow(v, plan, price) ==
  [name |-> v, total |-> EstimateMonthlyCost(v, [plan EXCEPT !.vendor = v], price)]

\* How many GB the rest of a budget keeps.
RetentionAtBudget(budget, total, gb) ==
  IF gb = NoAnswer \/ gb <= 0 \/ budget <= total THEN 0 ELSE (budget - total) \div gb

------------------------------------------------------------------------------
(* What the dry run prints of it.                                          *)

PlanMonthlyCost(plan, price) ==
  LET total == EstimateMonthlyCost(plan.vendor, plan, price)
  IN [total |-> total,
      lines |-> IF total = NoAnswer THEN <<>> ELSE BillOf(plan.vendor, plan, price)]

\* Without a budget, or without an estimate, nothing is said.
PlanRetention(plan, price, budget, gb) ==
  LET total == EstimateMonthlyCost(plan.vendor, plan, price)
  IN IF budget <= 0 \/ total = NoAnswer THEN NoAnswer ELSE RetentionAtBudget(budget, total, gb)
=============================================================================
