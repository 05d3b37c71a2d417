--------------------------- MODULE MCStandalone ---------------------------
(* Sessions of planning around every threshold; and processes that         *)
(* save and restore a cluster of two namespaces.                           *)
EXTENDS Standalone

size(cores, mem, disk) == [sockets |-> 1, cores |-> cores, mem |-> mem, disk |-> disk]
Run == [cp |-> Unset, wk |-> 1, mcp |-> 1, mwk |-> 0, pivot |-> FALSE, mode |-> "kubeadm",
         size |-> [cp |-> size(2, 4, 30), wk |-> size(2, 4, 20), mcp |-> size(2, 2, 20)],
         system |-> [cpu |-> 0, mem |-> 1],
         budget |-> <<0, 1>>, tolerance |-> 0, overcommit |-> FALSE,
         allowed |-> {}, node |-> "n1", store |-> "local"]
MCCfgs ==
  {[Run EXCEPT !.wk = w, !.pivot = p, !.mwk = m, !.allowed = a] :
     w \in {0, 1, 2}, p \in BOOLEAN, m \in {0, 1}, a \in {{}, {"n1", "n2"}}}
  \union {[Run EXCEPT !.overcommit = TRUE, !.wk = 3], [Run EXCEPT !.size["wk"].cores = 1],
          [Run EXCEPT !.mode = "k3s", !.wk = 2], [Run EXCEPT !.budget = <<1, 2>>],
          [Run EXCEPT !.store = Unset, !.allowed = {"n1", "n2"}, !.tolerance = 50]}

vm(i, n, q, on, mem) ==
  [id |-> <<"vm", i>>, node |-> n, qemu |-> q, running |-> on, cpu |-> 2, mem |-> mem, disk |-> 20]
MCSites ==
  {[nodes |-> [n \in {"n1", "n2"} |-> [online |-> on \/ n = "n2", cpu |-> 4, mem |-> 10]],
    stores |-> {[store |-> "local", node |-> "n1", shared |-> FALSE, gb |-> 100, up |-> TRUE],
                [store |-> "local", node |-> "n2", shared |-> FALSE, gb |-> 60, up |-> TRUE],
                [store |-> "nas", node |-> "n1", shared |-> TRUE, gb |-> 90, up |-> up],
                [store |-> "nas", node |-> "n2", shared |-> TRUE, gb |-> 90, up |-> up]},
    vms |-> {vm(1, "n1", TRUE, TRUE, 2), vm(2, "n1", TRUE, FALSE, 9), vm(3, "n1", FALSE, TRUE, 1)},
    nodesAnswer |-> TRUE, vmsAnswer |-> va, storesAnswer |-> TRUE] :
   on \in BOOLEAN, up \in BOOLEAN, va \in BOOLEAN}

Apps == {[template |-> "heavy", count |-> 6, cpu |-> 0, mem |-> 0],
         [template |-> "custom", count |-> 2, cpu |-> 700, mem |-> 0],
         [template |-> "light", count |-> 0, cpu |-> 0, mem |-> 0]}
MCNeeds ==
  {[apps |-> Apps, db |-> d, egress |-> 100 * n, resilience |-> IF n = 1 THEN "ha" ELSE "single",
    env |-> "prod", cp |-> IF n = 1 THEN 1 ELSE Unset, budgetUSD |-> 40000] :
     d \in {0, 20, 200}, n \in {0, 1}}
  \union {[apps |-> {}, db |-> d, egress |-> 0, resilience |-> "", env |-> "dev", cp |-> 3,
           budgetUSD |-> 40000] : d \in {0, 150}}

Gate == Priced \X {"server", "gb", "egress"}
MCQuotes ==
  {[k \in Gate |-> IF k[2] # "server" THEN 10 ELSE base] : base \in {1500, 4000}}
  \union {[k \in Gate |-> IF k[1] = "hetzner" THEN NoAnswer
                          ELSE IF k[2] = "server" THEN 1500 ELSE NoAnswer]}

NoOverride == [s \in DOMAIN SubstituteFootprint |-> [f \in {"cpu", "mem", "gb"} |-> 0]]
Bill ==
  [vendor |-> "aws", mode |-> "unmanaged", tier |-> "prod", cp |-> 1, wk |-> 2, mcp |-> 1,
   mwk |-> 0, pivot |-> TRUE, cpDisk |-> Unset, wkDisk |-> 50, mcpDisk |-> Unset,
   pods |-> Unset, managedPG |-> TRUE, addons |-> {"queue", "objstore", "cache"},
   override |-> [NoOverride EXCEPT !["cache"]["mem"] = 4096, !["queue"]["gb"] = 40],
   awsCount |-> [k \in {"nat", "lb", "nlb", "gb", "logs", "dns"} |-> Unset]]

MCPlans ==
  {[Bill EXCEPT !.vendor = v, !.tier = t[1], !.wk = t[2]] :
     v \in {"aws", "azure", "gcp", "hetzner"},
     t \in {<<"dev", 2>>, <<"prod", 0>>, <<"enterprise", 2>>}}
  \union {[Bill EXCEPT !.vendor = v] : v \in {"digitalocean", "linode", "oci", "ibmcloud"}}
  \union {[Bill EXCEPT !.vendor = t[1], !.mode = t[2], !.pivot = t[3]] :
            t \in {<<"aws", "eks", TRUE>>, <<"aws", "eks-fargate", TRUE>>,
                    <<"azure", "aks", FALSE>>, <<"gcp", "gke", FALSE>>}}
  \union {[Bill EXCEPT !.awsCount["nat"] = 2, !.awsCount["gb"] = 0, !.addons = {},
                       !.managedPG = FALSE, !.cp = Unset]}

MCPrices ==
  {[p \in Catalogue |-> IF p = "cent" THEN 1 ELSE 10],
   [p \in Catalogue |-> IF p = "cent" THEN 1 ELSE IF p \in {"lb21", "pg"} THEN NoAnswer ELSE 10]}

MCPublished ==
  [f \in AllLookups |-> IF f = "aurora" THEN {0, 200000, 1000000} ELSE {0, 10, 20}]

MCSpaces == <<"default", "yage-dev">>
MCKinds == <<"clusters", "events", "secrets">>
object(ns, kind) == [ns |-> ns, kind |-> kind, name |-> "a"]
MCKeys == {object("default", "secrets"), object("yage-dev", "clusters"),
           object("default", "events")}
MCFields == {"data", "label"}
data(d, l) == [f \in MCFields |-> IF f = "data" THEN d ELSE l]
MCContents == {data(1, 0), data(2, 1)}
held(doc, last) == [says |-> doc, last |-> last, owned |-> TRUE]
MCStanding ==
  {[k \in MCKeys |-> IF k.ns = "default" THEN held(data(1, 0), {})
                     ELSE held(data(2, 1), MCFields)]}
plain == [asked |-> {}, want |-> "auto", env |-> [own |-> "", age |-> ""],
          tools |-> {"openssl"}, dest |-> 0]
MCBackups ==
  {plain,
   [plain EXCEPT !.asked = {"yage-dev"}, !.env = [own |-> "s1", age |-> "s2"],
                 !.tools = {"age", "openssl"}, !.dest = 1]}
=============================================================================
