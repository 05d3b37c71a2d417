----------------------------- MODULE Catalogues -----------------------------
(***************************************************************************)
(* How a price is found in a vendor's catalogue: internal/pricing.  A      *)
(* catalogue says whether it could be read and has rows; a row has the     *)
(* words its attributes match (has), the regions it is offered in (at,     *)
(* with Everywhere among them), its place in the answer of the vendor      *)
(* (pos) and an amount, in millionths of a dollar; one that could not be   *)
(* read has none.  A lookup yields the set of numbers it may return, for a *)
(* Go map has no order; no number is an error.                             *)
(***************************************************************************)
EXTENDS Integers, FiniteSets, FiniteSetsExt, Sequences

HoursAMonth == 730
Everywhere == "everywhere"
NoPrice == {}

\* The rows with every wanted word and no unwanted one.
Rows(cat, region, want, unwanted) ==
  {r \in cat.rows : region \in r.at /\ want \subseteq r.has /\ unwanted \cap r.has = {}}

Some(rows) == {r.usd : r \in rows}
Positive(rows) == {r \in rows : r.usd > 0}
Cheapest(rows) == IF Positive(rows) = {} THEN NoPrice ELSE {Min(Some(Positive(rows)))}
SomePriced(rows) == Some(Positive(rows))
FirstOf(rows) == {r \in rows : \A s \in rows : r.pos <= s.pos}
First(rows) == Some(FirstOf(Positive(rows)))

OrElse(prices, others) == IF prices # NoPrice THEN prices ELSE others
\* Two rates are there together or not at all.
Both(prices, others) == prices \X others
Monthly(prices) == {HoursAMonth * p : p \in prices}
Volume(rates, gb) == {gb * r : r \in rates}
Plus(prices, others) == {p + q : p \in prices, q \in others}
Scaled(prices, n) == {n * p : p \in prices}

\* The shape for a database of a size: thresholds ascending, one shape more.
Fitting(gb, limits, shapes) ==
  shapes[1 + Cardinality({i \in DOMAIN limits : gb > limits[i]})]

------------------------------------------------------------------------------
(* AWS.  The offer of a service is read without a filter: it has the rows   *)
(* of every region, and what does not ask for a location sees them all.     *)

AWSEC2(cat, type, region) ==
  Some(Rows(cat, region, {type, "linux", "shared", "no_software"}, {"not_used"}))

AWSEBS(cat, volume, sub, region) ==
  Some(Rows(cat, region, {volume, IF sub = "" THEN "volume_usage" ELSE sub}, {}))

AWSEKSControlPlane(cat, region) ==
  Monthly(OrElse(Cheapest(Rows(cat, region, {"standard"}, {})),
                 Cheapest(Rows(cat, Everywhere, {"amazon_eks"}, {}))))

\* mutant: the hour of a processor is looked for in every region
AWSFargateAnywhere(cat, region) ==
  Both(Cheapest(Rows(cat, Everywhere, {"fargate", "vcpu"}, {})),
       Cheapest(Rows(cat, region, {"fargate", "gb"}, {"vcpu"})))
AWSFargate(cat, region) ==
  Both(Cheapest(Rows(cat, region, {"fargate", "vcpu"}, {})),
       Cheapest(Rows(cat, region, {"fargate", "gb"}, {"vcpu"})))

AWSNATGateway(cat) ==
  Both(Cheapest(Rows(cat, Everywhere, {"natgateway", "hours"}, {})),
       Cheapest(Rows(cat, Everywhere, {"natgateway", "gb"}, {"hours"})))

AWSLoadBalancer(cat, kind) ==
  Both(Cheapest(Rows(cat, Everywhere, {kind, "loadbalancerusage"}, {"outpost"})),
       Cheapest(Rows(cat, Everywhere, {kind, "lcu"}, {"loadbalancerusage", "outpost"})))
AWSApplicationLB(cat) == AWSLoadBalancer(cat, "application")
AWSNetworkLB(cat) == AWSLoadBalancer(cat, "network")

\* The offer of the computers stands in only when that of the network fails.
AWSEgress(vpc, ec2) ==
  SomePriced(Rows(IF vpc.up THEN vpc ELSE ec2, Everywhere, {"out_bytes"}, {}))

\* Infrequent access is a vended log too: its word is looked for first.
AWSCloudWatchLogs(cat) ==
  LET logs(word, unwanted) == Rows(cat, Everywhere, {"log", word}, unwanted)
  IN Both(Cheapest(logs("vendedlog", {"vendedlogia"}) \union logs("ingestion", {"vendedlog"})),
          Cheapest(logs("vendedlogia", {}) \union logs("stored", {"vendedlog", "ingestion"})))

AWSRoute53Zone(cat) == SomePriced(Rows(cat, Everywhere, {"zone"}, {}))

AWSRDSPostgresHourly(cat, instance, region, aurora) ==
  Cheapest(Rows(cat, region, {instance} \union IF aurora THEN {"aurora"} ELSE {"postgres", "single_az"},
                {"licensed"}))
AWSRDSStorage(cat, region) ==
  Cheapest(Rows(cat, region, {"database_storage", "general_purpose"}, {}))

\* The first gp3 row that is met wins; otherwise the cheapest of the others.
AWSRDSGP3Storage(cat, region) ==
  OrElse(SomePriced(Rows(cat, region, {"database_storage", "gp3"}, {})), AWSRDSStorage(cat, region))

\* mutant: a digit of the list slipped
RDSListSlipped == [instance \in {"t3.small", "t3.medium", "m6i.large", "m6i.xlarge"} |->
  CASE instance = "t3.small" -> 34000 [] instance = "t3.medium" -> 68000
    [] instance = "m6i.large" -> 18000 [] instance = "m6i.xlarge" -> 360000]
RDSList == [instance \in {"t3.small", "t3.medium", "m6i.large", "m6i.xlarge"} |->
  CASE instance = "t3.small" -> 34000 [] instance = "t3.medium" -> 68000
    [] instance = "m6i.large" -> 180000 [] instance = "m6i.xlarge" -> 360000]
AuroraList == [instance \in {"r6g.large", "r6g.xlarge"} |->
  CASE instance = "r6g.large" -> 260000 [] instance = "r6g.xlarge" -> 520000]

\* What the offer does not have is taken from the list, each on its own.
AWSRDSPostgres(cat, region, gb) ==
  LET instance == Fitting(gb, <<25, 100, 500>>, <<"t3.small", "t3.medium", "m6i.large", "m6i.xlarge">>)
  IN Plus(Monthly(OrElse(AWSRDSPostgresHourly(cat, instance, region, FALSE), {RDSList[instance]})),
          Volume(OrElse(AWSRDSGP3Storage(cat, region), {115000}), gb))

\* mutant: a rate of exactly a dollar is rejected too
AuroraBelowADollar(cat, region) ==
  Cheapest({r \in Rows(cat, region, {"aurora", "storage"}, {"iorequest"}) : r.usd < 1000000})
\* A rate above a dollar is that of a million requests.
AWSAuroraStorage(cat, region) ==
  Cheapest({r \in Rows(cat, region, {"aurora", "storage"}, {"iorequest"}) : r.usd <= 1000000})

AWSAuroraHourly(cat, instance, region) == AWSRDSPostgresHourly(cat, instance, region, TRUE)

AWSAuroraPostgres(cat, region, gb) ==
  LET instance == Fitting(gb, <<100>>, <<"r6g.large", "r6g.xlarge">>)
  IN Plus(Monthly(OrElse(AWSAuroraHourly(cat, instance, region), {AuroraList[instance]})),
          Volume(OrElse(AWSAuroraStorage(cat, region), {100000}), gb))

------------------------------------------------------------------------------
(* Azure.  A query names the region; one page of the answer is read.         *)

AzureVM(cat, sku, region) ==
  Cheapest(Rows(cat, region, {sku}, {"spot", "low_priority", "windows"}))

AzureAKS(cat, region) ==
  Monthly(First(Rows(cat, region, {"uptime"}, {}) \union Rows(cat, region, {"standard"}, {})))

\* Unless both rates are there the list has both; a query that fails has none.
AzureListed(cat, rates, list) == IF ~cat.up THEN NoPrice ELSE OrElse(rates, {list})
AzureNATGateway(cat, region) ==
  AzureListed(cat, Both(First(Rows(cat, region, {"nat_gateway", "hour"}, {})),
                        First(Rows(cat, region, {"nat_gateway", "gb"}, {"hour"}))),
              <<45000, 45000>>)
AzureStandardLB(cat, region) ==
  AzureListed(cat, Both(Cheapest(Rows(cat, region, {"standard", "hour"}, {})),
                        Cheapest(Rows(cat, region, {"standard", "gb"}, {}))),
              <<25000, 5000>>)

AzurePublicIP(cat, region) == First(Rows(cat, region, {"ip_address", "standard", "hour"}, {}))
AzureLogAnalytics(cat, region) == First(Rows(cat, region, {"ingestion", "gb"}, {}))

\* Zones are priced by geography; where the region is not listed, by Zone 1.
AzureDNSZoneOf(region, zones) == IF region \in DOMAIN zones THEN zones[region] ELSE "Zone_1"

\* The lowest tier counts, the cheapest row of it.
AzureDNSZone(cat, region, zones) ==
  LET rows == Positive(Rows(cat, AzureDNSZoneOf(region, zones), {"public_zone", "public"}, {}))
  IN Cheapest({r \in rows : \A s \in rows : r.tier <= s.tier})

\* A query that fails is asked again without the region.
AzureEgress(cat, again, region) ==
  LET out(from, where) == Cheapest(Rows(from, where, {"data_transfer_out", "gb"}, {}))
  IN IF cat.up THEN out(cat, region) ELSE out(again, Everywhere)

AzureManagedDisk(cat, region, product) == Cheapest(Rows(cat, region, {product, "gb"}, {}))

AzureFlexCompute(cat, region, shape) ==
  Monthly(Cheapest(Rows(cat, region, {"flexible_server", shape, "hour"}, {"windows"})))
AzureFlexStorage(cat, region, gb) ==
  Volume(Cheapest(Rows(cat, region, {"flexible_server", "storage", "gb"}, {"backup", "iops"})), gb)
AzureFlexList == [shape \in {"B1ms", "D2ds", "D4ds", "D8ds"} |->
  CASE shape = "B1ms" -> 26000 [] shape = "D2ds" -> 223000
    [] shape = "D4ds" -> 446000 [] shape = "D8ds" -> 892000]

\* One of the two missing, or no gigabyte, and the list has both.
AzureFlexiblePostgres(cat, region, gb, redundant) ==
  LET shape == Fitting(gb, <<25, 100, 500>>, <<"B1ms", "D2ds", "D4ds", "D8ds">>)
      live == Both(AzureFlexCompute(cat, region, shape), AzureFlexStorage(cat, region, gb))
      parts == IF live = NoPrice \/ gb = 0
               THEN {<<HoursAMonth * AzureFlexList[shape], 115000 * gb>>} ELSE live
  IN Scaled({p[1] + p[2] : p \in parts}, IF redundant THEN 2 ELSE 1)

------------------------------------------------------------------------------
(* Google Cloud.  Rows without a price are dropped when the list is read;    *)
(* the first match in the order of the answer counts.                        *)

OnDemand(cat, region, want, unwanted) == First(Rows(cat, region, {"ondemand"} \union want, unwanted))

\* The first pair of a phrase and a region that has a price.
FirstAnswer(tries) ==
  LET priced == {i \in DOMAIN tries : tries[i] # NoPrice}
  IN IF priced = {} THEN NoPrice ELSE tries[Min(priced)]
\* Each phrase here and then everywhere, or all the phrases here first.
PhraseMajor(cat, region, phrases, unwanted) ==
  FirstAnswer([i \in 1 .. 2 * Len(phrases) |->
    OnDemand(cat, IF i % 2 = 1 THEN region ELSE Everywhere, phrases[(i + 1) \div 2], unwanted)])
RegionMajor(cat, region, phrases, unwanted) ==
  LET n == Len(phrases)
  IN FirstAnswer([i \in 1 .. 2 * n |->
       OnDemand(cat, IF i <= n THEN region ELSE Everywhere, phrases[((i - 1) % n) + 1], unwanted)])

GCPRate(cat, family, resource, region) ==
  OnDemand(cat, region, {"compute", resource, family},
           {"preemptible", "commitment", "sole_tenant", "custom"})

\* Processors and memory, in tenths of a GiB, of a predefined shape.
GCPShape(family, kind, n) ==
  CASE kind = "standard" -> [cpu |-> n, mem |-> 40 * n] [] kind = "highmem" -> [cpu |-> n, mem |-> 80 * n]
    [] kind = "highcpu" -> [cpu |-> n, mem |-> 10 * n]
    [] kind = "micro" -> [cpu |-> 1, mem |-> IF family = "f1" THEN 6 ELSE 10]
    [] kind = "small" -> [cpu |-> 1, mem |-> IF family = "g1" THEN 17 ELSE 20]
    [] kind = "medium" -> [cpu |-> 1, mem |-> 40]

GCPMachine(cat, family, shape, region) ==
  Plus(Scaled(GCPRate(cat, family, "CPU", region), shape.cpu),
       {(p * shape.mem) \div 10 : p \in GCPRate(cat, family, "RAM", region)})

GCPDisk(cat, kind, region) == OnDemand(cat, region, {kind}, {})

GCPGKEControlPlane(cat, region) ==
  Monthly(OnDemand(cat, region, {"cluster_management"}, {"autopilot"}))

GCPNATRate(cat, region, unit) ==
  PhraseMajor(cat, region, <<{"cloud_nat", unit}, {"public_nat", unit}, {"nat", unit}>>, {"private"})
GCPCloudNAT(cat, region, key) ==
  IF ~key THEN NoPrice
  ELSE Both(OrElse(GCPNATRate(cat, region, "uptime"), {44000}),
            OrElse(GCPNATRate(cat, region, "data"), {45000}))

\* Without a key, and without a match, there is the list.
GCPListed(prices, key, list) == IF key THEN OrElse(prices, {list}) ELSE {list}
GCPLoadBalancer(cat, region, key) ==
  Monthly(GCPListed(RegionMajor(cat, region,
                      <<{"forwarding", "rule"}, {"load_balancing", "forwarding"}, {"external", "forwarding"},
                        {"network_load_balancing"}, {"http", "load_balancing"}>>,
                      {"data_processing", "ingress", "outgoing"}), key, 25000))
GCPEgress(cat, region, key) ==
  GCPListed(RegionMajor(cat, region, <<{"network_internet_egress"}, {"internet", "egress"}, {"egress", "worldwide"},
                          {"network_egress"}>>,
                        {"china", "australia"}), key, 120000)
GCPLogging(cat, key) ==
  GCPListed(RegionMajor(cat, Everywhere, <<{"log_volume"}, {"logging", "ingestion"}, {"logging", "storage"}, {"log", "ingestion"}>>, {}),
            key, 500000)
GCPDNSZone(cat, key) ==
  GCPListed(RegionMajor(cat, Everywhere, <<{"managed_zone"}, {"managed", "zone"}, {"hosted_zone"}, {"dns_zone"}, {"zone_management"}>>,
                        {"queries", "lookup"}), key, 500000)

\* Processors and quarters of a GiB.
CloudSQLShape(gb) ==
  Fitting(gb, <<25, 100, 500>>, <<[cpu |-> 1, mem |-> 15], [cpu |-> 2, mem |-> 30],
                                  [cpu |-> 4, mem |-> 60], [cpu |-> 8, mem |-> 120]>>)
CloudSQLList(gb) == Fitting(gb, <<25, 100, 500>>, <<50, 99, 198, 396>>)
GCPCloudSQLRate(cat, region, resource) ==
  PhraseMajor(cat, region, <<{"postgresql", resource, "running"}, {"cloud_sql", "postgresql", resource}>>,
              {"mysql", "sql_server", "enterprise_plus", "replica", "ha"})
GCPCloudSQLPostgres(cat, region, gb, regional, key) ==
  LET shape == CloudSQLShape(gb)
      rates == Both(GCPCloudSQLRate(cat, region, "vcpu"), GCPCloudSQLRate(cat, region, "ram"))
      live == {HoursAMonth * (r[1] * shape.cpu + (r[2] * shape.mem) \div 4) : r \in rates}
      compute == OrElse(IF key THEN live ELSE NoPrice, {1000000 * CloudSQLList(gb)})
  IN Scaled(Plus(compute, {170000 * gb}), IF regional THEN 2 ELSE 1)

------------------------------------------------------------------------------
(* The other clouds.                                                        *)

\* A type that is known is not looked for under its newer name, priced in the
\* region or not.  The amounts are euro.
HetznerServer(cat, sku, alias, region) ==
  LET name == IF Rows(cat, Everywhere, {sku}, {}) # {} THEN sku ELSE alias
  IN Some(FirstOf(Rows(cat, region, {name}, {})))
HetznerLoadBalancer(cat, kind) == Cheapest(Rows(cat, Everywhere, {kind}, {}))
HetznerFlat(cat, product) == Some(Rows(cat, Everywhere, {product}, {}))

DOServer(cat, slug, region) == Some(FirstOf(Rows(cat, region, {slug, "available"}, {})))
DOPostgres(cat, size, list) == OrElse(First(Rows(cat, Everywhere, {size, "pg", "one_node"}, {})), list)

LinodeServer(cat, type, region) ==
  OrElse(Some(FirstOf(Rows(cat, region, {type, "override"}, {}))),
         Some(Rows(cat, Everywhere, {type}, {"override"})))
LinodePostgres(cat, class, list) ==
  OrElse(OrElse(First(Rows(cat, Everywhere, {class, "postgresql", "one_node"}, {})),
                First(Rows(cat, Everywhere, {class, "mysql", "one_node"}, {}))), list)

\* One processor and 16 GB of a flexible shape; memory without a row is free.
OCIMachine(cat, family, chassis, flex) ==
  LET rows(what, unwanted) == Cheapest(Rows(cat, Everywhere, {"compute", family, chassis, what},
                                            unwanted \union {"gpu", "vmware"}))
      cpu == rows("ocpu", {})
  IN IF flex /\ cpu # NoPrice
     THEN Plus(cpu, Scaled(OrElse(rows("gb", {"ocpu"}), {0}), 16))
     ELSE rows("hour", {"ocpu", "gb"})

OCIPostgresShape(gb) ==
  Fitting(gb, <<50, 200>>, <<[cpu |-> 2, mem |-> 16], [cpu |-> 4, mem |-> 32], [cpu |-> 8, mem |-> 64]>>)
OCIPostgresRates(cat) ==
  LET rows(what) == Cheapest(Rows(cat, Everywhere, {"postgres", what}, {}))
  IN IF rows("ocpu") = NoPrice \/ rows("storage") = NoPrice
     THEN {71700} \X {5000} \X {25500}
     ELSE rows("ocpu") \X OrElse(rows("memory"), {0}) \X rows("storage")
OCIPostgres(cat, gb, multi) ==
  LET shape == OCIPostgresShape(gb)
  IN Scaled({HoursAMonth * (shape.cpu * r[1] + shape.mem * r[2]) + gb * r[3] : r \in OCIPostgresRates(cat)},
            IF multi THEN 3 ELSE 1)

\* What is deployed in the region, else what holds for the whole entry.
IBMOwn(cat, region, who) ==
  OrElse(Rows(cat, region, {who, "deployment"}, {}), Rows(cat, Everywhere, {who, "entry"}, {}))
\* The child entry is that of the data centre of the region.
IBMMetrics(cat, region) == OrElse(IBMOwn(cat, region, "parent"), IBMOwn(cat, region, "child"))

\* The first row with an amount in the wanted currency, else in dollars.
IBMRate(rows, metric, currency) ==
  LET in(c) == First({r \in rows : metric \in r.has /\ c \in r.has})
  IN OrElse(in(currency), in("USD"))

IBMMachine(cat, region, currency, list) ==
  OrElse(IBMRate(IBMMetrics(cat, region), "instance_hour", currency), list)

IBMPostgresShape(gb) ==
  Fitting(gb, <<25, 100, 500>>, <<[mem |-> 4, disk |-> 5], [mem |-> 8, disk |-> gb],
                                  [mem |-> 16, disk |-> gb], [mem |-> 32, disk |-> gb]>>)
\* The parent has both rates, or the child adds and replaces; else the list.
IBMPostgresRates(cat, region, currency) ==
  LET of(who, metric) == IBMRate(IBMOwn(cat, region, who), metric, currency)
      either(metric) == OrElse(of("child", metric), of("parent", metric))
  IN OrElse(OrElse(Both(of("parent", "memory_hour"), of("parent", "disk_hour")),
                   Both(either("memory_hour"), either("disk_hour"))), {<<14800, 625>>})
IBMPostgres(cat, region, gb, multi, currency) ==
  LET shape == IBMPostgresShape(gb)
  IN Scaled({HoursAMonth * (shape.mem * r[1] + shape.disk * r[2]) : r \in IBMPostgresRates(cat, region, currency)},
            IF multi THEN 3 ELSE 1)

------------------------------------------------------------------------------
(* Choices over vendors.                                                    *)

SmallNode(tier, gb) == tier # "prod" /\ gb <= 25

ManagedPostgres(v, cat, region, tier, gb, key, currency) ==
  LET prod == tier = "prod"
  IN CASE v = "aws" -> IF prod THEN AWSAuroraPostgres(cat, region, gb) ELSE AWSRDSPostgres(cat, region, gb)
       [] v = "azure" -> AzureFlexiblePostgres(cat, region, gb, prod)
       [] v = "gcp" -> GCPCloudSQLPostgres(cat, region, gb, prod, key)
       [] v = "digitalocean" -> IF SmallNode(tier, gb) THEN DOPostgres(cat, "small", {15000000})
                                ELSE DOPostgres(cat, "large", {60000000})
       [] v = "linode" -> IF SmallNode(tier, gb) THEN LinodePostgres(cat, "small", {19000000})
                          ELSE LinodePostgres(cat, "large", {90000000})
       [] v = "oci" -> OCIPostgres(cat, gb, prod)
       [] v = "ibmcloud" -> IBMPostgres(cat, region, gb, prod, currency)
       [] OTHER -> NoPrice

BlockStorage(v, cat, region) ==
  CASE v = "aws" -> AWSEBS(cat, "gp3", "", region)
    [] v = "azure" -> AzureManagedDisk(cat, region, "standard_ssd")
    [] v = "gcp" -> GCPDisk(cat, "balanced_pd", region)
    [] v = "hetzner" -> HetznerFlat(cat, "volume")
    [] OTHER -> NoPrice
=============================================================================
