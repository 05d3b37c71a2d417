----------------------------- MODULE Quotations -----------------------------
(***************************************************************************)
(* A vendor's catalogue changes - rows come, go and get other prices, it   *)
(* cannot be read for a while - and after every change a price is looked   *)
(* up for the region here.                                                 *)
(***************************************************************************)
EXTENDS Catalogues

CONSTANTS Lookups,       \* the lookups of the sessions
          Sizes,         \* sizes of databases, in GB
          Published      \* the amounts that the rows of a lookup may have

VARIABLES lookup, cat

quotationVars == <<lookup, cat>>

Here == "here"
Elsewhere == "elsewhere"

\* The words of the rows that matter to a lookup, in the order of the answer.
Words(f) ==
  CASE f = "ec2" -> <<{"t3", "linux", "shared", "no_software"}, {"t3", "linux", "shared", "no_software", "not_used"}>>
    [] f = "ebs" -> <<{"gp3", "volume_usage"}, {"gp3", "iops"}>>
    [] f = "eks" -> <<{"amazon_eks"}, {"standard"}>>
    [] f = "fargate" -> <<{"fargate", "vcpu"}, {"fargate", "gb"}>>
    [] f = "aws_nat" -> <<{"natgateway", "hours"}, {"natgateway", "gb"}>>
    [] f = "alb" -> <<{"application", "loadbalancerusage"}, {"application", "lcu"}>>
    [] f = "nlb" -> <<{"network", "loadbalancerusage"}, {"network", "lcu"}>>
    [] f = "aws_egress" -> <<{"out_bytes"}>>
    [] f = "aws_logs" -> <<{"log", "vendedlog"}, {"log", "vendedlog", "vendedlogia"}, {"log", "stored"}>>
    [] f = "route53" -> <<{"zone"}, {"zone", "next_tier"}>>
    [] f = "rds" -> <<{"postgres", "single_az", "t3.small"}, {"postgres", "single_az", "t3.medium"},
                      {"postgres", "single_az", "m6i.large"}, {"database_storage", "general_purpose", "gp3"}>>
    [] f = "rds_storage" -> <<{"database_storage", "general_purpose"}, {"database_storage", "general_purpose", "gp3"}>>
    [] f = "aurora" -> <<{"aurora", "r6g.large"}, {"aurora", "r6g.xlarge"}, {"aurora", "storage"}>>
    [] f = "azure_vm" -> <<{"D2"}, {"D2", "spot"}>>
    [] f = "aks" -> <<{"uptime"}, {"standard"}>>
    [] f = "azure_nat" -> <<{"nat_gateway", "hour"}, {"nat_gateway", "gb"}>>
    [] f = "azure_lb" -> <<{"standard", "hour"}, {"standard", "gb"}>>
    [] f = "azure_ip" -> <<{"ip_address", "standard", "hour"}, {"ip_address", "hour"}>>
    [] f = "azure_logs" -> <<{"ingestion", "gb"}>>
    [] f = "azure_dns" -> <<{"public_zone", "public"}, {"public_zone", "public", "first_tier"}>>
    [] f = "azure_egress" -> <<{"data_transfer_out", "gb"}>>
    [] f = "azure_disk" -> <<{"standard_ssd", "gb"}>>
    [] f = "azure_pg" -> <<{"flexible_server", "B1ms", "hour"}, {"flexible_server", "D2ds", "hour"},
                           {"flexible_server", "D4ds", "hour"}, {"flexible_server", "storage", "gb"}>>
    [] f = "gcp_machine" -> <<{"ondemand", "compute", "CPU", "N2"}, {"ondemand", "compute", "RAM", "N2"}>>
    [] f = "gcp_disk" -> <<{"ondemand", "balanced_pd"}>>
    [] f = "gke" -> <<{"ondemand", "cluster_management"}, {"ondemand", "cluster_management", "autopilot"}>>
    [] f = "gcp_nat" -> <<{"ondemand", "public_nat", "nat", "uptime"}, {"ondemand", "cloud_nat", "nat", "uptime"},
                          {"ondemand", "nat", "data"}>>
    [] f = "gcp_lb" -> <<{"ondemand", "http", "load_balancing"}, {"ondemand", "forwarding", "rule"}>>
    [] f = "gcp_egress" -> <<{"ondemand", "egress", "worldwide"}, {"ondemand", "internet", "egress"}>>
    [] f = "gcp_logging" -> <<{"ondemand", "log", "ingestion"}, {"ondemand", "log_volume"}>>
    [] f = "gcp_dns" -> <<{"ondemand", "managed", "zone"}, {"ondemand", "dns_zone"}>>
    [] f = "gcp_pg" -> <<{"ondemand", "postgresql", "vcpu", "running"}, {"ondemand", "postgresql", "ram", "running"},
                         {"ondemand", "cloud_sql", "postgresql", "ram"}>>
    [] f = "hetzner_server" -> <<{"cx22"}, {"cx23"}>>
    [] f = "hetzner_lb" -> <<{"lb11"}>>
    [] f = "do_server" -> <<{"s1", "available"}, {"s1"}>>
    [] f = "do_pg" -> <<{"small", "pg", "one_node"}, {"large", "pg", "one_node"}>>
    [] f = "linode_server" -> <<{"g6"}, {"g6", "override"}>>
    [] f = "linode_pg" -> <<{"small", "postgresql", "one_node"}, {"small", "mysql", "one_node"},
                            {"large", "postgresql", "one_node"}>>
    [] f = "oci_machine" -> <<{"compute", "E4", "standard", "ocpu"}, {"compute", "E4", "standard", "gb"},
                              {"compute", "E4", "standard", "hour"}>>
    [] f = "oci_pg" -> <<{"postgres", "ocpu"}, {"postgres", "memory"}, {"postgres", "storage"}>>
    [] f = "ibm_machine" -> <<{"parent", "entry", "instance_hour", "USD"}, {"child", "deployment", "instance_hour", "USD"}>>
    [] f = "ibm_pg" -> <<{"parent", "deployment", "memory_hour", "USD"}, {"child", "entry", "memory_hour", "USD"},
                         {"child", "entry", "disk_hour", "USD"}>>

\* What a lookup returns from a catalogue, for a database of a size.
Quote(f, c, gb) ==
  CASE f = "ec2" -> AWSEC2(c, "t3", Here) [] f = "ebs" -> BlockStorage("aws", c, Here)
    [] f = "eks" -> AWSEKSControlPlane(c, Here) [] f = "fargate" -> AWSFargate(c, Here)
    [] f = "aws_nat" -> AWSNATGateway(c) [] f = "alb" -> AWSApplicationLB(c) [] f = "nlb" -> AWSNetworkLB(c)
    [] f = "aws_egress" -> AWSEgress(c, c) [] f = "aws_logs" -> AWSCloudWatchLogs(c)
    [] f = "route53" -> AWSRoute53Zone(c)
    [] f = "rds" -> ManagedPostgres("aws", c, Here, "dev", gb, TRUE, "USD")
    [] f = "rds_storage" -> AWSRDSStorage(c, Here)
    [] f = "aurora" -> ManagedPostgres("aws", c, Here, "prod", gb, TRUE, "USD")
    [] f = "azure_vm" -> AzureVM(c, "D2", Here) [] f = "aks" -> AzureAKS(c, Here)
    [] f = "azure_nat" -> AzureNATGateway(c, Here) [] f = "azure_lb" -> AzureStandardLB(c, Here)
    [] f = "azure_ip" -> AzurePublicIP(c, Here) [] f = "azure_logs" -> AzureLogAnalytics(c, Here)
    [] f = "azure_dns" -> AzureDNSZone(c, "westeurope", [r \in {"westeurope"} |-> Here])
    [] f = "azure_egress" -> AzureEgress(c, c, Here) [] f = "azure_disk" -> BlockStorage("azure", c, Here)
    [] f = "azure_pg" -> ManagedPostgres("azure", c, Here, "prod", gb, TRUE, "USD")
    [] f = "gcp_machine" -> GCPMachine(c, "N2", GCPShape("N2", "highmem", 2), Here)
    [] f = "gcp_disk" -> BlockStorage("gcp", c, Here) [] f = "gke" -> GCPGKEControlPlane(c, Here)
    [] f = "gcp_nat" -> GCPCloudNAT(c, Here, TRUE) [] f = "gcp_lb" -> GCPLoadBalancer(c, Here, TRUE)
    [] f = "gcp_egress" -> GCPEgress(c, Here, TRUE) [] f = "gcp_logging" -> GCPLogging(c, TRUE)
    [] f = "gcp_dns" -> GCPDNSZone(c, TRUE)
    [] f = "gcp_pg" -> ManagedPostgres("gcp", c, Here, "prod", gb, TRUE, "USD")
    [] f = "hetzner_server" -> HetznerServer(c, "cx22", "cx23", Here)
    [] f = "hetzner_lb" -> HetznerLoadBalancer(c, "lb11")
    [] f = "do_server" -> DOServer(c, "s1", Here)
    [] f = "do_pg" -> ManagedPostgres("digitalocean", c, Here, "dev", gb, TRUE, "USD")
    [] f = "linode_server" -> LinodeServer(c, "g6", Here)
    [] f = "linode_pg" -> ManagedPostgres("linode", c, Here, "dev", gb, TRUE, "USD")
    [] f = "oci_machine" -> OCIMachine(c, "E4", "standard", TRUE)
    [] f = "oci_pg" -> ManagedPostgres("oci", c, Here, "prod", gb, TRUE, "USD")
    [] f = "ibm_machine" -> IBMMachine(c, Here, "USD", {92000})
    [] f = "ibm_pg" -> ManagedPostgres("ibmcloud", c, Here, "prod", gb, TRUE, "USD")

RowOf(f, i, region, usd) ==
  [has |-> Words(f)[i], at |-> {region, Everywhere}, pos |-> IF region = Here THEN 2 * i ELSE 2 * i - 1,
   tier |-> IF "first_tier" \in Words(f)[i] THEN 0 ELSE 1, usd |-> usd]

\* AWS offers and price lists of Google are one catalogue for every region;
\* the others are asked for the region.
WorldWide ==
  {"ec2", "ebs", "eks", "fargate", "aws_nat", "alb", "nlb", "aws_egress", "aws_logs",
   "gcp_machine", "gcp_disk", "gke", "gcp_nat", "gcp_lb", "gcp_egress", "linode_server"}
AllLookups ==
  WorldWide \union
  {"route53", "rds", "rds_storage", "aurora", "azure_vm", "aks", "azure_nat", "azure_lb", "azure_ip",
   "azure_logs", "azure_dns", "azure_egress", "azure_disk", "azure_pg", "gcp_logging", "gcp_dns",
   "gcp_pg", "hetzner_server", "hetzner_lb", "do_server", "do_pg", "linode_pg", "oci_machine",
   "oci_pg", "ibm_machine", "ibm_pg"}

ASSUME LookupsAssumption == Lookups \subseteq AllLookups
ASSUME SizesAssumption == Sizes \subseteq Nat /\ Sizes # {}
ASSUME PublishedAssumption == \A f \in Lookups : Published[f] \subseteq Nat

Regions(f) == IF f \in WorldWide THEN {Here, Elsewhere} ELSE {Here}

QuotationsInit == lookup \in Lookups /\ cat = [up |-> TRUE, rows |-> {}]

Offer ==
  \E i \in DOMAIN Words(lookup), region \in Regions(lookup), usd \in Published[lookup] :
    LET row == RowOf(lookup, i, region, usd)
    IN /\ cat.up /\ \A r \in cat.rows : r.pos # row.pos
       /\ cat' = [cat EXCEPT !.rows = @ \union {row}]
       /\ UNCHANGED lookup

Reprice ==
  /\ \E r \in cat.rows, usd \in Published[lookup] :
       cat' = [cat EXCEPT !.rows = (@ \ {r}) \union {[r EXCEPT !.usd = usd]}]
  /\ UNCHANGED lookup

Withdraw ==
  /\ \E r \in cat.rows : cat' = [cat EXCEPT !.rows = @ \ {r}]
  /\ UNCHANGED lookup

Outage == cat.up /\ cat' = [up |-> FALSE, rows |-> {}] /\ UNCHANGED lookup

QuotationsNext == Offer \/ Reprice \/ Withdraw \/ Outage

QuotationsSpec == QuotationsInit /\ [][QuotationsNext]_quotationVars

------------------------------------------------------------------------------
\* A quote is one rate, or a pair.
Pairs == {"fargate", "aws_nat", "alb", "nlb", "aws_logs", "azure_nat", "azure_lb", "gcp_nat"}
Rates(quotes, i) == {IF lookup \in Pairs THEN q[i] ELSE q : q \in quotes}

\* Only databases have a size.
Databases ==
  {"rds", "aurora", "azure_pg", "gcp_pg", "do_pg", "linode_pg", "oci_pg", "ibm_pg"}
SizesAsked == IF lookup \in Databases THEN Sizes ELSE {Min(Sizes)}

NotLess(quotes, others) ==
  quotes # NoPrice /\ others # NoPrice =>
    \A i \in IF lookup \in Pairs THEN {1, 2} ELSE {1} :
      /\ Min(Rates(quotes, i)) <= Min(Rates(others, i))
      /\ Max(Rates(quotes, i)) <= Max(Rates(others, i))

\* A row that gets dearer never makes a quote cheaper, through every filter,
\* choice of the cheapest, of the first or of the lowest tier, every phrase
\* that is tried and every list price that fills a gap.
DearerIsNotCheaper ==
  [][lookup' = lookup
     /\ (\E r \in cat.rows, s \in cat'.rows :
           /\ r.usd > 0 /\ s.usd >= r.usd /\ s = [r EXCEPT !.usd = s.usd]
           /\ cat'.rows = (cat.rows \ {r}) \union {s})
     => \A gb \in SizesAsked : NotLess(Quote(lookup, cat, gb), Quote(lookup, cat', gb))]_quotationVars

\* The lookups that leave other regions out.
Regional ==
  {"ec2", "ebs", "fargate", "gcp_machine", "gcp_disk", "gke", "gcp_lb", "gcp_egress"}

Local == [cat EXCEPT !.rows = {r \in @ : Here \in r.at}]

\* Where a region has offers of its own, what other regions pay does not
\* matter: the quote is the one of a catalogue with only this region in it.
QuotedWhereItRuns ==
  lookup \in Regional /\ cat.up /\ (lookup \in {"gcp_lb", "gcp_egress"} => Positive(Local.rows) # {}) =>
    \A gb \in SizesAsked : Quote(lookup, cat, gb) = Quote(lookup, Local, gb)

\* A vendor's classes are priced upwards, all of them or none.
Ascending ==
  /\ \A r, s \in cat.rows : r.pos < s.pos /\ Cardinality(r.has) = Cardinality(s.has) => r.usd <= s.usd
  /\ \/ cat.rows = {}
     \/ /\ Cardinality(cat.rows) = Len(Words(lookup))
        /\ \A r \in cat.rows : r.usd > 0

\* With a vendor whose classes are priced upwards, and from the list where
\* there is no catalogue, a larger database never costs less: the thresholds,
\* the classes, the list prices and the floors fit together.  Only Azure takes
\* the list, which may be dearer, for a database of no size.
LargerDatabaseCostsMore ==
  lookup \in Databases /\ Ascending =>
    \A small, large \in Sizes :
      small < large /\ (lookup = "azure_pg" => small > 0) =>
        Max(Quote(lookup, cat, small)) <= Min(Quote(lookup, cat, large))
=============================================================================
