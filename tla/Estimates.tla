----------------------------- MODULE Estimates -----------------------------
(***************************************************************************)
(* The operator changes what is wanted, catalogues change what it costs,   *)
(* and after every change the feasibility gate and the bills are read      *)
(* again.  A session asks one of the two: the gate, for the vendors it     *)
(* prices, or the bill of one vendor.                                      *)
(***************************************************************************)
EXTENDS Feasibility, Bills

CONSTANTS Needs, Quotes,        \* where the gate's sessions start
          Plans, Prices,        \* where the bills' sessions start
          Budgets, Amounts,     \* values that are edited or quoted
          MaxChanges            \* bound: changes in a session

\* Finitely many groups of apps, and numbers where the wizard asks for numbers.
IsNeed(n) ==
  /\ DOMAIN n = {"apps", "db", "egress", "resilience", "env", "cp", "budgetUSD"}
  /\ {n.db, n.egress, n.budgetUSD} \subseteq Int
  /\ IsFiniteSet(n.apps) /\ \A g \in n.apps : {g.count, g.cpu, g.mem} \subseteq Int
IsQuote(q) == q \in [Priced \X {"server", "gb", "egress"} -> Nat \union {NoAnswer}]

\* What a bill may ask a price for.
Catalogue ==
  {"server", "mgmt server", "disk", "standard disk", "gb", "control plane", "pg", "cent",
   "vcpu hour", "gib hour", "nat hour", "nat gb", "lb hour", "alb unit hour", "nlb unit hour",
   "lb", "lb gb", "ip", "ip hour", "lb11", "lb21", "egress", "logs", "zone"}

\* Counts and sizes are not negative.
IsPlan(p) ==
  /\ p = [f \in DOMAIN p |-> p[f]]
  /\ DOMAIN p = {"vendor", "mode", "tier", "cp", "wk", "mcp", "mwk", "pivot", "cpDisk", "wkDisk",
                 "mcpDisk", "pods", "managedPG", "addons", "override", "awsCount"}
  /\ p.vendor \in Clouds /\ {p.pivot, p.managedPG} \subseteq BOOLEAN
  /\ {p.cp, p.wk, p.mcp, p.cpDisk, p.wkDisk, p.mcpDisk, p.pods} \subseteq Nat \union {Unset}
  /\ \A svc \in DOMAIN SubstituteFootprint, f \in {"cpu", "mem", "gb"} : p.override[svc][f] \in Int
  /\ \A k \in {"nat", "lb", "nlb", "gb", "logs", "dns"} : p.awsCount[k] \in Nat \union {Unset}
IsPrice(q) == q \in [Catalogue -> Nat \union {NoAnswer}]

ASSUME NeedsAssumption == \A n \in Needs : IsNeed(n)
ASSUME QuotesAssumption == \A q \in Quotes : IsQuote(q)
ASSUME PlansAssumption == \A p \in Plans : IsPlan(p)
ASSUME PricesAssumption == \A q \in Prices : IsPrice(q)
ASSUME EditsAssumption == Budgets \subseteq Int /\ Amounts \subseteq Nat

VARIABLES need, quote,          \* the gate: the workload and <<vendor, product>> prices
          plan, price,          \* the bills: the cluster and the product prices
          changes

estimatesVars == <<need, quote, plan, price, changes>>

NoSession == [none |-> TRUE]
Asks(session) == session # NoSession

EstimatesInit ==
  /\ changes = 0
  /\ \/ need \in Needs /\ quote \in Quotes /\ plan = NoSession /\ price = NoSession
     \/ plan \in Plans /\ price \in Prices /\ need = NoSession /\ quote = NoSession

Change == changes < MaxChanges /\ changes' = changes + 1

SetBudget ==
  /\ Asks(need) /\ Change
  /\ \E b \in Budgets : need' = [need EXCEPT !.budgetUSD = b]
  /\ UNCHANGED <<quote, plan, price>>

SetNeed ==
  /\ Asks(need) /\ Change
  /\ \E n \in Needs : need' = [n EXCEPT !.budgetUSD = need.budgetUSD]
  /\ UNCHANGED <<quote, plan, price>>

QuoteMoves ==
  /\ Asks(need) /\ Change
  /\ \E k \in DOMAIN quote, a \in Amounts \union {NoAnswer} : quote' = [quote EXCEPT ![k] = a]
  /\ UNCHANGED <<need, plan, price>>

\* One machine more of a role, or another shape of the overhead.
AddMachine ==
  /\ Asks(plan) /\ Change
  /\ \E f \in {"cp", "wk", "mcp"} :
       plan' = [plan EXCEPT ![f] = Count(@, IF f = "wk" THEN 0 ELSE 1) + 1]
  /\ UNCHANGED <<need, quote, price>>

SetPlan ==
  /\ Asks(plan) /\ Change
  /\ \E p \in Plans : plan' = p
  /\ UNCHANGED <<need, quote, price>>

\* A price that the vendor's estimate asks for; the others change nothing.
PriceMoves ==
  /\ Asks(plan) /\ Change
  /\ \E k \in (Products(BillOf(plan.vendor, plan, price)) \union AskedFor(plan.vendor)) \ {"cent"},
        a \in Amounts \union {NoAnswer} :
       price' = [price EXCEPT ![k] = a]
  /\ UNCHANGED <<need, quote, plan>>

EstimatesNext == SetBudget \/ SetNeed \/ QuoteMoves \/ AddMachine \/ SetPlan \/ PriceMoves

EstimatesSpec == EstimatesInit /\ [][EstimatesNext]_estimatesVars

------------------------------------------------------------------------------
(* The gate.                                                                *)

Rank(verdict) == CASE verdict = "comfortable" -> 0 [] verdict = "tight" -> 1 [] OTHER -> 2

\* What is recommended takes at most 48 percent of the budget, nothing that
\* was priced and fits the budget as well is cheaper, and when the cheapest
\* vendor costs more than the budget nothing is recommended and the operator
\* is told so.
RecommendationIsAffordable ==
  Asks(need) /\ Stated(need) =>
    \A v \in {Check(need, quote)} :
      LET paid == {p \in Priced : quote[<<p, "server">>] # NoAnswer}
          cost(p) == v.row[p].cost
      IN /\ v.recommended # "" =>
              /\ v.recommended \in paid
              /\ need.budgetUSD > 0 => 100 * cost(v.recommended) <= 48 * need.budgetUSD
              /\ \A p \in paid : cost(p) >= cost(v.recommended) \/ cost(p) = 0
         /\ need.budgetUSD > 0 /\ v.floor > need.budgetUSD =>
              v.recommended = "" /\ "floor" \in v.blocking

\* What has a price keeps one that is not lower.
Dearer(old, new) ==
  \A k \in DOMAIN old : \/ new[k] = old[k]
                        \/ NoAnswer \notin {old[k], new[k]} /\ new[k] >= old[k]

\* With the same workload, a higher budget never makes a verdict worse, and a
\* dearer price never makes one better.
VerdictsAreMonotone ==
  [][Asks(need) /\ Stated(need) =>
       LET old == Check(need, quote)
           new == Check(need', quote')
           BetterNow(v) == Rank(new.row[v].verdict) < Rank(old.row[v].verdict)
           WorseNow(v) == Rank(new.row[v].verdict) > Rank(old.row[v].verdict)
       IN /\ need' = [need EXCEPT !.budgetUSD = need'.budgetUSD] /\ quote' = quote
             /\ 0 < need.budgetUSD /\ need.budgetUSD <= need'.budgetUSD
             => \A v \in Priced : ~WorseNow(v)
          /\ need' = need /\ Dearer(quote, quote') => \A v \in Priced : ~BetterNow(v)]_estimatesVars

------------------------------------------------------------------------------
(* The bills.                                                               *)

Billed(bill, name) ==
  SumFunction([i \in DOMAIN bill |-> IF bill[i].name = name THEN bill[i].qty ELSE 0])

\* A bill counts the machines that are planned: for counts the operator gave,
\* every workload machine, and on the vendors that run a management cluster
\* its control plane, each with a boot disk where those are billed; only what
\* the vendor manages itself is left out.
BillCountsThePlan ==
  Asks(plan) /\ PlanMonthlyCost(plan, price).total # NoAnswer =>
    LET v == plan.vendor
        bill == PlanMonthlyCost(plan, price).lines
        n == Replicas(plan)
        disks == v \in {"aws", "azure", "gcp"}
    IN /\ plan.mode = "unmanaged" /\ n["cp"] > 0 =>
            /\ Billed(bill, "control-plane") = n["cp"]
            /\ disks => Billed(bill, "control-plane disk") = n["cp"]
       /\ plan.mode # "eks-fargate" =>
            /\ Billed(bill, "workers") = n["wk"]
            /\ disks => Billed(bill, "workers disk") = n["wk"]
       /\ v \in {"aws", "azure", "gcp", "hetzner"} /\ (plan.pivot => n["mcp"] > 0) =>
            /\ Billed(bill, "mgmt") = n["mcp"]
            /\ disks => Billed(bill, "mgmt disk") = n["mcp"]

\* A comparison of clouds that skips four of them.
Shown == [airgapped |-> FALSE, scope |-> "cloud", provider |-> "",
          skip |-> {"azure", "gcp", "oci", "ibmcloud"}]

\* An estimate never drops because a machine was added or a price rose.  With
\* it the budget keeps no more storage, and the vendor moves past none whose
\* estimate is as it was in the table of the comparison.
BillsAreMonotone ==
  [][Asks(plan) /\ plan'.vendor = plan.vendor =>
       LET old == EstimateMonthlyCost(plan.vendor, plan, price)
           new == EstimateMonthlyCost(plan.vendor, plan', price')
           was == ComparedRow(plan.vendor, plan, price)
           is == ComparedRow(plan.vendor, plan', price')
           Then(v) == ComparedRow(v, plan, price)
           Now(v) == ComparedRow(v, plan', price')
           Kept(b) == PlanRetention(plan, price, b, 1)
           Keeps(b) == PlanRetention(plan', price', b, 1)
       IN /\ \A f \in DOMAIN plan \ {"cp", "wk", "mcp"} : plan'[f] = plan[f]
          /\ \A f \in {"cp", "wk", "mcp"} : Count(plan'[f], 0) >= Count(plan[f], 0)
          /\ Dearer(price, price')
          /\ old # NoAnswer /\ new # NoAnswer
          => /\ new >= old
             /\ \A b \in Budgets : b > 0 => Keeps(b) <= Kept(b)
             /\ \A v \in Compared(Shown) \ {plan.vendor} :
                  old > 0 /\ Before(is, Now(v)) /\ Now(v) = Then(v) => Before(was, Then(v))]_estimatesVars
=============================================================================
