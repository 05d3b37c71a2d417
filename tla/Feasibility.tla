---------------------------- MODULE Feasibility ----------------------------
(***************************************************************************)
(* The feasibility gate, internal/feasibility: the machines a workload     *)
(* needs, what they cost on the vendors it can price, and the verdict for  *)
(* a monthly budget.  need is a record of apps (a set of groups), db,      *)
(* egress, resilience, env, cp (a count), budgetUSD; price maps <<vendor,  *)
(* product>> to an amount or to NoAnswer.  Memory is in MiB, processors in  *)
(* thousandths, money in cents.                                            *)
(***************************************************************************)
EXTENDS Capacity

Template(g) ==
  CASE g.template = "light" -> [cpu |-> 100, mem |-> 128]
    [] g.template = "heavy" -> [cpu |-> 500, mem |-> 1024]
    [] g.template = "custom" -> [cpu |-> IF g.cpu <= 0 THEN 200 ELSE g.cpu,
                                 mem |-> IF g.mem <= 0 THEN 256 ELSE g.mem]
    [] OTHER -> [cpu |-> 200, mem |-> 256]

AppResources(apps, d) ==
  SumFunction([g \in {g \in apps : g.count > 0} |-> g.count * Template(g)[d]])

AtLeast(low, n) == IF n < low THEN low ELSE n

DBResources(db) ==
  IF db <= 0 THEN [cpu |-> 0, mem |-> 0]
  ELSE [cpu |-> 1000 * AtLeast(2, db \div 50), mem |-> AtLeast(2048, db * 100)]

CPNodes(resilience) == IF resilience \in {"ha", "ha-mr"} THEN 3 ELSE 1

CeilDiv(a, b) == IF b <= 0 THEN 0 ELSE (a + b - 1) \div b

Stated(need) == need.db > 0 \/ \E g \in need.apps : g.count > 0

\* A third is added for pods that do not pack, after the reserve of the system.
ProjectShape(need) ==
  LET raw(d, reserve) == AppResources(need.apps, d) + DBResources(need.db)[d] + reserve
  IN [cpu |-> CeilDiv(133 * raw("cpu", 2000), 100), mem |-> CeilDiv(133 * raw("mem", 4096), 100),
      cpNodes |-> CPNodes(need.resilience)]

\* As many workers of a size as the dimension needs that needs more of them.
WorkersFor(shape, inst) ==
  AtLeast(1, AtLeast(CeilDiv(shape.cpu, inst.cpu), CeilDiv(shape.mem, inst.mem)))

------------------------------------------------------------------------------

CheapInstance ==
  [aws |-> [cpu |-> 2000, mem |-> 4096], azure |-> [cpu |-> 2000, mem |-> 8192],
   gcp |-> [cpu |-> 2000, mem |-> 8192], hetzner |-> [cpu |-> 2000, mem |-> 4096]]
Priced == DOMAIN CheapInstance

\* Storage and traffic that cannot be priced are free of charge; of the four
\* vendors only aws has a price for traffic.
StorageCost(v, need, price) ==
  IF need.db <= 0 \/ price[<<v, "gb">>] = NoAnswer THEN 0 ELSE need.db * price[<<v, "gb">>]
\* mutant: the traffic that is included is taken off at the price of all of it
EgressCredit(v, need, price) ==
  IF v # "aws" \/ price[<<v, "egress">>] = NoAnswer THEN 0 ELSE (need.egress - 1000) * price[<<v, "egress">>]

EgressCost(v, need, price) ==
  IF v # "aws" \/ need.egress <= 0 \/ price[<<v, "egress">>] = NoAnswer THEN 0
  ELSE need.egress * price[<<v, "egress">>]

PriceProvider(v, need, price) ==
  LET shape == ProjectShape(need)
      nodes == shape.cpNodes + WorkersFor(shape, CheapInstance[v])
  IN IF price[<<v, "server">>] = NoAnswer THEN NoAnswer
     ELSE nodes * price[<<v, "server">>] + StorageCost(v, need, price) + EgressCost(v, need, price)

\* mutant: the bounds are taken from the whole budget
WithoutHeadroom(cost, budget) ==
  IF budget <= 0 \/ 1000 * cost <= 600 * budget THEN "comfortable"
  ELSE IF 1000 * cost <= 900 * budget THEN "tight" ELSE "infeasible"

\* A fifth of the budget is kept back; 60 and 90 percent of the rest are the bounds.
VerdictFor(cost, budget) ==
  IF budget <= 0 \/ 1000 * cost <= 480 * budget THEN "comfortable"
  ELSE IF 1000 * cost <= 720 * budget THEN "tight" ELSE "infeasible"

FreeTier == [oci |-> [cpNodes |-> 1, db |-> 20], linode |-> [cpNodes |-> 0, db |-> 0],
             digitalocean |-> [cpNodes |-> 0, db |-> 0], hetzner |-> [cpNodes |-> 0, db |-> 0]]

QuotaFits(v, need) ==
  /\ FreeTier[v].cpNodes > 0
  /\ CPNodes(need.resilience) <= FreeTier[v].cpNodes
  /\ need.db <= FreeTier[v].db

LoneProd(need) == need.env = "prod" /\ need.resilience \in {"", "single"}
ThinHA(need) ==
  need.resilience \in {"ha", "ha-mr"} /\ AtoiOr(need.cp, 0) \in {1, 2}

Row(v, need, price) ==
  LET cost == IF v \in Priced THEN PriceProvider(v, need, price) ELSE NoAnswer
  IN IF v \notin Priced
     THEN [cost |-> 0, verdict |-> IF QuotaFits(v, need) THEN "comfortable" ELSE "infeasible"]
     ELSE IF cost = NoAnswer THEN [cost |-> 0, verdict |-> "infeasible"]
     ELSE [cost |-> cost, verdict |-> VerdictFor(cost, need.budgetUSD)]

\* The cloud fork.  The names are tried in their order, so that the first of
\* equally cheap vendors is recommended.
Check(need, price) ==
  LET row == [v \in Priced \union DOMAIN FreeTier |-> Row(v, need, price)]
      paid == {v \in Priced : row[v].cost > 0}
      floor == IF paid = {} THEN 0 ELSE Min({row[v].cost : v \in paid})
      good == {v \in paid : row[v].verdict = "comfortable"}
      best == {v \in good : \A w \in good : row[v].cost <= row[w].cost}
      order == <<"aws", "azure", "gcp", "hetzner">>
  IN [row |-> row, floor |-> floor,
      recommended |-> IF best = {} THEN ""
                      ELSE order[Min({i \in DOMAIN order : order[i] \in best})],
      blocking |-> (IF LoneProd(need) THEN {"prod"} ELSE {})
                   \union (IF ThinHA(need) THEN {"ha"} ELSE {})
                   \union (IF need.budgetUSD > 0 /\ need.egress = 0 THEN {"egress"} ELSE {})
                   \union (IF need.budgetUSD > 0 /\ floor > need.budgetUSD THEN {"floor"} ELSE {})]

\* The on-premises fork: the same machines of 2 cores, 4 GiB and 40 GB on the
\* host, without what already runs there, and one answer for every provider.
CheckOnPrem(need, host, budget, pct) ==
  LET shape == ProjectShape(need)
      nodes == shape.cpNodes + WorkersFor(shape, [cpu |-> 2000, mem |-> 4096])
      plan == [cpu |-> 2 * nodes, mem |-> 4 * nodes, disk |-> 40 * nodes + need.db]
      verdict == CheckCombined(plan, host, Nothing, budget, pct)
  IN [verdict |-> CASE host = NoAnswer -> "infeasible"
                    [] verdict = "fits" -> "comfortable"
                    [] verdict = "tight" -> "tight"
                    [] OTHER -> "infeasible",
      recommended |-> IF host # NoAnswer /\ verdict = "fits" THEN "docker" ELSE "",
      blocking |-> (IF LoneProd(need) THEN {"prod"} ELSE {})
                   \union (IF ThinHA(need) THEN {"ha"} ELSE {})]

(* The cost of hardware of one's own, in hundredths of a cent a month: hw is *)
(* a record of capex, years, watts, rate (cents per kWh) and support.  The   *)
(* gate works with 720 hours and without defaults, the estimate of the       *)
(* provider with 730.5 hours, five years and 15 cents.                       *)
MonthlyTCO(hw) ==
  (IF hw.capex > 0 /\ hw.years > 0 THEN (hw.capex * 10000) \div (hw.years * 12) ELSE 0)
  + (hw.watts * 720 * hw.rate) \div 10 + hw.support * 10000

TCOEstimate(hw) ==
  LET life == IF hw.years <= 0 THEN 5 ELSE hw.years
      rate == IF hw.rate <= 0 THEN 15 ELSE hw.rate
  IN IF hw.capex <= 0 THEN NoAnswer
     ELSE (hw.capex * 10000) \div (life * 12)
          + (IF hw.watts > 0 THEN (hw.watts * 7305 * rate) \div 100 ELSE 0) + hw.support * 10000
=============================================================================
