------------------------------ MODULE Planning ------------------------------
(***************************************************************************)
(* What yage works out before it builds anything.  A session asks one      *)
(* question: does the cluster fit the installation (Sizing), what would it *)
(* cost and where would it fit the budget (Estimates), or what does one    *)
(* price lookup quote from what a vendor publishes (Quotations).           *)
(***************************************************************************)
EXTENDS Sizing, Estimates, Quotations

VARIABLE asks

planningVars == <<asks, sizingVars, estimatesVars, quotationVars>>

NoPreflight ==
  /\ cfg = (CHOOSE c \in Cfgs : TRUE) /\ pve = (CHOOSE s \in Sites : TRUE)
  /\ answer = "none" /\ created = FALSE /\ sound = FALSE /\ drift = 0
NoEstimate ==
  /\ need = NoSession /\ quote = NoSession /\ plan = NoSession /\ price = NoSession /\ changes = 0
NoLookup == lookup = "none" /\ cat = [up |-> FALSE, rows |-> {}]

Init ==
  \/ asks = "fit" /\ SizingInit /\ NoEstimate /\ NoLookup
  \/ asks = "cost" /\ EstimatesInit /\ NoPreflight /\ NoLookup
  \/ asks = "price" /\ QuotationsInit /\ NoPreflight /\ NoEstimate

Next ==
  /\ UNCHANGED asks
  /\ \/ asks = "fit" /\ SizingNext /\ UNCHANGED <<estimatesVars, quotationVars>>
     \/ asks = "cost" /\ EstimatesNext /\ UNCHANGED <<sizingVars, quotationVars>>
     \/ asks = "price" /\ QuotationsNext /\ UNCHANGED <<sizingVars, estimatesVars>>

Spec == Init /\ [][Next]_planningVars
=============================================================================
