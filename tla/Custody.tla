------------------------------ MODULE Custody ------------------------------
(***************************************************************************)
(* What a pivot promises about the clusters it has created, apart from how *)
(* it does it.  A cluster with machines on the provider ("live") is held   *)
(* by the management planes that store its Cluster API objects.  Holding   *)
(* may be taken at any time; it is released one way only: kind gives up a  *)
(* live cluster when the new management cluster already holds it, and the  *)
(* management cluster never gives one up.  The module Pivot implements it. *)
(***************************************************************************)
EXTENDS FiniteSets

CONSTANT Cluster

VARIABLES
    live,     \* clusters that have machines on the provider
    holder    \* holder[p]: the clusters whose objects plane p stores

vars == <<live, holder>>

Plane == {"kind", "mgmt"}

TypeOK == /\ live \subseteq Cluster
          /\ holder \in [Plane -> SUBSET Cluster]

Held(c) == \E p \in Plane : c \in holder[p]

Init == /\ holder \in [Plane -> SUBSET Cluster]
        /\ live \subseteq {c \in Cluster : Held(c)}

(* Machines appear for a cluster some plane describes. *)
Start(c) == /\ Held(c)
            /\ live' = live \cup {c}
            /\ UNCHANGED holder

(* Objects of some clusters are written to a plane. *)
Take(p, S) == /\ holder' = [holder EXCEPT ![p] = @ \cup S]
              /\ UNCHANGED live

(* The objects of some clusters disappear from kind: for a live one, only  *)
(* when the management cluster already holds it.                           *)
Release(S) == /\ S \cap live \subseteq holder["mgmt"]
              /\ holder' = [holder EXCEPT !["kind"] = @ \ S]
              /\ UNCHANGED live

Next == \/ \E c \in Cluster : Start(c)
        \/ \E p \in Plane, S \in SUBSET Cluster : Take(p, S)
        \/ \E S \in SUBSET Cluster : Release(S)

Spec == Init /\ [][Next]_vars

=============================================================================
