---------------------------- MODULE MCDashboard ----------------------------
(***************************************************************************)
(* Small instances of Dashboard.                                           *)
(***************************************************************************)
EXTENDS Dashboard, TLC

CONSTANTS pair1, pair2,   \* (provider, region) pairs
          conf, fresh     \* a stored configuration, a name not used yet

OnePair == {pair1}
TwoPairs == {pair1, pair2}
Idle == [pairs |-> {}, compare |-> FALSE, explicit |-> FALSE,
         vers |-> 0, loads |-> 0, modes |-> 0, saves |-> 0]
(* Edits, a load and a mode switch while prices come in.                   *)
Editing == {[Idle EXCEPT !.pairs = {pair1}, !.compare = on, !.vers = 3, !.loads = 1, !.modes = 1] :
              on \in BOOLEAN}
(* An edit, a load, a mode switch and two saves, with no prices to wait for. *)
Saving == {[Idle EXCEPT !.explicit = named, !.vers = 2, !.loads = 1, !.modes = 1, !.saves = 2] :
              named \in BOOLEAN}
EditingOrSaving == Editing \cup Saving
Pricing == {[Idle EXCEPT !.pairs = TwoPairs, !.compare = TRUE, !.vers = 2, !.loads = 1]}
TwoConfigs == {conf, fresh}
OneStored == (conf :> 1) @@ (fresh :> NotStored)
=============================================================================
