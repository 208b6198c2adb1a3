------------------------- MODULE MCUpdateCoordinator -------------------------
(***************************************************************************)
(* Instances of UpdateCoordinator, with the paths that planUpgradePath     *)
(* (module UpgradePlan) finds for these contracts: release 4 requires      *)
(* release 2 of those who come from 1, and release 3 of those who come     *)
(* from 2 or are led there.  Release 5 can only be reached from 4.         *)
(* Releases 3 to 5 are offered, 3 as a published one whose commit moves.   *)
(***************************************************************************)
EXTENDS UpdateCoordinator, TLC

CONSTANTS a, b

MCVersions == 1..5
Stop(when, release) == [when |-> when, release |-> release]
MCContracts ==
    [v \in MCVersions |->
        [min |-> 1, bridges |-> {},
         direct |-> {v} \cup IF v > 3 THEN {v - 1} ELSE IF v = 3 THEN {1, 2} ELSE {1},
         stops |-> IF v = 4 THEN <<Stop({1}, 2), Stop({1, 2}, 3)>> ELSE <<>>]]

Planner == INSTANCE UpgradePlan WITH
    Versions <- MCVersions, Major <- [v \in MCVersions |-> 1],
    Contracts <- {MCContracts}, contract <- MCContracts, source <- 1, target <- 1

\* main(): a path without a hop becomes one lifecycle of the target.
MCPath(s, t) == LET path == Planner!PlanPath(s, t)
                IN  IF path = <<>> THEN <<t>> ELSE path

Branch(target, rev) == [target |-> target, rev |-> rev, pins |-> <<>>]
MCOffers == {Branch(5, a), Branch(4, a), Branch(4, b)}
            \cup {[target |-> 3, rev |-> r, pins |-> (3 :> r)] : r \in {a, b}}
=============================================================================
