----------------------------- MODULE UpgradePlan -----------------------------
(***************************************************************************)
(* planUpgradePath: the releases an installation goes through on its way   *)
(* from the release that is deployed to a target, as the upgrade contracts *)
(* of the releases demand                                                  *)
(* (layers/update-ops/release-versioning/upgrade-contract.ts).             *)
(*                                                                         *)
(* The state machine walks a path, replanning at each release, as a run    *)
(* does that finds another release deployed than the run before it.        *)
(***************************************************************************)
EXTENDS Naturals, SequencesExt

CONSTANTS
    Versions,   \* releases in their order, as numbers
    Major,      \* the major version of each
    Contracts,  \* the contracts the releases can have, each a function on Versions
    NoPath

\* A contract, with ranges as the sets of the releases they admit.
Stop == [when : SUBSET Versions, release : Versions]
Contract == [min : Versions, direct : SUBSET Versions, bridges : SUBSET Versions,
             stops : Seq(Stop)]
ASSUME PlanAssumption ==
    /\ Versions \subseteq Nat
    /\ Contracts \subseteq [Versions -> Contract]
    /\ NoPath \notin Seq(Versions)

VARIABLES contract, source, target

vars == <<contract, source, target>>

\* What validateUpgradeContract accepts as the contract of release r.
ValidContract(r, c) ==
    /\ c.min <= r
    /\ \A v \in c.direct : v <= r
    /\ \A i \in DOMAIN c.stops :
          /\ c.stops[i].release < r
          /\ i > 1 => c.stops[i - 1].release < c.stops[i].release

\* The release a path from s has arrived at.
At(s, path) == IF path = <<>> THEN s ELSE Last(path)

\* Mutant of Take: each stop is asked of the source, not of the release the
\* path has arrived at.
TakeOfSource(s, path, stop) ==
    IF path = NoPath \/ s \notin stop.when THEN path
    ELSE IF At(s, path) < stop.release /\ At(s, path) \in contract[stop.release].direct
    THEN Append(path, stop.release) ELSE NoPath

\* A required stop that applies where the path has arrived.
Take(s, path, stop) ==
    IF path = NoPath \/ At(s, path) \notin stop.when THEN path
    ELSE IF At(s, path) < stop.release /\ At(s, path) \in contract[stop.release].direct
    THEN Append(path, stop.release) ELSE NoPath

\* The path after each of the required stops, in their order.
Walk(s, t) ==
    LET stops == contract[t].stops
        walk[i \in 0..Len(stops)] == IF i = 0 THEN <<>> ELSE Take(s, walk[i - 1], stops[i])
    IN  walk
Stops(s, t) == Walk(s, t)[Len(contract[t].stops)]

\* Mutant of LastHop: a change of the major version needs no declared bridge.
LastHopUnbridged(v, t) == v \in contract[t].direct

\* Another major version needs a declared bridge.
LastHop(v, t) == /\ v \in contract[t].direct
                 /\ Major[v] # Major[t] => v \in contract[t].bridges

PlanPath(s, t) ==
    IF s > t \/ s < contract[t].min THEN NoPath
    ELSE LET path == Stops(s, t) IN
         IF path = NoPath \/ At(s, path) = t THEN path
         ELSE IF LastHop(At(s, path), t) THEN Append(path, t) ELSE NoPath
-----------------------------------------------------------------------------
Init == /\ contract \in Contracts
        /\ source \in Versions /\ target \in Versions
        /\ \A r \in Versions : ValidContract(r, contract[r])

Hop == /\ source # target /\ PlanPath(source, target) # NoPath
       /\ source' = Head(PlanPath(source, target))
       /\ UNCHANGED <<contract, target>>

Next == Hop
Spec == Init /\ [][Next]_vars
-----------------------------------------------------------------------------
\* The reference: a set of stops is the right one when a stop belongs to it
\* just if the highest release before it, or else the source, meets its
\* condition.
RightStops(s, t) ==
    LET stops == contract[t].stops
        Before(S, i) == Max({s} \cup {stops[j].release : j \in {k \in S : k < i}})
    IN  {S \in SUBSET DOMAIN stops : \A i \in DOMAIN stops : i \in S <=> Before(S, i) \in stops[i].when}

\* A path visits exactly the required stops, in ascending order, then the
\* target, and every hop of it is one the release it leads to allows.
PathIsDeclared ==
    LET path == PlanPath(source, target)
        all == <<source>> \o path
    IN  path # NoPath =>
          /\ \A i \in DOMAIN path : all[i] < path[i] /\ all[i] \in contract[path[i]].direct
          /\ At(source, path) = target
          /\ source # target => Major[all[Len(path)]] = Major[target]
                                 \/ all[Len(path)] \in contract[target].bridges
          /\ \E S \in RightStops(source, target) :
                Range(path) \cup {source} =
                   {contract[target].stops[i].release : i \in S} \cup {source, target}

\* Conditions of stops name earlier releases only.
Sensible == \A i \in DOMAIN contract[target].stops :
               LET stop == contract[target].stops[i] IN
               \A v \in stop.when : v < stop.release

\* A plan made at a release on the way is the rest of the plan made at the
\* start, so a run that replans after each hop follows the same path.
ReplanningIsResuming ==
    [][Sensible => PlanPath(source', target) = Tail(PlanPath(source, target))]_vars
=============================================================================
