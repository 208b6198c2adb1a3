---------------------------- MODULE MCUpgradePlan ----------------------------
(***************************************************************************)
(* Every contract of release 4 with at most two required stops, over every *)
(* contract of releases 2 and 3 with none.  Ranges of versions are         *)
(* intervals, as the comparators of the contract language make them.       *)
(***************************************************************************)
EXTENDS UpgradePlan

MCVersions == 1..4
MCMajor == [v \in MCVersions |-> IF v < 4 THEN 1 ELSE 2]
Ranges == {r \in {lo..hi : lo \in MCVersions, hi \in MCVersions} : r # {}}
AStop == [when : Ranges, release : 1..3]
Plain(direct) == [min |-> 1, direct |-> direct, bridges |-> {}, stops |-> <<>>]

MCContracts ==
    {<<Plain({1}), Plain(d2), Plain(d3),
       [min |-> m, direct |-> d4, bridges |-> {2, 3}, stops |-> stops]>> :
         d2 \in {{1}, 1..2}, d3 \in {{2}, 1..2}, m \in 1..2, d4 \in {{3}, 1..3},
         stops \in {<<>>} \cup {<<s>> : s \in AStop} \cup {<<s, t>> : s, t \in AStop}}
=============================================================================
