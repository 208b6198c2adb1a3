-------------------------- MODULE UpgradePlanProofs --------------------------
(***************************************************************************)
(* What planUpgradePath guarantees for any releases and contracts, with    *)
(* any number of required stops.  The planner is a loop over the stops,    *)
(* here a recursive function; what it computes is proved by induction, as  *)
(* the absence of a first stop after which it would be otherwise.          *)
(***************************************************************************)
EXTENDS UpgradePlan, SequenceTheorems, WellFoundedInduction, TLAPS
-----------------------------------------------------------------------------
(* Induction, about sets of numbers.                                       *)

Less == {p \in Nat \X Nat : p[1] < p[2]}

LEMMA LessWellFounded == IsWellFoundedOn(Less, Nat)
BY NatLessThanWellFounded DEF OpToRel, Less

\* A set that has 0, and with each number below n the next one, has all up to n.
LEMMA Stepwise ==
    ASSUME NEW n \in Nat, NEW S, 0 \in S, \A i \in 0..n : i # n /\ i \in S => i + 1 \in S
    PROVE  \A i \in 0..n : i \in S
<1> DEFINE T == (0..n) \ S
<1> SUFFICES ASSUME T # {} PROVE FALSE
  OBVIOUS
<1>1. T \subseteq Nat
  OBVIOUS
<1>2. PICK x \in T : \A y \in T : <<y, x>> \notin Less
  <2> HIDE DEF T
  <2> QED
    BY <1>1, LessWellFounded, WFMin
<1>3. x \in 0..n /\ x \notin S /\ x # 0
  OBVIOUS
<1>4. x - 1 \in 0..n /\ x - 1 \in Nat /\ x \in Nat /\ x - 1 # n /\ x - 1 < x /\ (x - 1) + 1 = x
  BY <1>3
<1>5. <<x - 1, x>> \in Less
  BY <1>4 DEF Less
<1>6. x - 1 \notin T
  BY <1>2, <1>5
<1> QED
  BY <1>3, <1>4, <1>6
-----------------------------------------------------------------------------
(* The loop over the required stops.                                       *)

\* The contracts are valid, and do not change.
Planned == /\ contract \in [Versions -> Contract]
           /\ \A r \in Versions : ValidContract(r, contract[r])
           /\ source \in Versions /\ target \in Versions

StopsOf(t) == contract[t].stops
Places(t) == 1..Len(StopsOf(t))

LEMMA StopTypes ==
    ASSUME Planned, NEW t \in Versions
    PROVE  /\ StopsOf(t) \in Seq(Stop) /\ Len(StopsOf(t)) \in Nat
           /\ DOMAIN StopsOf(t) = Places(t)
           /\ \A i \in Places(t) :
                /\ StopsOf(t)[i].when \subseteq Versions /\ StopsOf(t)[i].release \in Versions
                /\ StopsOf(t)[i].release \in Nat /\ StopsOf(t)[i].release < t
<1>1. contract[t] \in Contract /\ ValidContract(t, contract[t])
  BY DEF Planned
<1>2. StopsOf(t) \in Seq(Stop)
  BY <1>1 DEF Contract, StopsOf
<1>3. Len(StopsOf(t)) \in Nat /\ DOMAIN StopsOf(t) = Places(t)
  BY <1>2, LenProperties DEF Places
<1>4. ASSUME NEW i \in Places(t)
      PROVE  /\ StopsOf(t)[i].when \subseteq Versions /\ StopsOf(t)[i].release \in Versions
             /\ StopsOf(t)[i].release \in Nat /\ StopsOf(t)[i].release < t
  <2>1. StopsOf(t)[i] \in Stop
    BY <1>2, ElementOfSeq DEF Places
  <2>2. StopsOf(t)[i].release < t
    BY <1>1, <1>3 DEF ValidContract, StopsOf
  <2> QED
    BY <2>1, <2>2, PlanAssumption DEF Stop
<1> QED
  BY <1>2, <1>3, <1>4

\* The releases of the stops ascend.
LEMMA StopsAscend ==
    ASSUME Planned, NEW t \in Versions, NEW i \in Places(t), NEW k \in Places(t), i < k
    PROVE  StopsOf(t)[i].release < StopsOf(t)[k].release
<1> DEFINE rel(j) == StopsOf(t)[j].release
           n == Len(StopsOf(t))
           S == {j \in 0..n : \A h \in 1..n : h < j => rel(h) < rel(j)}
<1>0. n \in Nat /\ Places(t) = 1..n /\ DOMAIN StopsOf(t) = 1..n /\ \A j \in 1..n : rel(j) \in Nat
  BY StopTypes DEF Places
<1>1. ASSUME NEW j \in 1..n, j > 1 PROVE rel(j - 1) < rel(j)
  BY <1>0, <1>1 DEF Planned, ValidContract, StopsOf
<1>2. 0 \in S
  BY <1>0
<1>3. ASSUME NEW j \in 0..n, j # n, j \in S PROVE j + 1 \in S
  <2>0. \A h \in 1..n : h < j => rel(h) < rel(j)
    BY <1>3
  <2> HIDE DEF rel
  <2>1. j \in Nat /\ j + 1 \in 1..n /\ (j + 1) - 1 = j /\ j + 1 \in 0..n
    <3> HIDE DEF n, S
    <3> QED
      BY <1>0, <1>3
  <2>2. ASSUME NEW h \in 1..n, h < j + 1 PROVE rel(h) < rel(j + 1)
    <3> HIDE DEF n, S
    <3>0. h \in Nat
      BY <1>0
    <3>1. j \in 1..n /\ j + 1 > 1
      BY <1>0, <2>1, <2>2, <3>0
    <3>2. rel(j) < rel(j + 1)
      BY <1>1, <2>1, <3>1
    <3>3. h = j \/ h < j
      BY <2>1, <2>2, <3>0
    <3>4. rel(h) \in Nat /\ rel(j) \in Nat /\ rel(j + 1) \in Nat
      BY <1>0, <2>1, <3>1
    <3> QED
      BY <2>0, <3>2, <3>3, <3>4
  <2> QED
    BY <2>1, <2>2
<1>4. \A j \in 0..n : j \in S
  <2> HIDE DEF S
  <2> QED
    BY <1>0, <1>2, <1>3, Stepwise
<1> QED
  BY <1>0, <1>4

\* The function that Walk defines exists.
LEMMA WalkDef ==
    ASSUME Planned, NEW s \in Versions, NEW t \in Versions
    PROVE  Walk(s, t) = [i \in 0..Len(StopsOf(t)) |->
             IF i = 0 THEN <<>> ELSE Take(s, Walk(s, t)[i - 1], StopsOf(t)[i])]
<1> DEFINE n == Len(StopsOf(t))
           G(k, w) == w = [i \in 0..k |-> IF i = 0 THEN <<>>
                                         ELSE Take(s, w[i - 1], StopsOf(t)[i])]
           S == {k \in 0..n : \E w : G(k, w)}
<1>0. n \in Nat
  BY StopTypes
<1>1. 0 \in S
  <2>1. G(0, [i \in 0..0 |-> <<>>])
    OBVIOUS
  <2>2. 0 \in 0..n
    BY <1>0
  <2> HIDE DEF n, G
  <2> QED
    BY <2>1, <2>2
<1>2. ASSUME NEW k \in 0..n, k # n, k \in S PROVE k + 1 \in S
  <2>1. PICK w : G(k, w)
    BY <1>2
  <2> DEFINE v == [i \in 0..(k + 1) |-> IF i = k + 1 THEN Take(s, w[k], StopsOf(t)[k + 1])
                                        ELSE w[i]]
  <2>2. \A i \in 0..(k + 1) :
          v[i] = IF i = 0 THEN <<>> ELSE Take(s, v[i - 1], StopsOf(t)[i])
    <3>1. ASSUME NEW i \in 0..k
          PROVE  v[i] = IF i = 0 THEN <<>> ELSE Take(s, v[i - 1], StopsOf(t)[i])
      <4>1. v[i] = w[i] /\ (i # 0 => v[i - 1] = w[i - 1])
        BY <3>1
      <4>2. w[i] = IF i = 0 THEN <<>> ELSE Take(s, w[i - 1], StopsOf(t)[i])
        BY <2>1
      <4> HIDE DEF v
      <4> QED
        BY <4>1, <4>2
    <3>2. v[k + 1] = Take(s, v[k], StopsOf(t)[k + 1])
      OBVIOUS
    <3> HIDE DEF v
    <3>3. (k + 1) - 1 = k /\ k + 1 # 0
      OBVIOUS
    <3> QED
      BY <3>1, <3>2, <3>3
  <2>3. v = [i \in 0..(k + 1) |-> v[i]]
    OBVIOUS
  <2>4. G(k + 1, v)
    <3> HIDE DEF v
    <3> QED
      BY <2>2, <2>3
  <2>5. k + 1 \in 0..n
    BY <1>0, <1>2
  <2> QED
    BY <2>4, <2>5
<1>3. \E w : G(n, w)
  <2>1. \A k \in 0..n : k \in S
    <3> HIDE DEF S
    <3> QED
      BY <1>0, <1>1, <1>2, Stepwise
  <2> QED
    BY <1>0, <2>1
<1>4. Walk(s, t) = CHOOSE w : G(n, w)
  BY DEF Walk, StopsOf
<1> HIDE DEF G
<1>5. G(n, CHOOSE w : G(n, w))
  BY <1>3
<1>6. G(n, Walk(s, t))
  BY <1>4, <1>5
<1> QED
  BY <1>6 DEF G

\* The path after no stop, and after one more.
LEMMA WalkStep ==
    ASSUME Planned, NEW s \in Versions, NEW t \in Versions
    PROVE  /\ Walk(s, t)[0] = <<>>
           /\ \A i \in Places(t) :
                /\ i - 1 \in 0..Len(StopsOf(t))
                /\ Walk(s, t)[i] = Take(s, Walk(s, t)[i - 1], StopsOf(t)[i])
<1> DEFINE w == Walk(s, t)
<1>0. Len(StopsOf(t)) \in Nat
  BY StopTypes
<1>1. w = [i \in 0..Len(StopsOf(t)) |->
             IF i = 0 THEN <<>> ELSE Take(s, w[i - 1], StopsOf(t)[i])]
  BY WalkDef
<1> HIDE DEF w
<1>2. w[0] = <<>>
  BY <1>0, <1>1
<1>3. ASSUME NEW i \in Places(t)
      PROVE  i - 1 \in 0..Len(StopsOf(t)) /\ w[i] = Take(s, w[i - 1], StopsOf(t)[i])
  <2>1. i \in 0..Len(StopsOf(t)) /\ i # 0 /\ i - 1 \in 0..Len(StopsOf(t))
    BY <1>0 DEF Places
  <2> QED
    BY <1>1, <2>1
<1> QED
  BY <1>2, <1>3 DEF w
-----------------------------------------------------------------------------
(* Paths.                                                                  *)

\* The release before the k-th of a path from s.
Prev(s, path, k) == IF k = 1 THEN s ELSE path[k - 1]

\* Every release of a path is above the one before it, and allows it directly.
Hops(s, path) == \A k \in 1..Len(path) :
                    /\ Prev(s, path, k) < path[k]
                    /\ Prev(s, path, k) \in contract[path[k]].direct

\* A path from s has arrived at the last of its releases.
LEMMA Arrived ==
    ASSUME NEW s \in Versions, NEW path \in Seq(Versions)
    PROVE  /\ At(s, path) \in Versions /\ At(s, path) \in Nat /\ s \in Nat
           /\ Len(path) \in Nat /\ DOMAIN path = 1..Len(path) /\ path # NoPath
           /\ \A k \in 1..Len(path) : path[k] \in Versions /\ path[k] \in Nat
           /\ At(s, path) = Prev(s, path, Len(path) + 1)
           /\ At(s, path) = s \/ At(s, path) \in Range(path)
           /\ Range(path) \subseteq Versions
<1>1. Len(path) \in Nat /\ DOMAIN path = 1..Len(path)
  BY LenProperties
<1>2. \A k \in 1..Len(path) : path[k] \in Versions
  BY ElementOfSeq
<1>3. path # NoPath /\ Versions \subseteq Nat
  BY PlanAssumption
<1>4. Range(path) \subseteq Versions
  BY <1>1, <1>2 DEF Range
<1>5. CASE path = <<>>
  <2>1. At(s, path) = s /\ Len(path) = 0
    BY <1>5 DEF At
  <2> QED
    BY <1>1, <1>2, <1>3, <1>4, <2>1 DEF Prev
<1>6. CASE path # <<>>
  <2>1. Len(path) # 0
    BY <1>6, EmptySeq
  <2>2. At(s, path) = path[Len(path)]
    BY <1>6 DEF At, Last
  <2>3. Len(path) \in 1..Len(path)
    BY <1>1, <2>1
  <2>4. path[Len(path)] \in Range(path)
    BY <1>1, <2>3 DEF Range
  <2>5. Prev(s, path, Len(path) + 1) = path[Len(path)]
    BY <1>1, <2>1 DEF Prev
  <2> QED
    BY <1>1, <1>2, <1>3, <1>4, <2>2, <2>3, <2>4, <2>5
<1> QED
  BY <1>5, <1>6

\* A path that goes one release further.
LEMMA Further ==
    ASSUME NEW s \in Versions, NEW path \in Seq(Versions), NEW r \in Versions
    PROVE  /\ Append(path, r) \in Seq(Versions) /\ Append(path, r) # <<>>
           /\ Len(Append(path, r)) = Len(path) + 1
           /\ \A k \in 1..Len(path) : Append(path, r)[k] = path[k]
           /\ Append(path, r)[Len(path) + 1] = r
           /\ At(s, Append(path, r)) = r
           /\ Range(Append(path, r)) = Range(path) \cup {r}
           /\ \A k \in 1..Len(path) + 1 : Prev(s, Append(path, r), k) = Prev(s, path, k)
<1> DEFINE new == Append(path, r)
<1>1. /\ new \in Seq(Versions) /\ Len(new) = Len(path) + 1 /\ Len(path) \in Nat
      /\ \A k \in 1..Len(path) : new[k] = path[k]
      /\ new[Len(path) + 1] = r
  BY AppendProperties, LenProperties
<1> HIDE DEF new
<1>2. DOMAIN new = 1..Len(path) + 1 /\ DOMAIN path = 1..Len(path)
  BY <1>1, LenProperties
<1>3. new # <<>>
  BY <1>1, EmptySeq
<1>4. At(s, new) = r
  BY <1>1, <1>3 DEF At, Last
<1>5. Range(new) = Range(path) \cup {r}
  <2>1. 1..Len(path) + 1 = (1..Len(path)) \cup {Len(path) + 1}
    BY <1>1
  <2> QED
    BY <1>1, <1>2, <2>1 DEF Range
<1>6. \A k \in 1..Len(path) + 1 : Prev(s, new, k) = Prev(s, path, k)
  <2>1. ASSUME NEW k \in 1..Len(path) + 1, k # 1 PROVE k - 1 \in 1..Len(path)
    BY <1>1, <2>1
  <2> QED
    BY <1>1, <2>1 DEF Prev
<1> QED
  BY <1>1, <1>3, <1>4, <1>5, <1>6 DEF new

\* One more hop to a release that allows it.
LEMMA HopsFurther ==
    ASSUME NEW s \in Versions, NEW path \in Seq(Versions), NEW r \in Versions,
           Hops(s, path), At(s, path) < r, At(s, path) \in contract[r].direct
    PROVE  Hops(s, Append(path, r))
<1> DEFINE new == Append(path, r)
<1>1. /\ Len(path) \in Nat /\ Len(new) = Len(path) + 1
      /\ new[Len(path) + 1] = r /\ At(s, path) = Prev(s, path, Len(path) + 1)
      /\ \A k \in 1..Len(path) : new[k] = path[k]
      /\ \A k \in 1..Len(path) + 1 : Prev(s, new, k) = Prev(s, path, k)
  BY Arrived, Further
<1> HIDE DEF new
<1>2. \A k \in 1..Len(path) + 1 : k \in 1..Len(path) \/ k = Len(path) + 1
  BY <1>1
<1>3. \A k \in 1..Len(path) + 1 : Prev(s, new, k) < new[k] /\ Prev(s, new, k) \in contract[new[k]].direct
  <2> TAKE k \in 1..Len(path) + 1
  <2>1. CASE k \in 1..Len(path)
    BY <1>1, <2>1 DEF Hops
  <2>2. CASE k = Len(path) + 1
    BY <1>1, <2>2
  <2> QED
    BY <1>2, <2>1, <2>2
<1> QED
  BY <1>1, <1>3 DEF Hops, new

\* The stops that apply where the path has arrived when it is their turn, and
\* the releases of those up to the i-th.
Applied(s, t) == {j \in Places(t) : At(s, Walk(s, t)[j - 1]) \in StopsOf(t)[j].when}
Reached(s, t, i) == {StopsOf(t)[j].release : j \in {k \in Applied(s, t) : k <= i}}

\* What the path is after the i-th stop.
Walked(s, t, i) ==
    LET path == Walk(s, t)[i] IN
    path # NoPath =>
       /\ path \in Seq(Versions) /\ Hops(s, path)
       /\ Range(path) = Reached(s, t, i)
       /\ \A v \in {s} \cup Range(path) : v <= At(s, path)
       /\ \A j \in 0..i : Walk(s, t)[j] # NoPath

LEMMA NoneWalked ==
    ASSUME Planned, NEW s \in Versions, NEW t \in Versions
    PROVE  Walked(s, t, 0)
<1>1. Walk(s, t)[0] = <<>> /\ <<>> \in Seq(Versions) /\ Len(<<>>) = 0
  BY WalkStep, EmptySeq
<1>2. Hops(s, <<>>)
  BY <1>1 DEF Hops
<1>3. At(s, <<>>) = s /\ s <= s
  BY PlanAssumption DEF At
<1>4. Range(<<>>) = {}
  BY DEF Range
<1>5. Reached(s, t, 0) = {}
  BY StopTypes DEF Reached, Applied, Places
<1>6. <<>> # NoPath
  BY <1>1, PlanAssumption
<1>7. \A j \in 0..0 : j = 0
  OBVIOUS
<1> QED
  BY <1>1, <1>2, <1>3, <1>4, <1>5, <1>6, <1>7 DEF Walked

LEMMA WalkedOne ==
    ASSUME Planned, NEW s \in Versions, NEW t \in Versions, NEW i \in Places(t),
           Walked(s, t, i - 1)
    PROVE  Walked(s, t, i)
<1> DEFINE w == Walk(s, t)
           stop == StopsOf(t)[i]
<1>0. i \in Nat \ {0} /\ \A j \in 0..i : j \in 0..(i - 1) \/ j = i
  BY StopTypes DEF Places
<1>1. w[i] = Take(s, w[i - 1], stop)
  BY WalkStep
<1>2. stop.release \in Versions
  BY StopTypes
<1>3. SUFFICES ASSUME w[i] # NoPath PROVE Walked(s, t, i)
  BY DEF Walked
<1> HIDE DEF w, stop
<1>4. w[i - 1] # NoPath
  BY <1>1, <1>3 DEF Take
<1>5. /\ w[i - 1] \in Seq(Versions) /\ Hops(s, w[i - 1])
      /\ Range(w[i - 1]) = Reached(s, t, i - 1)
      /\ \A v \in {s} \cup Range(w[i - 1]) : v <= At(s, w[i - 1])
      /\ \A j \in 0..i : w[j] # NoPath
  BY <1>0, <1>3, <1>4 DEF Walked, w
<1>6. i \in Applied(s, t) <=> At(s, w[i - 1]) \in stop.when
  BY DEF Applied, w, stop
<1>7. \A k \in Applied(s, t) : k <= i <=> (k <= i - 1 \/ k = i)
  BY <1>0, StopTypes DEF Applied, Places
<1>8. Reached(s, t, i) = Reached(s, t, i - 1) \cup (IF i \in Applied(s, t) THEN {stop.release} ELSE {})
  <2>1. {k \in Applied(s, t) : k <= i} = {k \in Applied(s, t) : k <= i - 1}
                                         \cup (IF i \in Applied(s, t) THEN {i} ELSE {})
    BY <1>0, <1>7
  <2> QED
    BY <2>1 DEF Reached, stop
<1>9. CASE At(s, w[i - 1]) \notin stop.when
  <2>1. w[i] = w[i - 1]
    BY <1>1, <1>9 DEF Take
  <2>2. Reached(s, t, i) = Reached(s, t, i - 1)
    BY <1>6, <1>8, <1>9
  <2> QED
    BY <1>5, <2>1, <2>2 DEF Walked, w
<1>10. CASE At(s, w[i - 1]) \in stop.when
  <2>1. /\ At(s, w[i - 1]) < stop.release
        /\ At(s, w[i - 1]) \in contract[stop.release].direct
        /\ w[i] = Append(w[i - 1], stop.release)
    BY <1>1, <1>3, <1>4, <1>10 DEF Take
  <2>2. w[i] \in Seq(Versions) /\ At(s, w[i]) = stop.release
        /\ Range(w[i]) = Range(w[i - 1]) \cup {stop.release}
    BY <1>2, <1>5, <2>1, Further
  <2>3. Hops(s, w[i])
    BY <1>2, <1>5, <2>1, HopsFurther
  <2>4. Range(w[i]) = Reached(s, t, i)
    BY <1>5, <1>6, <1>8, <1>10, <2>2
  <2>5. \A v \in {s} \cup Range(w[i]) : v <= At(s, w[i])
    <3>1. {s} \cup Range(w[i - 1]) \subseteq Nat /\ At(s, w[i - 1]) \in Nat /\ stop.release \in Nat
      BY <1>2, <1>5, Arrived, PlanAssumption
    <3>2. ASSUME NEW v \in {s} \cup Range(w[i - 1]) PROVE v <= stop.release
      <4>1. v \in Nat /\ v <= At(s, w[i - 1])
        BY <1>5, <3>1
      <4> QED
        BY <2>1, <3>1, <4>1
    <3> QED
      BY <2>2, <3>1, <3>2
  <2> QED
    BY <1>5, <2>2, <2>3, <2>4, <2>5 DEF Walked, w
<1> QED
  BY <1>9, <1>10

LEMMA WalkedAll ==
    ASSUME Planned, NEW s \in Versions, NEW t \in Versions
    PROVE  \A i \in 0..Len(StopsOf(t)) : Walked(s, t, i)
<1> DEFINE n == Len(StopsOf(t))
           S == {i \in 0..n : Walked(s, t, i)}
<1>0. n \in Nat /\ Places(t) = 1..n
  BY StopTypes DEF Places
<1>1. 0 \in S
  BY <1>0, NoneWalked
<1>2. ASSUME NEW i \in 0..n, i # n, i \in S PROVE i + 1 \in S
  <2>1. Walked(s, t, i)
    BY <1>2
  <2> HIDE DEF n
  <2>2. i + 1 \in 1..n /\ i + 1 \in 0..n /\ (i + 1) - 1 = i
    BY <1>0, <1>2
  <2>3. Walked(s, t, i + 1)
    BY <1>0, <2>1, <2>2, WalkedOne
  <2> QED
    BY <2>2, <2>3
<1>3. \A i \in 0..n : i \in S
  <2> HIDE DEF n, S
  <2> QED
    BY <1>0, <1>1, <1>2, Stepwise
<1> QED
  BY <1>3
-----------------------------------------------------------------------------
(* The whole plan.                                                         *)

\* The stops that apply are the right ones.
LEMMA AppliedIsRight ==
    ASSUME Planned, NEW s \in Versions, NEW t \in Versions, Stops(s, t) # NoPath
    PROVE  Applied(s, t) \in RightStops(s, t)
<1> DEFINE n == Len(StopsOf(t))
           w == Walk(s, t)
           S == Applied(s, t)
           before(i) == {s} \cup {StopsOf(t)[j].release : j \in {k \in S : k < i}}
<1>0. n \in Nat /\ Places(t) = 1..n /\ DOMAIN StopsOf(t) = 1..n
  BY StopTypes DEF Places
<1>1. \A i \in 0..n : Walked(s, t, i)
  BY WalkedAll
<1>2. \A i \in 0..n : w[i] # NoPath
  BY <1>0, <1>1 DEF Walked, Stops, StopsOf
<1>3. ASSUME NEW i \in Places(t) PROVE Max(before(i)) = At(s, w[i - 1])
  <2>1. i - 1 \in 0..n /\ \A k \in S : k < i <=> k <= i - 1
    BY <1>0 DEF Applied
  <2>2. /\ w[i - 1] \in Seq(Versions) /\ Range(w[i - 1]) = Reached(s, t, i - 1)
        /\ \A v \in {s} \cup Range(w[i - 1]) : v <= At(s, w[i - 1])
    BY <1>1, <1>2, <2>1 DEF Walked
  <2>3. before(i) = {s} \cup Range(w[i - 1])
    BY <2>1, <2>2 DEF Reached
  <2>4. /\ At(s, w[i - 1]) \in before(i) /\ before(i) \subseteq Nat
        /\ \A v \in before(i) : v <= At(s, w[i - 1])
    BY <2>2, <2>3, Arrived, PlanAssumption
  <2> HIDE DEF before, w
  <2>5. \E x \in before(i) : \A y \in before(i) : x >= y
    BY <2>4
  <2>6. Max(before(i)) \in before(i) /\ \A y \in before(i) : Max(before(i)) >= y
    BY <2>5 DEF Max
  <2> QED
    BY <2>4, <2>6
<1>4. \A i \in Places(t) : i \in S <=> Max(before(i)) \in StopsOf(t)[i].when
  BY <1>3 DEF Applied
<1>5. S \in SUBSET DOMAIN StopsOf(t)
  BY <1>0 DEF Applied
<1> QED
  BY <1>0, <1>4, <1>5 DEF RightStops, StopsOf

\* The path the stops make, with what it has to do with the target.
LEMMA StopsWalked ==
    ASSUME Planned, NEW s \in Versions, NEW t \in Versions, Stops(s, t) # NoPath
    PROVE  /\ Stops(s, t) \in Seq(Versions) /\ Hops(s, Stops(s, t))
           /\ Range(Stops(s, t)) = {StopsOf(t)[j].release : j \in Applied(s, t)}
           /\ \A v \in Range(Stops(s, t)) : v < t
           /\ s <= At(s, Stops(s, t))
<1> DEFINE n == Len(StopsOf(t))
           path == Stops(s, t)
<1>0. n \in Nat /\ Places(t) = 1..n /\ n \in 0..n /\ path = Walk(s, t)[n]
  BY StopTypes DEF Places, Stops, StopsOf
<1>1. Walked(s, t, n)
  BY <1>0, WalkedAll
<1>2. path \in Seq(Versions) /\ Hops(s, path) /\ Range(path) = Reached(s, t, n) /\ s <= At(s, path)
  BY <1>0, <1>1 DEF Walked
<1>3. {k \in Applied(s, t) : k <= n} = Applied(s, t)
  BY <1>0 DEF Applied
<1>4. Range(path) = {StopsOf(t)[j].release : j \in Applied(s, t)}
  BY <1>2, <1>3 DEF Reached
<1>5. \A j \in Applied(s, t) : StopsOf(t)[j].release < t
  BY StopTypes DEF Applied
<1> QED
  BY <1>2, <1>4, <1>5

\* When there is a plan, its stops are made, and what the target asks of its
\* last hop.
LEMMA PlanMade ==
    ASSUME Planned, NEW s \in Versions, NEW t \in Versions, PlanPath(s, t) # NoPath
    PROVE  /\ s <= t /\ Stops(s, t) # NoPath /\ Stops(s, t) \in Seq(Versions)
           /\ IF s = t THEN Stops(s, t) = <<>> /\ PlanPath(s, t) = <<>>
              ELSE /\ At(s, Stops(s, t)) < t /\ LastHop(At(s, Stops(s, t)), t)
                   /\ PlanPath(s, t) = Append(Stops(s, t), t)
<1> DEFINE path == Stops(s, t)
<1>1. s <= t /\ path # NoPath
  BY PlanAssumption DEF PlanPath
<1>2. path \in Seq(Versions) /\ (\A v \in Range(path) : v < t) /\ s <= At(s, path)
  BY <1>1, StopsWalked
<1>3. At(s, path) \in Nat /\ s \in Nat /\ t \in Nat
      /\ (At(s, path) = s \/ At(s, path) \in Range(path))
  BY <1>2, Arrived, PlanAssumption
<1>4. path # <<>> => At(s, path) \in Range(path)
  <2>1. SUFFICES ASSUME path # <<>> PROVE At(s, path) \in Range(path)
    OBVIOUS
  <2>2. Len(path) \in DOMAIN path /\ At(s, path) = path[Len(path)]
    BY <1>2, <2>1, EmptySeq, LenProperties DEF At, Last
  <2> QED
    BY <2>2 DEF Range
<1>5. At(s, path) <= t
  BY <1>1, <1>2, <1>3
<1>6. CASE At(s, path) = t
  <2>1. path = <<>>
    BY <1>2, <1>3, <1>4, <1>6
  <2>2. s = t
    BY <1>6, <2>1 DEF At
  <2>3. PlanPath(s, t) = path
    BY <1>6, <1>1 DEF PlanPath
  <2> QED
    BY <1>1, <1>2, <2>1, <2>2, <2>3
<1>7. CASE At(s, path) # t
  <2>1. At(s, path) < t
    BY <1>3, <1>5, <1>7
  <2>2. LastHop(At(s, path), t) /\ PlanPath(s, t) = Append(path, t)
    BY <1>1, <1>7 DEF PlanPath
  <2>3. s # t
    BY <1>2, <1>3, <2>1
  <2> QED
    BY <1>1, <1>2, <2>1, <2>2, <2>3
<1> QED
  BY <1>6, <1>7

\* The releases gone through, with the source before them.
LEMMA AllOf ==
    ASSUME NEW s \in Versions, NEW path \in Seq(Versions)
    PROVE  \A k \in 1..Len(path) + 1 : (<<s>> \o path)[k] = Prev(s, path, k)
<1>1. <<s>> \in Seq(Versions) /\ Len(<<s>>) = 1 /\ <<s>>[1] = s /\ Len(path) \in Nat
  BY LenProperties
<1>2. /\ Len(<<s>> \o path) = 1 + Len(path)
      /\ \A k \in 1..Len(path) + 1 : (<<s>> \o path)[k] = IF k <= 1 THEN <<s>>[k] ELSE path[k - 1]
  <2>1. /\ Len(<<s>> \o path) = Len(<<s>>) + Len(path)
        /\ \A k \in 1..Len(<<s>>) + Len(path) :
              (<<s>> \o path)[k] = IF k <= Len(<<s>>) THEN <<s>>[k] ELSE path[k - Len(<<s>>)]
    BY <1>1, ConcatProperties
  <2>2. Len(<<s>>) + Len(path) = Len(path) + 1 /\ 1 + Len(path) = Len(path) + 1
    BY <1>1
  <2> QED
    BY <1>1, <2>1, <2>2
<1>3. \A k \in 1..Len(path) + 1 : k <= 1 <=> k = 1
  BY <1>1
<1> QED
  BY <1>1, <1>2, <1>3 DEF Prev

\* A plan from a release, to the target.
LEMMA PlanWalked ==
    ASSUME Planned, NEW s \in Versions, NEW t \in Versions, PlanPath(s, t) # NoPath
    PROVE  /\ PlanPath(s, t) \in Seq(Versions) /\ Hops(s, PlanPath(s, t))
           /\ At(s, PlanPath(s, t)) = t
           /\ Range(PlanPath(s, t)) \cup {s} = Range(Stops(s, t)) \cup {s, t}
           /\ (s # t => Prev(s, PlanPath(s, t), Len(PlanPath(s, t))) = At(s, Stops(s, t)))
<1> DEFINE path == PlanPath(s, t)
           stops == Stops(s, t)
<1>1. stops \in Seq(Versions) /\ Hops(s, stops)
  BY PlanMade, StopsWalked
<1>2. IF s = t THEN stops = <<>> /\ path = <<>>
      ELSE At(s, stops) < t /\ LastHop(At(s, stops), t) /\ path = Append(stops, t)
  BY PlanMade
<1>3. CASE s = t
  BY <1>1, <1>2, <1>3 DEF At
<1>4. CASE s # t
  <2>1. path \in Seq(Versions) /\ At(s, path) = t /\ Range(path) = Range(stops) \cup {t}
    <3>1. path = Append(stops, t) /\ s \in Versions /\ t \in Versions /\ stops \in Seq(Versions)
      BY <1>1, <1>2, <1>4
    <3> HIDE DEF path, stops
    <3> QED
      BY <3>1, Further
  <2>2. Hops(s, path)
    BY <1>1, <1>2, <1>4, HopsFurther DEF LastHop
  <2>3. Prev(s, path, Len(path)) = At(s, stops)
    <3>1. Len(path) = Len(stops) + 1 /\ Len(stops) \in Nat /\ path = Append(stops, t)
      BY <1>1, <1>2, <1>4, Further, LenProperties
    <3>2. \A k \in 1..Len(stops) + 1 : Prev(s, path, k) = Prev(s, stops, k)
      <4> HIDE DEF stops
      <4>1. path = Append(stops, t) /\ s \in Versions /\ t \in Versions /\ stops \in Seq(Versions)
        BY <1>1, <3>1
      <4> HIDE DEF path
      <4> QED
        BY <4>1, Further
    <3>3. Len(stops) + 1 \in 1..Len(stops) + 1
      BY <3>1
    <3>4. At(s, stops) = Prev(s, stops, Len(stops) + 1)
      BY <1>1, Arrived
    <3> HIDE DEF path, stops
    <3> QED
      BY <3>1, <3>2, <3>3, <3>4
  <2> QED
    BY <2>1, <2>2, <2>3
<1> QED
  BY <1>3, <1>4

\* A plan is declared.
LEMMA PlanDeclared ==
    ASSUME Planned
    PROVE  PathIsDeclared
<1> DEFINE s == source
           t == target
           path == PlanPath(s, t)
           stops == Stops(s, t)
           all == <<s>> \o path
<1>0. s \in Versions /\ t \in Versions
  BY DEF Planned
<1>1. SUFFICES ASSUME path # NoPath PROVE PathIsDeclared
  BY DEF PathIsDeclared
<1>2. /\ stops # NoPath /\ stops \in Seq(Versions) /\ Hops(s, stops)
      /\ Range(stops) = {StopsOf(t)[j].release : j \in Applied(s, t)}
      /\ Applied(s, t) \in RightStops(s, t)
  BY <1>0, <1>1, PlanMade, StopsWalked, AppliedIsRight
<1>3. IF s = t THEN stops = <<>> /\ path = <<>>
      ELSE At(s, stops) < t /\ LastHop(At(s, stops), t) /\ path = Append(stops, t)
  BY <1>0, <1>1, PlanMade
<1>4. /\ path \in Seq(Versions) /\ Hops(s, path) /\ At(s, path) = t
      /\ Range(path) \cup {s} = Range(stops) \cup {s, t}
      /\ (s # t => Prev(s, path, Len(path)) = At(s, stops))
  BY <1>0, <1>1, PlanWalked
<1>5. Len(path) \in Nat /\ DOMAIN path = 1..Len(path) /\ \A k \in 1..Len(path) + 1 : all[k] = Prev(s, path, k)
  BY <1>0, <1>4, AllOf, LenProperties
<1>6. \A k \in DOMAIN path : all[k] < path[k] /\ all[k] \in contract[path[k]].direct
  <2> HIDE DEF path, all
  <2>1. \A k \in DOMAIN path : k \in 1..Len(path) /\ k \in 1..Len(path) + 1
    BY <1>5
  <2> QED
    BY <1>4, <1>5, <2>1 DEF Hops
<1>7. s # t => Major[all[Len(path)]] = Major[t] \/ all[Len(path)] \in contract[t].bridges
  <2>1. SUFFICES ASSUME s # t PROVE Major[all[Len(path)]] = Major[t] \/ all[Len(path)] \in contract[t].bridges
    OBVIOUS
  <2>2. Len(path) = Len(stops) + 1 /\ Len(stops) \in Nat
    BY <1>0, <1>2, <1>3, <2>1, Further, LenProperties
  <2>3. Len(path) \in 1..Len(path) + 1
    BY <2>2
  <2>4. all[Len(path)] = At(s, stops)
    BY <1>4, <1>5, <2>1, <2>3
  <2> QED
    BY <1>3, <2>1, <2>4 DEF LastHop
<1>8. \E S \in RightStops(s, t) :
         Range(path) \cup {s} = {contract[t].stops[i].release : i \in S} \cup {s, t}
  <2>1. Range(path) \cup {s} = {contract[t].stops[i].release : i \in Applied(s, t)} \cup {s, t}
    BY <1>2, <1>4 DEF StopsOf
  <2> QED
    BY <1>2, <2>1
<1> QED
  BY <1>4, <1>6, <1>7, <1>8 DEF PathIsDeclared
-----------------------------------------------------------------------------
(* Plans made on the way.                                                  *)

\* A path without its first release.
LEMMA Remaining ==
    ASSUME NEW path \in Seq(Versions), path # <<>>
    PROVE  /\ Head(path) \in Versions /\ Head(path) \in Range(path)
           /\ Tail(path) \in Seq(Versions)
           /\ \A s \in Versions : At(Head(path), Tail(path)) = At(s, path)
           /\ \A r \in Versions : /\ Head(Append(path, r)) = Head(path)
                                  /\ Tail(Append(path, r)) = Append(Tail(path), r)
<1>1. /\ Len(path) \in Nat \ {0} /\ DOMAIN path = 1..Len(path)
      /\ \A k \in 1..Len(path) : path[k] \in Versions
  BY EmptySeq, LenProperties, ElementOfSeq
<1>2. Head(path) = path[1] /\ 1 \in 1..Len(path)
  BY <1>1, HeadTailProperties
<1>3. /\ Tail(path) \in Seq(Versions) /\ Len(Tail(path)) = Len(path) - 1
      /\ \A k \in 1..Len(Tail(path)) : Tail(path)[k] = path[k + 1]
  BY HeadTailProperties
<1>4. ASSUME NEW s \in Versions PROVE At(Head(path), Tail(path)) = At(s, path)
  <2>1. At(s, path) = path[Len(path)]
    BY DEF At, Last
  <2>2. CASE Tail(path) = <<>>
    <3>1. Len(path) = 1
      <4> DEFINE rest == Tail(path)
      <4>1. rest = <<>> /\ Len(rest) = Len(path) - 1
        BY <1>3, <2>2
      <4> HIDE DEF rest
      <4>2. Len(rest) = 0
        BY <4>1
      <4> DEFINE a == Len(path)
      <4>3. a \in Nat /\ a - 1 = 0
        BY <1>1, <4>1, <4>2
      <4>4. a = 1
        <5> HIDE DEF a
        <5> QED
          BY <4>3
      <4> QED
        BY <4>4
    <3> QED
      BY <1>2, <2>1, <2>2, <3>1 DEF At
  <2>3. CASE Tail(path) # <<>>
    <3>1. At(Head(path), Tail(path)) = Tail(path)[Len(path) - 1]
      BY <1>3, <2>3 DEF At, Last
    <3>2. Len(path) - 1 \in 1..Len(Tail(path)) /\ (Len(path) - 1) + 1 = Len(path)
      <4>1. Len(Tail(path)) # 0
        BY <1>3, <2>3, EmptySeq
      <4> QED
        BY <1>1, <1>3, <4>1
    <3> QED
      BY <1>3, <2>1, <3>1, <3>2
  <2> QED
    BY <2>2, <2>3
<1>5. ASSUME NEW r \in Versions
      PROVE  Head(Append(path, r)) = Head(path) /\ Tail(Append(path, r)) = Append(Tail(path), r)
  BY HeadTailAppend
<1> QED
  BY <1>1, <1>2, <1>3, <1>4, <1>5 DEF Range

\* A path of one release.
LEMMA OneRelease ==
    ASSUME NEW r \in Versions
    PROVE  Head(Append(<<>>, r)) = r /\ Tail(Append(<<>>, r)) = <<>>
BY HeadTailAppend

\* The first release of the path stays its first.
LEMMA HeadStays ==
    ASSUME Planned, NEW s \in Versions, NEW t \in Versions, Stops(s, t) # NoPath,
           NEW i \in 0..Len(StopsOf(t)), Walk(s, t)[i] # <<>>
    PROVE  Stops(s, t) # <<>> /\ Head(Stops(s, t)) = Head(Walk(s, t)[i])
<1> DEFINE n == Len(StopsOf(t))
           w == Walk(s, t)
           Kept(k) == i <= k => w[k] # <<>> /\ Head(w[k]) = Head(w[i])
           S == {k \in 0..n : Kept(k)}
<1>0. n \in Nat /\ Places(t) = 1..n /\ n \in 0..n /\ Stops(s, t) = w[n]
  BY StopTypes DEF Places, Stops, StopsOf
<1>1. \A k \in 0..n : Walked(s, t, k)
  BY WalkedAll
<1>2. \A k \in 0..n : w[k] # NoPath /\ w[k] \in Seq(Versions)
  BY <1>0, <1>1 DEF Walked
<1>3. w[0] = <<>> /\ \A k \in 1..n : k - 1 \in 0..n /\ w[k] = Take(s, w[k - 1], StopsOf(t)[k])
  BY <1>0, WalkStep
<1>4. \A k \in 1..n : StopsOf(t)[k].release \in Versions
  BY <1>0, StopTypes
<1>4a. w[i] # <<>> /\ i \in 0..n
  OBVIOUS
<1> HIDE DEF w
<1>5. 0 \in S
  <2>1. i # 0
    BY <1>3, <1>4a
  <2>2. 0 \in 0..n /\ ~ (i <= 0)
    BY <1>0, <2>1
  <2> QED
    BY <2>2
<1>6. ASSUME NEW k \in 0..n, k # n, k \in S PROVE k + 1 \in S
  <2>0. Kept(k)
    BY <1>6
  <2> HIDE DEF n
  <2>1. k + 1 \in 1..n /\ k + 1 \in 0..n /\ (k + 1) - 1 = k /\ i \in Nat /\ k \in Nat
    BY <1>0, <1>6 DEF n
  <2>2. w[k + 1] = Take(s, w[k], StopsOf(t)[k + 1])
    BY <1>3, <2>1
  <2>3. SUFFICES ASSUME i <= k + 1, i # k + 1 PROVE w[k + 1] # <<>> /\ Head(w[k + 1]) = Head(w[i])
    BY <1>4a, <2>1
  <2>4. w[k] # <<>> /\ Head(w[k]) = Head(w[i])
    BY <2>0, <2>1, <2>3
  <2>5. w[k] \in Seq(Versions) /\ StopsOf(t)[k + 1].release \in Versions
    BY <1>2, <1>4, <2>1
  <2>6. w[k + 1] = w[k] \/ w[k + 1] = Append(w[k], StopsOf(t)[k + 1].release)
    BY <1>2, <2>1, <2>2 DEF Take
  <2>7. CASE w[k + 1] = Append(w[k], StopsOf(t)[k + 1].release)
    <3>1. /\ Append(w[k], StopsOf(t)[k + 1].release) # <<>>
          /\ Head(Append(w[k], StopsOf(t)[k + 1].release)) = Head(w[k])
      BY <2>4, <2>5, Remaining, Further
    <3> QED
      BY <2>4, <2>7, <3>1
  <2> QED
    BY <2>4, <2>6, <2>7
<1>7. \A k \in 0..n : k \in S
  <2> HIDE DEF n, S
  <2> QED
    BY <1>0, <1>5, <1>6, Stepwise
<1>8. Kept(n) /\ i <= n
  BY <1>0, <1>7
<1> QED
  BY <1>0, <1>8 DEF w

\* What the walk from the first release of a path is after the i-th stop: the
\* rest of the walk from the start.
Resumed(s, t, i) ==
    LET x == Walk(s, t)[i]
        y == Walk(Head(Stops(s, t)), t)[i]
    IN  IF x = <<>> THEN y = <<>> ELSE y = Tail(x)

LEMMA ResumedOne ==
    ASSUME Planned, NEW s \in Versions, NEW t \in Versions,
           Stops(s, t) # NoPath, Stops(s, t) # <<>>,
           \A j \in Places(t) : \A v \in StopsOf(t)[j].when : v < StopsOf(t)[j].release,
           NEW i \in Places(t), Resumed(s, t, i - 1)
    PROVE  Resumed(s, t, i)
<1> DEFINE n == Len(StopsOf(t))
           h == Head(Stops(s, t))
           r == StopsOf(t)[i].release
           when == StopsOf(t)[i].when
           x == Walk(s, t)[i - 1]
           y == Walk(h, t)[i - 1]
<1>0. /\ n \in Nat /\ Places(t) = 1..n /\ n \in 0..n /\ i \in 0..n /\ i - 1 \in 0..n
      /\ Stops(s, t) = Walk(s, t)[n]
  BY StopTypes DEF Places, Stops, StopsOf
<1>1. Stops(s, t) \in Seq(Versions) /\ h \in Versions /\ h \in Range(Stops(s, t))
  BY StopsWalked, Remaining
<1>2. /\ Walk(s, t)[i] = Take(s, x, StopsOf(t)[i])
      /\ Walk(h, t)[i] = Take(h, y, StopsOf(t)[i])
  BY <1>1, WalkStep
<1>3. /\ x \in Seq(Versions) /\ x # NoPath /\ Walk(s, t)[i] # NoPath
      /\ Range(Walk(s, t)[i]) = Reached(s, t, i)
  <2>1. Walked(s, t, n) /\ Walked(s, t, i) /\ Walked(s, t, i - 1)
    BY <1>0, WalkedAll
  <2> QED
    BY <1>0, <2>1 DEF Walked
<1>4. r \in Versions /\ r \in Nat /\ h \in Nat /\ \A v \in when : v \in Nat /\ v < r
  BY <1>1, StopTypes, PlanAssumption
<1>5. Walk(s, t)[i] # <<>> => h = Head(Walk(s, t)[i])
  BY <1>0, HeadStays
<1>6. CASE x = <<>> /\ At(s, x) \notin when
  <2>1. Walk(s, t)[i] = <<>> /\ y = <<>>
    BY <1>2, <1>6 DEF Take, Resumed
  <2>2. PICK j \in Applied(s, t) : h = StopsOf(t)[j].release
    BY <1>1, StopsWalked
  <2>3. j \in Places(t) /\ j \in Nat /\ i \in Nat
    BY <1>0, <2>2 DEF Applied
  <2>4. ~ (j <= i)
    <3>1. Reached(s, t, i) = {}
      BY <1>3, <2>1 DEF Range
    <3> QED
      BY <2>2, <3>1 DEF Reached
  <2>5. r < h
    BY <1>0, <2>2, <2>3, <2>4, StopsAscend
  <2>6. At(h, y) \notin when
    <3>1. At(h, y) = h
      BY <2>1 DEF At
    <3> HIDE DEF h, r, when
    <3> QED
      BY <1>4, <2>5, <3>1
  <2>7. Walk(h, t)[i] = <<>>
    BY <1>2, <2>1, <2>6 DEF Take
  <2> QED
    BY <2>1, <2>7 DEF Resumed
<1>7. CASE x = <<>> /\ At(s, x) \in when
  <2>1. Walk(s, t)[i] = Append(<<>>, r) /\ y = <<>>
    BY <1>2, <1>3, <1>7 DEF Take, Resumed
  <2>2. Append(<<>>, r) # <<>> /\ Head(Append(<<>>, r)) = r /\ Tail(Append(<<>>, r)) = <<>>
    <3>1. <<>> \in Seq(Versions)
      OBVIOUS
    <3> QED
      BY <1>4, <3>1, OneRelease, Further
  <2>3. h = r
    BY <1>5, <2>1, <2>2
  <2>4. At(h, y) \notin when
    BY <1>4, <2>1, <2>3 DEF At
  <2>5. Walk(h, t)[i] = <<>>
    BY <1>2, <2>1, <2>4 DEF Take
  <2> QED
    BY <2>1, <2>2, <2>5 DEF Resumed
<1>8. CASE x # <<>>
  <2>1. y = Tail(x) /\ h = Head(x)
    BY <1>0, <1>8, HeadStays DEF Resumed
  <2>2. At(h, y) = At(s, x) /\ y \in Seq(Versions) /\ y # NoPath
    BY <1>3, <1>8, <2>1, Remaining, PlanAssumption
  <2>3. CASE At(s, x) \notin when
    <3>1. Walk(s, t)[i] = x /\ Walk(h, t)[i] = y
      BY <1>2, <2>2, <2>3 DEF Take
    <3> QED
      BY <1>8, <2>1, <3>1 DEF Resumed
  <2>4. CASE At(s, x) \in when
    <3>1. Walk(s, t)[i] = Append(x, r) /\ Walk(h, t)[i] = Append(y, r)
      BY <1>2, <1>3, <2>2, <2>4 DEF Take
    <3>2. Append(x, r) # <<>> /\ Tail(Append(x, r)) = Append(Tail(x), r)
      BY <1>3, <1>4, <1>8, Further, Remaining
    <3> QED
      BY <2>1, <3>1, <3>2 DEF Resumed
  <2> QED
    BY <2>3, <2>4
<1> QED
  BY <1>6, <1>7, <1>8

\* The plan from the first release of a plan is the rest of the plan.
LEMMA PlanResumed ==
    ASSUME Planned, Sensible, NEW s \in Versions, s # target, PlanPath(s, target) # NoPath
    PROVE  /\ Head(PlanPath(s, target)) \in Versions
           /\ PlanPath(Head(PlanPath(s, target)), target) = Tail(PlanPath(s, target))
<1> DEFINE t == target
           n == Len(StopsOf(t))
           x == Stops(s, t)
           path == PlanPath(s, t)
<1>0. /\ t \in Versions /\ n \in Nat /\ Places(t) = 1..n /\ n \in 0..n
      /\ \A u \in Versions : Stops(u, t) = Walk(u, t)[n]
  BY StopTypes DEF Planned, Places, Stops, StopsOf
<1>1. /\ x # NoPath /\ x \in Seq(Versions) /\ At(s, x) < t /\ LastHop(At(s, x), t)
      /\ path = Append(x, t)
  BY <1>0, PlanMade
<1>2. ASSUME NEW j \in Places(t), NEW v \in StopsOf(t)[j].when PROVE v < StopsOf(t)[j].release
  BY <1>0, StopTypes DEF Sensible, StopsOf
<1>3. s \in Nat /\ t \in Nat /\ s <= t /\ contract[t].min \in Nat /\ contract[t].min <= s
  <2>1. contract[t] \in Contract
    BY <1>0 DEF Planned
  <2>2. contract[t].min \in Versions
    BY <2>1 DEF Contract
  <2> QED
    BY <1>0, <2>2, PlanAssumption DEF PlanPath
<1>4. CASE x = <<>>
  <2>1. Head(path) = t /\ Tail(path) = <<>>
    BY <1>0, <1>1, <1>4, OneRelease
  <2> DEFINE S == {i \in 0..n : Walk(t, t)[i] = <<>>}
  <2>2. 0 \in S
    BY <1>0, WalkStep
  <2>3. ASSUME NEW i \in 0..n, i # n, i \in S PROVE i + 1 \in S
    <3>0. Walk(t, t)[i] = <<>>
      BY <2>3
    <3> HIDE DEF n
    <3>1. i + 1 \in Places(t) /\ i + 1 \in 0..n /\ (i + 1) - 1 = i
      BY <1>0, <2>3
    <3>2. Walk(t, t)[i + 1] = Take(t, <<>>, StopsOf(t)[i + 1])
      BY <1>0, <3>0, <3>1, WalkStep
    <3>3. t \notin StopsOf(t)[i + 1].when
      <4>1. StopsOf(t)[i + 1].release \in Nat /\ StopsOf(t)[i + 1].release < t
        BY <1>0, <3>1, StopTypes
      <4>2. t \in StopsOf(t)[i + 1].when => t < StopsOf(t)[i + 1].release
        BY <1>2, <3>1
      <4> QED
        BY <1>3, <4>1, <4>2
    <3>4. Walk(t, t)[i + 1] = <<>>
      BY <3>2, <3>3 DEF Take, At
    <3> QED
      BY <3>1, <3>4
  <2>4. \A i \in 0..n : i \in S
    <3> HIDE DEF n, S
    <3> QED
      BY <1>0, <2>2, <2>3, Stepwise
  <2>5. Stops(t, t) = <<>>
    BY <1>0, <2>4
  <2>6. PlanPath(t, t) = <<>>
    <3>1. ~ (t > t) /\ ~ (t < contract[t].min)
      BY <1>3
    <3> QED
      BY <2>5, <3>1 DEF PlanPath, At
  <2> QED
    BY <1>0, <2>1, <2>6
<1>5. CASE x # <<>>
  <2> DEFINE h == Head(x)
             S == {i \in 0..n : Resumed(s, t, i)}
  <2>1. /\ h \in Versions /\ h \in Nat /\ h \in Range(x) /\ Tail(x) \in Seq(Versions)
        /\ At(h, Tail(x)) = At(s, x)
        /\ Head(path) = h /\ Tail(path) = Append(Tail(x), t)
    BY <1>0, <1>1, <1>5, Remaining, PlanAssumption
  <2>2. s <= h /\ h < t
    <3>1. Hops(s, x) /\ h < t
      BY <1>0, <1>1, <2>1, StopsWalked
    <3>2. 1 \in 1..Len(x) /\ h = x[1]
      BY <1>1, <1>5, EmptySeq
    <3>3. s < h
      BY <3>1, <3>2 DEF Hops, Prev
    <3> QED
      BY <1>3, <2>1, <3>1, <3>3
  <2>3. 0 \in S
    BY <1>0, <2>1, WalkStep DEF Resumed
  <2>4. ASSUME NEW i \in 0..n, i # n, i \in S PROVE i + 1 \in S
    <3>0. Resumed(s, t, i)
      BY <2>4
    <3> HIDE DEF n
    <3>1. i + 1 \in Places(t) /\ i + 1 \in 0..n /\ (i + 1) - 1 = i
      BY <1>0, <2>4
    <3>2. Resumed(s, t, i + 1)
      BY <1>0, <1>1, <1>2, <1>5, <3>0, <3>1, ResumedOne
    <3> QED
      BY <3>1, <3>2
  <2>5. \A i \in 0..n : i \in S
    <3> HIDE DEF n, S
    <3> QED
      BY <1>0, <2>3, <2>4, Stepwise
  <2>6. Stops(h, t) = Tail(x)
    BY <1>0, <1>5, <2>1, <2>5 DEF Resumed
  <2>7. PlanPath(h, t) = Append(Tail(x), t)
    <3>1. ~ (h > t) /\ ~ (h < contract[t].min)
      BY <1>3, <2>1, <2>2
    <3>2. Tail(x) # NoPath /\ At(h, Tail(x)) # t /\ LastHop(At(h, Tail(x)), t)
      BY <1>1, <1>3, <2>1, PlanAssumption
    <3> QED
      BY <2>6, <3>1, <3>2 DEF PlanPath
  <2> QED
    BY <2>1, <2>7
<1> QED
  BY <1>4, <1>5

\* main() makes of a plan without a hop one lifecycle of the target.
Route(s, t) == IF PlanPath(s, t) = <<>> THEN <<t>> ELSE PlanPath(s, t)

LEMMA NotNone == \A k, n \in Int : k <= n => n - k + 1 # 0
OBVIOUS

\* The plan made at the i-th release of a plan is what is left of it there.
LEMMA PlanLeft ==
    ASSUME Planned, Sensible, NEW s \in Versions, s # target, PlanPath(s, target) # NoPath
    PROVE  LET path == PlanPath(s, target) IN
           \A i \in 1..Len(path) - 1 : PlanPath(path[i], target) = SubSeq(path, i + 1, Len(path))
<1> DEFINE t == target
           path == PlanPath(s, t)
           n == Len(path) - 1
           Left(i) == PlanPath(Prev(s, path, i + 1), t) = SubSeq(path, i + 1, Len(path))
           S == {i \in 0..n : Left(i)}
<1>0. t \in Versions
  BY DEF Planned
<1>1. path \in Seq(Versions) /\ path # <<>> /\ path # NoPath
  BY <1>0, PlanMade, Further
<1> HIDE DEF path, t
<1>2. Len(path) \in Nat \ {0} /\ n \in Nat /\ \A k \in 1..Len(path) : path[k] \in Versions
  BY <1>1, EmptySeq, ElementOfSeq
<1>3. Left(0)
  <2>1. Prev(s, path, 1) = s /\ SubSeq(path, 1, Len(path)) = path
    BY <1>1, SubSeqFull DEF Prev
  <2> QED
    BY <2>1 DEF path
<1>4. ASSUME NEW i \in 0..n, i # n, i \in S PROVE i + 1 \in S
  <2> DEFINE u == Prev(s, path, i + 1)
             rest == SubSeq(path, i + 1, Len(path))
  <2>1. PlanPath(u, t) = rest
    BY <1>4
  <2>2. i + 1 \in 1..Len(path) /\ i \in Nat /\ i + 1 \in 0..n /\ i + 2 \in 1..Len(path)
    BY <1>2, <1>4
  <2>3. u \in Versions
    <3>1. i + 1 = 1 \/ (i + 1) - 1 \in 1..Len(path)
      BY <1>2
    <3> QED
      BY <1>2, <3>1 DEF Prev
  <2>4. /\ rest \in Seq(Versions) /\ Len(rest) # 0
        /\ Head(rest) = path[i + 1] /\ Tail(rest) = SubSeq(path, i + 2, Len(path))
    <3>1. /\ Head(rest) = path[i + 1] /\ Tail(rest) = SubSeq(path, (i + 1) + 1, Len(path))
      BY <1>1, <1>2, <2>2, HeadTailOfSubSeq
    <3>2. (i + 1) + 1 = i + 2 /\ i + 1 \in Int /\ Len(path) \in Int /\ i + 1 <= Len(path)
      BY <1>2, <2>2
    <3>3. \A k \in (i + 1)..Len(path) : path[k] \in Versions
      BY <1>2, <2>2
    <3>4. rest \in Seq(Versions) /\ Len(rest) = Len(path) - (i + 1) + 1
      BY <3>2, <3>3, SubSeqProperties
    <3>5. Len(rest) # 0
      BY <1>2, <3>2, <3>4, NotNone
    <3> QED
      BY <3>1, <3>2, <3>4, <3>5
  <2> HIDE DEF rest, u, n
  <2>5. rest # <<>> /\ rest # NoPath
    BY <2>4, EmptySeq, PlanAssumption
  <2>6. u # t
    BY <1>0, <2>1, <2>3, <2>5, PlanMade
  <2>7. PlanPath(Head(rest), t) = Tail(rest)
    BY <2>1, <2>3, <2>5, <2>6, PlanResumed DEF t
  <2>8. Prev(s, path, i + 2) = path[i + 1] /\ (i + 1) + 1 = i + 2
    <3>1. i + 2 # 1 /\ (i + 2) - 1 = i + 1 /\ (i + 1) + 1 = i + 2
      BY <2>2
    <3> QED
      BY <3>1 DEF Prev
  <2>9. Left(i + 1)
    BY <2>4, <2>7, <2>8
  <2> QED
    BY <2>2, <2>9
<1>5. \A i \in 0..n : i \in S
  <2>1. 0 \in S
    BY <1>2, <1>3
  <2> HIDE DEF n, S
  <2> QED
    BY <1>2, <1>4, <2>1, Stepwise
<1>6. ASSUME NEW i \in 1..n PROVE PlanPath(path[i], t) = SubSeq(path, i + 1, Len(path))
  <2>1. i \in 0..n /\ i + 1 # 1 /\ (i + 1) - 1 = i
    BY <1>2
  <2>2. Left(i)
    BY <1>5, <2>1
  <2> QED
    BY <2>1, <2>2 DEF Prev
<1> QED
  BY <1>6 DEF path, t

\* What the coordinator relies on: a path is not empty, ascends from the
\* release that is deployed and ends in the target, and a path found on the way
\* is the rest of it.
Serves(s, t) ==
    LET path == Route(s, t) IN
    path # NoPath =>
       /\ path \in Seq(Versions) \ {<<>>}
       /\ path[Len(path)] = t
       /\ s # t => s < path[1]
       /\ s = t => path = <<t>>
       /\ \A i \in 1..Len(path) - 1 :
             /\ path[i] < path[i + 1]
             /\ Route(path[i], t) = SubSeq(path, i + 1, Len(path))

LEMMA PlanServes ==
    ASSUME Planned, Sensible
    PROVE  Serves(source, target)
<1> DEFINE s == source
           t == target
           path == PlanPath(s, t)
<1>0. s \in Versions /\ t \in Versions /\ <<t>> \in Seq(Versions) /\ <<>> \in Seq(Versions)
  BY DEF Planned
<1>1. <<>> # NoPath /\ <<t>> # NoPath
  BY <1>0, PlanAssumption
<1>2. CASE path = NoPath
  BY <1>1, <1>2 DEF Serves, Route
<1>3. CASE path # NoPath /\ s = t
  <2>1. Route(s, t) = <<t>>
    BY <1>0, <1>3, PlanMade DEF Route
  <2>2. Len(<<t>>) = 1 /\ <<t>>[1] = t /\ <<t>> # <<>>
    OBVIOUS
  <2> QED
    BY <1>0, <1>3, <2>1, <2>2 DEF Serves
<1>4. CASE path # NoPath /\ s # t
  <2>1. path \in Seq(Versions) /\ path # <<>> /\ Hops(s, path) /\ At(s, path) = t
    BY <1>0, <1>4, PlanMade, Further, PlanWalked
  <2>2. Route(s, t) = path
    BY <2>1 DEF Route
  <2>3. \A i \in 1..Len(path) - 1 : PlanPath(path[i], t) = SubSeq(path, i + 1, Len(path))
    BY <1>0, <1>4, PlanLeft
  <2> HIDE DEF path
  <2>4. Len(path) \in Nat \ {0} /\ path[Len(path)] = t
    BY <2>1, EmptySeq DEF At, Last
  <2>5. s < path[1]
    BY <2>1, <2>4 DEF Hops, Prev
  <2>6. ASSUME NEW i \in 1..Len(path) - 1
        PROVE  path[i] < path[i + 1] /\ Route(path[i], t) = SubSeq(path, i + 1, Len(path))
    <3>1. i + 1 \in 1..Len(path) /\ i + 1 # 1 /\ (i + 1) - 1 = i /\ i + 1 \in Int /\ i + 1 <= Len(path)
      BY <2>4
    <3>2. path[i] < path[i + 1]
      BY <2>1, <3>1 DEF Hops, Prev
    <3>3. SubSeq(path, i + 1, Len(path)) # <<>>
      <4>1. \A k \in (i + 1)..Len(path) : path[k] \in Versions
        BY <2>1, <2>4, <3>1, ElementOfSeq
      <4>2. Len(SubSeq(path, i + 1, Len(path))) = Len(path) - (i + 1) + 1
        BY <2>4, <3>1, <4>1, SubSeqProperties
      <4>3. Len(SubSeq(path, i + 1, Len(path))) # 0
        <5>1. Len(path) \in Int /\ Len(path) - (i + 1) + 1 # 0
          BY <2>4, <3>1, NotNone
        <5> QED
          BY <4>2, <5>1
      <4> QED
        BY <4>3, EmptySeq
    <3> QED
      BY <2>3, <3>2, <3>3 DEF Route
  <2>7. Route(s, t) # NoPath => Serves(s, t)
    <3> HIDE DEF s, t
    <3> SUFFICES ASSUME NEW i \in 1..Len(path) - 1
                 PROVE  path[i] < path[i + 1] /\ Route(path[i], t) = SubSeq(path, i + 1, Len(path))
      BY <1>4, <2>1, <2>2, <2>4, <2>5, Zenon DEF Serves
    <3> QED
      BY <2>6
  <2> QED
    BY <2>7 DEF Serves
<1> QED
  BY <1>2, <1>3, <1>4
-----------------------------------------------------------------------------
(* The plans of a run.                                                     *)

LEMMA PlannedHolds == Spec => []Planned
<1>1. Init => Planned
  BY PlanAssumption DEF Init, Planned
<1>2. Planned /\ [Next]_vars => Planned'
  <2> SUFFICES ASSUME Planned, [Next]_vars PROVE Planned'
    OBVIOUS
  <2>1. CASE UNCHANGED vars
    BY <2>1 DEF Planned, ValidContract, vars
  <2>2. CASE Hop
    <3>1. source' \in Versions
      <4>1. /\ PlanPath(source, target) # NoPath /\ source # target
            /\ source' = Head(PlanPath(source, target))
        BY <2>2 DEF Hop
      <4>2. source \in Versions /\ target \in Versions
        BY DEF Planned
      <4> QED
        BY <4>1, <4>2, PlanMade, Further, Remaining
    <3> QED
      BY <2>2, <3>1 DEF Planned, ValidContract, Hop
  <2> QED
    BY <2>1, <2>2 DEF Next
<1> QED
  BY <1>1, <1>2, PTL DEF Spec

\* For any releases and any contracts that are valid, with any number of stops:
\* a path that planUpgradePath finds visits exactly the stops that apply at the
\* highest release before them, in ascending order, then the target, and each
\* of its hops is one the contract of the release it leads to allows.
THEOREM PathsAreDeclared == Spec => []PathIsDeclared
BY PlannedHolds, PlanDeclared, PTL

\* For any releases and valid contracts whose stops are conditioned on earlier
\* releases: what is planned at the release reached by the first hop of a plan
\* is the rest of that plan, so a run that plans again after each hop goes
\* where the first plan said.
THEOREM ReplanningResumes == Spec => ReplanningIsResuming
<1>1. Planned /\ [Next]_vars
      => [Sensible => PlanPath(source', target) = Tail(PlanPath(source, target))]_vars
  <2> SUFFICES ASSUME Planned, Hop, Sensible
               PROVE  PlanPath(source', target) = Tail(PlanPath(source, target))
    BY DEF Next
  <2>1. /\ PlanPath(source, target) # NoPath /\ source # target
        /\ source' = Head(PlanPath(source, target)) /\ source \in Versions
    BY DEF Hop, Planned
  <2> QED
    BY <2>1, PlanResumed
<1> QED
  BY <1>1, PlannedHolds, PTL DEF Spec, ReplanningIsResuming

\* For any releases and valid contracts whose stops are conditioned on earlier
\* releases, planUpgradePath gives the coordinator what its own theorems
\* assume of the planner (PathAssumption of UpdateCoordinator).
THEOREM PlansServe == Spec => [](Sensible => Serves(source, target))
<1>1. Planned => (Sensible => Serves(source, target))
  BY PlanServes
<1> QED
  BY <1>1, PlannedHolds, PTL
=============================================================================
