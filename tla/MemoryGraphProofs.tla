-------------------------- MODULE MemoryGraphProofs --------------------------
(***************************************************************************)
(* What MemoryGraph guarantees for any number of memories, episodes and    *)
(* overlapping runs: types, that a row marked ok names an episode of its   *)
(* own revision, that completed removals are done, that deletion queues    *)
(* every episode but those stamped behind a bulk deletion, and that only   *)
(* deletion removes the episode a row stands for, unless backfill runs     *)
(* held its revision together.                                             *)
(***************************************************************************)
EXTENDS MemoryGraph, TLAPS

-----------------------------------------------------------------------------
(* The type invariant.                                                     *)

LEMMA NewRowType ==
    ASSUME TypeOK, NEW m \in Memories, NEW r \in Nat \ {0}, NEW c \in BOOLEAN
    PROVE  NewRow(m, r, c) \in Row
BY DEF TypeOK, NewRow, Row, Status

LEMMA SeenType ==
    ASSUME TypeOK, NEW m \in Memories, mem[m] # NoRow
    PROVE  SeenRow(m) \in Seen
BY DEF TypeOK, SeenRow, Seen, Row

LEMMA AddsType ==
    ASSUME TypeOK, NEW x \in Episode, NEW e \in Episodes, Adds(x, e)
    PROVE  /\ epi' \in [Episodes -> Episode \cup {Unborn}]
           /\ live' \subseteq {f \in Episodes : epi'[f] # Unborn}
           /\ epi'[e] # Unborn
           /\ \A f \in Episodes : epi[f] # Unborn => epi'[f] = epi[f]
<1>1. CASE e \in Match(x) /\ UNCHANGED <<epi, live>>
  BY <1>1 DEF TypeOK, Match
<1>2. CASE Match(x) = {} /\ epi[e] = Unborn /\ epi' = [epi EXCEPT ![e] = x]
           /\ live' = live \cup {e}
  BY <1>2, GraphAssumption DEF TypeOK
<1>. QED
  BY <1>1, <1>2 DEF Adds

LEMMA InitType == Init => TypeOK
<1> SUFFICES ASSUME Init PROVE TypeOK
  OBVIOUS
<1>1. mem \in [Memories -> Row \cup {NoRow}]
  BY DEF Init, Row, Status
<1>2. top \in [Memories -> Nat] /\ clock \in [Memories -> Nat]
  BY DEF Init
<1>3. /\ job \in [Jobs -> JobState] /\ sweep \in [Sweepers -> SweepState]
      /\ bulk \in [Bulks -> BulkState]
  BY DEF Init, IdleJob, IdleSweep, IdleBulk, JobState, SweepState, BulkState
<1>4. prov \subseteq Memories \X Episodes /\ op \in [Episodes -> OpStatus]
  BY DEF Init, OpStatus
<1>5. /\ epi \in [Episodes -> Episode \cup {Unborn}]
      /\ live \subseteq {e \in Episodes : epi[e] # Unborn} /\ late \subseteq Episode
  BY DEF Init
<1>6. restores \in 0..MaxRestores /\ faults \in 0..MaxFaults
  BY GraphAssumption DEF Init
<1>7. passed \subseteq Episodes /\ shared \subseteq Memories \X Nat
  BY DEF Init
<1>. QED
  BY <1>1, <1>2, <1>3, <1>4, <1>5, <1>6, <1>7 DEF TypeOK

\* What the transaction of a run does to the rows: those it stamps get an
\* episode it got for them, the others keep theirs.
LEMMA StampRows ==
    ASSUME TypeOK, NEW j \in Jobs, Stamp(j)
    PROVE  /\ mem' \in [Memories -> Row \cup {NoRow}]
           /\ \A m \in Memories :
                \/ mem'[m] = mem[m]
                \/ /\ mem[m] # NoRow /\ mem[m].st \in Retryable
                   /\ mem'[m] = [mem[m] EXCEPT !.st = "failed"]
                \/ \E g \in Stamped(j) :
                     /\ g.row.id = m /\ mem[m] # NoRow /\ mem[m].rev = g.row.rev
                     /\ mem'[m] = [mem[m] EXCEPT !.st = "ok", !.ep = g.ep]
<1>1. Stamped(j) \subseteq [row : Seen, ep : Episodes]
  BY DEF Stamped, JobState, TypeOK
<1>2. ASSUME NEW m \in Memories
      PROVE  /\ mem'[m] \in Row \cup {NoRow}
             /\ \/ mem'[m] = mem[m]
                \/ /\ mem[m] # NoRow /\ mem[m].st \in Retryable
                   /\ mem'[m] = [mem[m] EXCEPT !.st = "failed"]
                \/ \E g \in Stamped(j) :
                     /\ g.row.id = m /\ mem[m] # NoRow /\ mem[m].rev = g.row.rev
                     /\ mem'[m] = [mem[m] EXCEPT !.st = "ok", !.ep = g.ep]
  <2>1. CASE \E g \in Stamped(j) : g.row.id = m
    <3> DEFINE c == CHOOSE g \in Stamped(j) : g.row.id = m
    <3>1. c \in Stamped(j) /\ c.row.id = m
      BY <2>1
    <3>2. mem[m] # NoRow /\ mem[m].rev = c.row.rev
      BY <3>1 DEF Stamped, Stampable
    <3>3. mem'[m] = [mem[m] EXCEPT !.st = "ok", !.ep = c.ep]
      BY <2>1 DEF Stamp
    <3>4. c.ep \in Episodes /\ mem[m] \in Row
      BY <1>1, <3>1, <3>2 DEF TypeOK
    <3>5. mem'[m] \in Row
      BY <3>3, <3>4 DEF Row, Status
    <3>. QED
      BY <3>1, <3>2, <3>3, <3>5
  <2>2. CASE ~ (\E g \in Stamped(j) : g.row.id = m) /\ \E r \in Failed(j) : r.id = m
    <3>1. mem[m] # NoRow /\ mem[m].st \in Retryable
      BY <2>2 DEF Failed
    <3>2. mem'[m] = [mem[m] EXCEPT !.st = "failed"]
      BY <2>2 DEF Stamp
    <3>3. mem'[m] \in Row
      <4>1. mem[m] \in Row /\ "failed" \in Status
        BY <3>1 DEF TypeOK, Status
      <4>. QED
        BY <3>2, <4>1 DEF Row
    <3>. QED
      BY <3>1, <3>2, <3>3
  <2>3. CASE ~ (\E g \in Stamped(j) : g.row.id = m) /\ ~ \E r \in Failed(j) : r.id = m
    <3>1. mem'[m] = mem[m]
      BY <2>3 DEF Stamp
    <3>. QED
      BY <3>1 DEF TypeOK
  <2>. QED
    BY <2>1, <2>2, <2>3
<1>3. mem' \in [Memories -> Row \cup {NoRow}]
  BY <1>2 DEF Stamp
<1>. QED
  BY <1>2, <1>3

\* What the transaction of a run does to a row it changes.
LEMMA StampOne ==
    ASSUME TypeOK, NEW j \in Jobs, Stamp(j), NEW m \in Memories, mem'[m] # mem[m]
    PROVE  /\ mem[m] # NoRow /\ mem'[m] # NoRow
           /\ mem'[m].rev = mem[m].rev /\ mem'[m].ver = mem[m].ver /\ mem'[m].cls = mem[m].cls
           /\ \/ mem[m].st \in Retryable /\ mem'[m].st = "failed"
              \/ \E g \in Stamped(j) :
                   g.row.id = m /\ mem'[m].st = "ok" /\ mem'[m].ep = g.ep
<1> DEFINE Fails == /\ mem[m] # NoRow /\ mem[m].st \in Retryable
                    /\ mem'[m] = [mem[m] EXCEPT !.st = "failed"]
           Takes(g) == /\ g.row.id = m /\ mem[m] # NoRow
                       /\ mem'[m] = [mem[m] EXCEPT !.st = "ok", !.ep = g.ep]
           G == /\ mem[m] # NoRow /\ mem'[m] # NoRow
                /\ mem'[m].rev = mem[m].rev /\ mem'[m].ver = mem[m].ver
                /\ mem'[m].cls = mem[m].cls
<1>1. Fails \/ \E g \in Stamped(j) : Takes(g)
  <2>1. \A k \in Memories :
           \/ mem'[k] = mem[k]
           \/ /\ mem[k] # NoRow /\ mem[k].st \in Retryable
              /\ mem'[k] = [mem[k] EXCEPT !.st = "failed"]
           \/ \E g \in Stamped(j) :
                /\ g.row.id = k /\ mem[k] # NoRow /\ mem[k].rev = g.row.rev
                /\ mem'[k] = [mem[k] EXCEPT !.st = "ok", !.ep = g.ep]
    BY StampRows
  <2> QED
    BY <2>1
<1>2. mem[m] # NoRow => mem[m] \in Row
  BY DEF TypeOK
<1>3. mem'[m] \in Row \cup {NoRow}
  BY StampRows
<1>4. CASE Fails
  <2>1. mem'[m] \in Row
    BY <1>2, <1>4 DEF Row, Status
  <2>2. G /\ mem'[m].st = "failed"
    BY <1>2, <1>4, <2>1, GraphAssumption DEF Row
  <2> QED
    BY <1>4, <2>2
<1>5. ASSUME NEW g \in Stamped(j), Takes(g)
      PROVE  G /\ mem'[m].st = "ok" /\ mem'[m].ep = g.ep
  <2>1. g.ep \in Episodes
    BY DEF Stamped, TypeOK, JobState
  <2>2. mem'[m] \in Row
    BY <1>2, <1>5, <2>1 DEF Row, Status
  <2> QED
    BY <1>2, <1>5, <2>2, GraphAssumption DEF Row
<1> QED
  BY <1>1, <1>4, <1>5

LEMMA NextType == TypeOK /\ [Next]_vars => TypeOK'
<1> SUFFICES ASSUME TypeOK, [Next]_vars PROVE TypeOK'
  OBVIOUS
<1>1. ASSUME NEW m \in Memories, Create(m) PROVE TypeOK'
  <2>1. 1 \in Nat \ {0} /\ TRUE \in BOOLEAN
    OBVIOUS
  <2>2. NewRow(m, 1, TRUE) \in Row
    BY <2>1, NewRowType
  <2>3. /\ mem' \in [Memories -> Row \cup {NoRow}]
        /\ top' \in [Memories -> Nat] /\ clock' \in [Memories -> Nat]
    <3>1. mem' \in [Memories -> Row \cup {NoRow}]
      BY <1>1, <2>2 DEF Create, TypeOK
    <3>2. top' \in [Memories -> Nat]
      BY <1>1 DEF Create, TypeOK
    <3>3. clock' \in [Memories -> Nat]
      <4>1. clock[m] + 1 \in Nat
        BY DEF TypeOK
      <4>. QED
        BY <1>1, <4>1 DEF Create, TypeOK
    <3>. QED
      BY <3>1, <3>2, <3>3
  <2>. QED
    BY <1>1, <2>3 DEF Create, TypeOK, graphiti, history
<1>2. ASSUME NEW m \in Memories, Edit(m) PROVE TypeOK'
  <2>1. top[m] + 1 \in Nat \ {0} /\ mem[m] \in Row
    BY <1>2 DEF Edit, TypeOK
  <2>2. NewRow(m, top[m] + 1, TRUE) \in Row
    BY <2>1, NewRowType
  <2>3. [NewRow(m, top[m] + 1, TRUE) EXCEPT !.ep = mem[m].ep] \in Row
    BY <2>1, <2>2 DEF Row
  <2>4. /\ mem' \in [Memories -> Row \cup {NoRow}]
        /\ top' \in [Memories -> Nat] /\ clock' \in [Memories -> Nat]
    <3>1. mem' \in [Memories -> Row \cup {NoRow}]
      BY <1>2, <2>3 DEF Edit, TypeOK
    <3>2. top' \in [Memories -> Nat]
      BY <1>2 DEF Edit, TypeOK
    <3>3. clock' \in [Memories -> Nat]
      <4>1. clock[m] + 1 \in Nat
        BY DEF TypeOK
      <4>. QED
        BY <1>2, <4>1 DEF Edit, TypeOK
    <3>. QED
      BY <3>1, <3>2, <3>3
  <2>. QED
    BY <1>2, <2>4 DEF Edit, TypeOK, graphiti, history
<1>3. ASSUME NEW m \in Memories, Delete(m) PROVE TypeOK'
  <2>1. op' \in [Episodes -> OpStatus]
    BY <1>3 DEF Delete, Queued, TypeOK, OpStatus
  <2>. QED
    BY <1>3, <2>1 DEF Delete, TypeOK, graphiti, history
<1>4. ASSUME NEW m \in Memories, Restore(m) PROVE TypeOK'
  <2>1. 1 \in Nat \ {0} /\ FALSE \in BOOLEAN
    OBVIOUS
  <2>2. NewRow(m, 1, FALSE) \in Row
    BY <2>1, NewRowType
  <2>3. /\ mem' \in [Memories -> Row \cup {NoRow}]
        /\ top' \in [Memories -> Nat] /\ clock' \in [Memories -> Nat]
    <3>1. mem' \in [Memories -> Row \cup {NoRow}]
      BY <1>4, <2>2 DEF Restore, TypeOK
    <3>2. top' \in [Memories -> Nat]
      BY <1>4 DEF Restore, TypeOK
    <3>3. clock' \in [Memories -> Nat]
      <4>1. clock[m] + 1 \in Nat
        BY DEF TypeOK
      <4>. QED
        BY <1>4, <4>1 DEF Restore, TypeOK
    <3>. QED
      BY <3>1, <3>2, <3>3
  <2>4. restores' \in 0..MaxRestores
    BY <1>4, GraphAssumption DEF Restore, TypeOK
  <2>. QED
    BY <1>4, <2>3, <2>4 DEF Restore, TypeOK, graphiti, history
<1>5. ASSUME NEW d \in Bulks, BulkRead(d) PROVE TypeOK'
  <2>1. bulk' \in [Bulks -> BulkState]
    BY <1>5 DEF BulkRead, BulkState, TypeOK
  <2>. QED
    BY <1>5, <2>1 DEF BulkRead, TypeOK, rowVars, graphiti, history
<1>6. ASSUME NEW d \in Bulks, BulkPlan(d) PROVE TypeOK'
  <2> DEFINE es == UNION {DeletionPlan(m, NoEpisode) : m \in bulk[d].rows}
  <2>1. es \in SUBSET Episodes
    BY DEF DeletionPlan
  <2>2. bulk' = [bulk EXCEPT ![d] = [bulk[d] EXCEPT !.pc = "commit", !.eps = es]]
    BY <1>6 DEF BulkPlan, TypeOK, BulkState
  <2> HIDE DEF es
  <2>3. [bulk[d] EXCEPT !.pc = "commit", !.eps = es] \in BulkState
    BY <2>1 DEF BulkState, TypeOK
  <2>4. bulk' \in [Bulks -> BulkState]
    BY <2>2, <2>3 DEF TypeOK
  <2>. QED
    BY <1>6, <2>4 DEF BulkPlan, TypeOK, rowVars, graphiti, history
<1>7. ASSUME NEW d \in Bulks, BulkCommit(d) PROVE TypeOK'
  <2>1. bulk' \in [Bulks -> BulkState]
    BY <1>7 DEF BulkCommit, IdleBulk, BulkState, TypeOK
  <2>2. op' \in [Episodes -> OpStatus]
    BY <1>7 DEF BulkCommit, Queued, TypeOK, OpStatus
  <2>. QED
    BY <1>7, <2>1, <2>2 DEF BulkCommit, TypeOK, graphiti, history
<1>8. ASSUME NEW j \in Jobs, BackfillRead(j) PROVE TypeOK'
  <2>1. {SeenRow(m) : m \in Due} \subseteq Seen
    BY SeenType DEF Due
  <2>2. job' \in [Jobs -> JobState]
    BY <1>8, <2>1 DEF BackfillRead, JobState, TypeOK
  <2>3. shared' \subseteq Memories \X Nat
    <3>1. \A m \in Due : m \in Memories /\ mem[m].rev \in Nat
      BY DEF Due, TypeOK, Row
    <3>2. {<<m, mem[m].rev>> : m \in {n \in Due : HeldElsewhere(j, n)}} \subseteq Memories \X Nat
      BY <3>1
    <3>. QED
      BY <1>8, <3>2 DEF BackfillRead, TypeOK
  <2>. QED
    BY <1>8, <2>2, <2>3 DEF BackfillRead, TypeOK, rowVars, graphiti
<1>9. ASSUME NEW j \in Jobs, RebuildRead(j) PROVE TypeOK'
  <2>1. PICK S \in SUBSET {m \in Memories : mem[m] # NoRow} :
          job' = [job EXCEPT ![j].rows = {SeenRow(m) : m \in S}]
    BY <1>9 DEF RebuildRead
  <2>2. {SeenRow(m) : m \in S} \subseteq Seen
    BY SeenType
  <2>3. job' \in [Jobs -> JobState]
    BY <2>1, <2>2 DEF JobState, TypeOK
  <2>. QED
    BY <1>9, <2>3 DEF RebuildRead, TypeOK, rowVars, graphiti, history
<1>10. ASSUME NEW j \in Jobs, Stamp(j) PROVE TypeOK'
  <2>1. Stamped(j) \subseteq [row : Seen, ep : Episodes]
    BY DEF Stamped, JobState, TypeOK
  <2>2. mem' \in [Memories -> Row \cup {NoRow}]
    BY <1>10, StampRows
  <2>3. prov' \subseteq Memories \X Episodes
    <3>1. \A g \in Stamped(j) : <<g.row.id, g.ep>> \in Memories \X Episodes
      BY <2>1 DEF Seen
    <3>2. prov \subseteq Memories \X Episodes
      BY DEF TypeOK
    <3>. QED
      BY <1>10, <3>1, <3>2 DEF Stamp
  <2>4. op' \in [Episodes -> OpStatus]
    BY <1>10 DEF Stamp, Queued, TypeOK, OpStatus
  <2>5. job' \in [Jobs -> JobState]
    BY <1>10 DEF Stamp, IdleJob, JobState, TypeOK
  <2>6. passed' \subseteq Episodes
    <3>1. \A g \in Stamped(j) : g.ep \in Episodes
      BY <2>1
    <3>. QED
      BY <1>10, <3>1 DEF Stamp, TypeOK
  <2>. QED
    BY <1>10, <2>2, <2>3, <2>4, <2>5, <2>6 DEF Stamp, TypeOK, graphiti
<1>11. ASSUME NEW j \in Jobs, JobCrash(j) PROVE TypeOK'
  <2>1. job' \in [Jobs -> JobState]
    BY <1>11 DEF JobCrash, IdleJob, JobState, TypeOK
  <2>2. faults' \in 0..MaxFaults
    BY <1>11, GraphAssumption DEF JobCrash, Fault, TypeOK
  <2>. QED
    BY <1>11, <2>1, <2>2 DEF JobCrash, TypeOK, rowVars, graphiti, history
<1>12. ASSUME NEW j \in Jobs, NEW r \in job[j].rows, NEW e \in Episodes, Post(j, r, e) PROVE TypeOK'
  <2>1. r \in Seen
    BY <1>12 DEF JobState, TypeOK
  <2>2. Told(j, r) \in Episode
    BY <2>1 DEF Told, Episode, Seen, Keyed
  <2>3. /\ epi' \in [Episodes -> Episode \cup {Unborn}]
        /\ live' \subseteq {f \in Episodes : epi'[f] # Unborn}
    BY <1>12, <2>2, AddsType DEF Post
  <2>4. job' \in [Jobs -> JobState]
    BY <1>12, <2>1 DEF Post, JobState, TypeOK
  <2>. QED
    BY <1>12, <2>3, <2>4 DEF Post, TypeOK, rowVars, history
<1>13. ASSUME NEW j \in Jobs, NEW r \in job[j].rows, PostFails(j, r) PROVE TypeOK'
  <2>1. r \in Seen
    BY <1>13 DEF JobState, TypeOK
  <2>2. Told(j, r) \in Episode
    BY <2>1 DEF Told, Episode, Seen, Keyed
  <2>3. late' \subseteq Episode
    BY <1>13, <2>2 DEF PostFails, TypeOK
  <2>4. job' \in [Jobs -> JobState]
    BY <1>13, <2>1 DEF PostFails, JobState, TypeOK
  <2>. QED
    BY <1>13, <2>3, <2>4, GraphAssumption DEF PostFails, Fault, TypeOK, rowVars, history
<1>14. ASSUME NEW x \in late, NEW e \in Episodes, LateAdd(x, e) PROVE TypeOK'
  <2>1. x \in Episode
    BY <1>14 DEF TypeOK
  <2>2. /\ epi' \in [Episodes -> Episode \cup {Unborn}]
        /\ live' \subseteq {f \in Episodes : epi'[f] # Unborn}
    BY <1>14, <2>1, AddsType DEF LateAdd
  <2>. QED
    BY <1>14, <2>2 DEF LateAdd, TypeOK, rowVars, history
<1>15. ASSUME NEW w \in Sweepers, SweepRead(w) PROVE TypeOK'
  <2>1. PICK stale \in Stale :
          sweep' = [sweep EXCEPT ![w] = [IdleSweep EXCEPT !.pc = "mark",
                      !.rows = stale \cup {e \in Episodes : op[e] \in Retryable}]]
    BY <1>15 DEF SweepRead
  <2>2. [IdleSweep EXCEPT !.pc = "mark",
          !.rows = stale \cup {e \in Episodes : op[e] \in Retryable}] \in SweepState
    BY <2>1 DEF Stale, IdleSweep, SweepState
  <2>3. sweep' \in [Sweepers -> SweepState]
    BY <2>1, <2>2 DEF TypeOK
  <2>. QED
    BY <1>15, <2>3 DEF SweepRead, TypeOK, rowVars, graphiti, history
<1>16. ASSUME NEW w \in Sweepers, SweepMark(w) PROVE TypeOK'
  <2>1. sweep' \in [Sweepers -> SweepState]
    BY <1>16 DEF SweepMark, IdleSweep, SweepState, TypeOK
  <2>2. op' \in [Episodes -> OpStatus]
    BY <1>16 DEF SweepMark, TypeOK, OpStatus
  <2>. QED
    BY <1>16, <2>1, <2>2 DEF SweepMark, TypeOK, rowVars, graphiti, history
<1>17. ASSUME NEW w \in Sweepers, SweepStamp(w) PROVE TypeOK'
  <2>1. sweep' \in [Sweepers -> SweepState]
    BY <1>17 DEF SweepStamp, IdleSweep, SweepState, TypeOK
  <2>2. op' \in [Episodes -> OpStatus]
    BY <1>17 DEF SweepStamp, Outcome, TypeOK, OpStatus
  <2>. QED
    BY <1>17, <2>1, <2>2 DEF SweepStamp, TypeOK, rowVars, graphiti, history
<1>18. ASSUME NEW w \in Sweepers, SweepCrash(w) PROVE TypeOK'
  <2>1. sweep' \in [Sweepers -> SweepState]
    BY <1>18 DEF SweepCrash, IdleSweep, SweepState, TypeOK
  <2>2. faults' \in 0..MaxFaults
    BY <1>18, GraphAssumption DEF SweepCrash, Fault, TypeOK
  <2>. QED
    BY <1>18, <2>1, <2>2 DEF SweepCrash, TypeOK, rowVars, graphiti, history
<1>19. ASSUME NEW w \in Sweepers, NEW e \in Episodes, SweepRemove(w, e) PROVE TypeOK'
  <2>1. sweep' \in [Sweepers -> SweepState]
    BY <1>19 DEF SweepRemove, IdleSweep, SweepState, TypeOK
  <2>. QED
    BY <1>19, <2>1 DEF SweepRemove, TypeOK, rowVars, graphiti, history
<1>20. ASSUME NEW w \in Sweepers, NEW e \in Episodes, SweepRemoveFails(w, e) PROVE TypeOK'
  <2>1. sweep' \in [Sweepers -> SweepState]
    BY <1>20 DEF SweepRemoveFails, IdleSweep, SweepState, TypeOK
  <2>2. faults' \in 0..MaxFaults
    BY <1>20, GraphAssumption DEF SweepRemoveFails, Fault, TypeOK
  <2>. QED
    BY <1>20, <2>1, <2>2 DEF SweepRemoveFails, TypeOK, rowVars, graphiti, history
<1>21. CASE UNCHANGED vars
  BY <1>21 DEF vars, TypeOK
<1>. QED
  BY <1>1, <1>2, <1>3, <1>4, <1>5, <1>6, <1>7, <1>8, <1>9, <1>10, <1>11,
     <1>12, <1>13, <1>14, <1>15, <1>16, <1>17, <1>18, <1>19, <1>20, <1>21
     DEF Next, Jobs

\* Every variable of the graph projection keeps its type.
THEOREM TypeCorrect == Spec => []TypeOK
<1>1. Init => TypeOK
  BY InitType
<1>2. TypeOK /\ [Next]_vars => TypeOK'
  BY NextType
<1>. QED
  BY <1>1, <1>2, PTL DEF Spec
-----------------------------------------------------------------------------
(* What one step can do to rows, provenance, runs, episodes and operations. *)

\* A POST for x yields an episode that tells x.
LEMMA AddsTold ==
    ASSUME TypeOK, NEW x \in Episode, NEW e \in Episodes, Adds(x, e)
    PROVE  epi'[e] = x
BY DEF Adds, Match, TypeOK

LEMMA ToldType ==
    ASSUME TypeOK, NEW j \in Jobs, NEW r \in job[j].rows
    PROVE  /\ r \in Seen /\ Told(j, r) \in Episode
           /\ Told(j, r).id = r.id /\ Told(j, r).rev = r.rev
<1>1. r \in Seen
  BY DEF TypeOK, JobState
<1>. QED
  BY <1>1 DEF Told, Episode, Seen, Keyed

\* Graphiti assigns a UUID once, and holds no episode again that it has lost.
LEMMA EpisodeChange ==
    ASSUME TypeOK, [Next]_vars, NEW e \in Episodes
    PROVE  /\ epi[e] # Unborn => epi'[e] = epi[e]
           /\ epi[e] # Unborn /\ e \notin live => e \notin live'
<1> DEFINE G == /\ epi[e] # Unborn => epi'[e] = epi[e]
                /\ epi[e] # Unborn /\ e \notin live => e \notin live'
<1>0. ASSUME NEW x \in Episode, NEW f \in Episodes, Adds(x, f) PROVE G
  BY <1>0 DEF Adds, TypeOK
<1>1. ASSUME NEW m \in Memories, Create(m)
      PROVE  G
  BY <1>1 DEF Create, graphiti
<1>2. ASSUME NEW m \in Memories, Edit(m)
      PROVE  G
  BY <1>2 DEF Edit, graphiti
<1>3. ASSUME NEW m \in Memories, Delete(m)
      PROVE  G
  BY <1>3 DEF Delete, graphiti
<1>4. ASSUME NEW m \in Memories, Restore(m)
      PROVE  G
  BY <1>4 DEF Restore, graphiti
<1>5. ASSUME NEW d \in Bulks, BulkRead(d)
      PROVE  G
  BY <1>5 DEF BulkRead, graphiti
<1>6. ASSUME NEW d \in Bulks, BulkPlan(d)
      PROVE  G
  BY <1>6 DEF BulkPlan, graphiti
<1>7. ASSUME NEW d \in Bulks, BulkCommit(d)
      PROVE  G
  BY <1>7 DEF BulkCommit, graphiti
<1>8. ASSUME NEW j \in Jobs, BackfillRead(j)
      PROVE  G
  BY <1>8 DEF BackfillRead, graphiti
<1>9. ASSUME NEW j \in Jobs, RebuildRead(j)
      PROVE  G
  BY <1>9 DEF RebuildRead, graphiti
<1>10. ASSUME NEW j \in Jobs, Stamp(j)
      PROVE  G
  BY <1>10 DEF Stamp, graphiti
<1>11. ASSUME NEW j \in Jobs, JobCrash(j)
      PROVE  G
  BY <1>11 DEF JobCrash, graphiti
<1>12. ASSUME NEW j \in Jobs, NEW r \in job[j].rows, NEW f \in Episodes, Post(j, r, f)
      PROVE  G
  BY <1>0, <1>12, ToldType DEF Post
<1>13. ASSUME NEW j \in Jobs, NEW r \in job[j].rows, PostFails(j, r)
      PROVE  G
  BY <1>13 DEF PostFails, graphiti
<1>14. ASSUME NEW x \in late, NEW f \in Episodes, LateAdd(x, f)
      PROVE  G
  BY <1>0, <1>14 DEF LateAdd, TypeOK
<1>15. ASSUME NEW w \in Sweepers, SweepRead(w)
      PROVE  G
  BY <1>15 DEF SweepRead, graphiti
<1>16. ASSUME NEW w \in Sweepers, SweepMark(w)
      PROVE  G
  BY <1>16 DEF SweepMark, graphiti
<1>17. ASSUME NEW w \in Sweepers, SweepStamp(w)
      PROVE  G
  BY <1>17 DEF SweepStamp, graphiti
<1>18. ASSUME NEW w \in Sweepers, SweepCrash(w)
      PROVE  G
  BY <1>18 DEF SweepCrash, graphiti
<1>19. ASSUME NEW w \in Sweepers, NEW f \in Episodes, SweepRemove(w, f)
      PROVE  G
  BY <1>19 DEF SweepRemove
<1>20. ASSUME NEW w \in Sweepers, NEW f \in Episodes, SweepRemoveFails(w, f)
      PROVE  G
  BY <1>20 DEF SweepRemoveFails
<1>21. CASE UNCHANGED vars
  BY <1>21 DEF vars
<1>. QED
  BY <1>1, <1>2, <1>3, <1>4, <1>5, <1>6, <1>7, <1>8, <1>9, <1>10, <1>11,
     <1>12, <1>13, <1>14, <1>15, <1>16, <1>17, <1>18, <1>19, <1>20, <1>21 DEF
     Next

\* A row changes by an edit, which leaves it pending, by deletion, or by the
\* transaction of a run.
LEMMA RowChange ==
    ASSUME TypeOK, [Next]_vars, NEW m \in Memories
    PROVE  \/ mem'[m] = mem[m] \/ mem'[m] = NoRow
           \/ /\ mem'[m] # NoRow /\ mem'[m].st = "pending"
              /\ mem'[m].ep # NoEpisode => mem[m] # NoRow /\ mem'[m].ep = mem[m].ep
           \/ \E j \in Jobs : Stamp(j)
<1> DEFINE G == \/ mem'[m] = mem[m] \/ mem'[m] = NoRow
                \/ /\ mem'[m] # NoRow /\ mem'[m].st = "pending"
                   /\ mem'[m].ep # NoEpisode => mem[m] # NoRow /\ mem'[m].ep = mem[m].ep
                \/ \E j \in Jobs : Stamp(j)
<1>0. TypeOK'
  BY NextType
<1>1. ASSUME NEW n \in Memories, Create(n)
      PROVE  G
  <2>1. CASE n # m
    BY <1>1, <2>1 DEF Create, TypeOK
  <2>2. CASE n = m
    <3>1. m \in DOMAIN mem
      BY DEF TypeOK
    <3>2. mem'[m].st = "pending"
      BY <1>1, <2>2, <3>1 DEF Create, NewRow
    <3>3. mem'[m].ep # NoEpisode => mem[m] # NoRow /\ mem'[m].ep = mem[m].ep
      BY <1>1, <2>2, <3>1 DEF Create, NewRow
    <3>. QED
      BY <3>2, <3>3
  <2>. QED
    BY <2>1, <2>2
<1>2. ASSUME NEW n \in Memories, Edit(n)
      PROVE  G
  <2>1. CASE n # m
    BY <1>2, <2>1 DEF Edit, TypeOK
  <2>2. CASE n = m
    <3>1. m \in DOMAIN mem
      BY DEF TypeOK
    <3>2. mem'[m].st = "pending"
      BY <1>2, <2>2, <3>1 DEF Edit, NewRow
    <3>3. mem'[m].ep # NoEpisode => mem[m] # NoRow /\ mem'[m].ep = mem[m].ep
      BY <1>2, <2>2, <3>1 DEF Edit, NewRow
    <3>. QED
      BY <3>2, <3>3
  <2>. QED
    BY <2>1, <2>2
<1>3. ASSUME NEW n \in Memories, Delete(n)
      PROVE  G
  BY <1>3 DEF Delete, TypeOK
<1>4. ASSUME NEW n \in Memories, Restore(n)
      PROVE  G
  <2>1. CASE n # m
    BY <1>4, <2>1 DEF Restore, TypeOK
  <2>2. CASE n = m
    <3>1. m \in DOMAIN mem
      BY DEF TypeOK
    <3>2. mem'[m].st = "pending"
      BY <1>4, <2>2, <3>1 DEF Restore, NewRow
    <3>3. mem'[m].ep # NoEpisode => mem[m] # NoRow /\ mem'[m].ep = mem[m].ep
      BY <1>4, <2>2, <3>1 DEF Restore, NewRow
    <3>. QED
      BY <3>2, <3>3
  <2>. QED
    BY <2>1, <2>2
<1>5. ASSUME NEW d \in Bulks, BulkRead(d)
      PROVE  G
  BY <1>5 DEF BulkRead, rowVars
<1>6. ASSUME NEW d \in Bulks, BulkPlan(d)
      PROVE  G
  BY <1>6 DEF BulkPlan, rowVars
<1>7. ASSUME NEW d \in Bulks, BulkCommit(d)
      PROVE  G
  BY <1>7 DEF BulkCommit
<1>8. ASSUME NEW j \in Jobs, BackfillRead(j)
      PROVE  G
  BY <1>8 DEF BackfillRead, rowVars
<1>9. ASSUME NEW j \in Jobs, RebuildRead(j)
      PROVE  G
  BY <1>9 DEF RebuildRead, rowVars
<1>10. ASSUME NEW j \in Jobs, Stamp(j)
      PROVE  G
  BY <1>10
<1>11. ASSUME NEW j \in Jobs, JobCrash(j)
      PROVE  G
  BY <1>11 DEF JobCrash, rowVars
<1>12. ASSUME NEW j \in Jobs, NEW r \in job[j].rows, NEW e \in Episodes, Post(j, r, e)
      PROVE  G
  BY <1>12 DEF Post, rowVars
<1>13. ASSUME NEW j \in Jobs, NEW r \in job[j].rows, PostFails(j, r)
      PROVE  G
  BY <1>13 DEF PostFails, rowVars
<1>14. ASSUME NEW x \in late, NEW e \in Episodes, LateAdd(x, e)
      PROVE  G
  BY <1>14 DEF LateAdd, rowVars
<1>15. ASSUME NEW w \in Sweepers, SweepRead(w)
      PROVE  G
  BY <1>15 DEF SweepRead, rowVars
<1>16. ASSUME NEW w \in Sweepers, SweepMark(w)
      PROVE  G
  BY <1>16 DEF SweepMark, rowVars
<1>17. ASSUME NEW w \in Sweepers, SweepStamp(w)
      PROVE  G
  BY <1>17 DEF SweepStamp, rowVars
<1>18. ASSUME NEW w \in Sweepers, SweepCrash(w)
      PROVE  G
  BY <1>18 DEF SweepCrash, rowVars
<1>19. ASSUME NEW w \in Sweepers, NEW e \in Episodes, SweepRemove(w, e)
      PROVE  G
  BY <1>19 DEF SweepRemove, rowVars
<1>20. ASSUME NEW w \in Sweepers, NEW e \in Episodes, SweepRemoveFails(w, e)
      PROVE  G
  BY <1>20 DEF SweepRemoveFails, rowVars
<1>21. CASE UNCHANGED vars
  BY <1>21 DEF vars
<1>. QED
  BY <1>1, <1>2, <1>3, <1>4, <1>5, <1>6, <1>7, <1>8, <1>9, <1>10, <1>11,
     <1>12, <1>13, <1>14, <1>15, <1>16, <1>17, <1>18, <1>19, <1>20, <1>21 DEF
     Next

\* Only the transaction of a run adds provenance, and only that of the rows it
\* stamps.
LEMMA ProvenanceChange ==
    ASSUME TypeOK, [Next]_vars
    PROVE  \/ prov' = prov
           \/ \E j \in Jobs : /\ Stamp(j)
                              /\ prov' = prov \cup {<<g.row.id, g.ep>> : g \in Stamped(j)}
<1> DEFINE G == \/ prov' = prov
                \/ \E j \in Jobs : /\ Stamp(j)
                                   /\ prov' = prov \cup {<<g.row.id, g.ep>> : g \in Stamped(j)}
<1>1. ASSUME NEW m \in Memories, Create(m)
      PROVE  G
  BY <1>1 DEF Create
<1>2. ASSUME NEW m \in Memories, Edit(m)
      PROVE  G
  BY <1>2 DEF Edit
<1>3. ASSUME NEW m \in Memories, Delete(m)
      PROVE  G
  BY <1>3 DEF Delete
<1>4. ASSUME NEW m \in Memories, Restore(m)
      PROVE  G
  BY <1>4 DEF Restore
<1>5. ASSUME NEW d \in Bulks, BulkRead(d)
      PROVE  G
  BY <1>5 DEF BulkRead
<1>6. ASSUME NEW d \in Bulks, BulkPlan(d)
      PROVE  G
  BY <1>6 DEF BulkPlan
<1>7. ASSUME NEW d \in Bulks, BulkCommit(d)
      PROVE  G
  BY <1>7 DEF BulkCommit
<1>8. ASSUME NEW j \in Jobs, BackfillRead(j)
      PROVE  G
  BY <1>8 DEF BackfillRead
<1>9. ASSUME NEW j \in Jobs, RebuildRead(j)
      PROVE  G
  BY <1>9 DEF RebuildRead
<1>10. ASSUME NEW j \in Jobs, Stamp(j)
      PROVE  G
  BY <1>10 DEF Stamp
<1>11. ASSUME NEW j \in Jobs, JobCrash(j)
      PROVE  G
  BY <1>11 DEF JobCrash
<1>12. ASSUME NEW j \in Jobs, NEW r \in job[j].rows, NEW e \in Episodes, Post(j, r, e)
      PROVE  G
  BY <1>12 DEF Post
<1>13. ASSUME NEW j \in Jobs, NEW r \in job[j].rows, PostFails(j, r)
      PROVE  G
  BY <1>13 DEF PostFails
<1>14. ASSUME NEW x \in late, NEW e \in Episodes, LateAdd(x, e)
      PROVE  G
  BY <1>14 DEF LateAdd
<1>15. ASSUME NEW w \in Sweepers, SweepRead(w)
      PROVE  G
  BY <1>15 DEF SweepRead
<1>16. ASSUME NEW w \in Sweepers, SweepMark(w)
      PROVE  G
  BY <1>16 DEF SweepMark
<1>17. ASSUME NEW w \in Sweepers, SweepStamp(w)
      PROVE  G
  BY <1>17 DEF SweepStamp
<1>18. ASSUME NEW w \in Sweepers, SweepCrash(w)
      PROVE  G
  BY <1>18 DEF SweepCrash
<1>19. ASSUME NEW w \in Sweepers, NEW e \in Episodes, SweepRemove(w, e)
      PROVE  G
  BY <1>19 DEF SweepRemove
<1>20. ASSUME NEW w \in Sweepers, NEW e \in Episodes, SweepRemoveFails(w, e)
      PROVE  G
  BY <1>20 DEF SweepRemoveFails
<1>21. CASE UNCHANGED vars
  BY <1>21 DEF vars
<1>. QED
  BY <1>1, <1>2, <1>3, <1>4, <1>5, <1>6, <1>7, <1>8, <1>9, <1>10, <1>11,
     <1>12, <1>13, <1>14, <1>15, <1>16, <1>17, <1>18, <1>19, <1>20, <1>21 DEF
     Next

\* A run gets an episode by a POST of a row it read; otherwise it keeps what it
\* has or starts afresh.
LEMMA GotChange ==
    ASSUME TypeOK, [Next]_vars, NEW i \in Jobs
    PROVE  \/ job'[i].got \subseteq job[i].got
           \/ \E r \in job[i].rows, e \in Episodes :
                Post(i, r, e) /\ job'[i].got = job[i].got \cup {[row |-> r, ep |-> e]}
<1> DEFINE G == \/ job'[i].got \subseteq job[i].got
                \/ \E r \in job[i].rows, e \in Episodes :
                     Post(i, r, e) /\ job'[i].got = job[i].got \cup {[row |-> r, ep |-> e]}
<1>0. job \in [Jobs -> JobState]
  BY DEF TypeOK
<1>1. ASSUME NEW m \in Memories, Create(m)
      PROVE  G
  BY <1>1 DEF Create
<1>2. ASSUME NEW m \in Memories, Edit(m)
      PROVE  G
  BY <1>2 DEF Edit
<1>3. ASSUME NEW m \in Memories, Delete(m)
      PROVE  G
  BY <1>3 DEF Delete
<1>4. ASSUME NEW m \in Memories, Restore(m)
      PROVE  G
  BY <1>4 DEF Restore
<1>5. ASSUME NEW d \in Bulks, BulkRead(d)
      PROVE  G
  BY <1>5 DEF BulkRead
<1>6. ASSUME NEW d \in Bulks, BulkPlan(d)
      PROVE  G
  BY <1>6 DEF BulkPlan
<1>7. ASSUME NEW d \in Bulks, BulkCommit(d)
      PROVE  G
  BY <1>7 DEF BulkCommit
<1>8. ASSUME NEW j \in Jobs, BackfillRead(j)
      PROVE  G
  BY <1>0, <1>8 DEF BackfillRead, JobState
<1>9. ASSUME NEW j \in Jobs, RebuildRead(j)
      PROVE  G
  <2>1. PICK S : job' = [job EXCEPT ![j].rows = S]
    BY <1>9 DEF RebuildRead
  <2>. QED
    BY <1>0, <2>1 DEF JobState
<1>10. ASSUME NEW j \in Jobs, Stamp(j)
      PROVE  G
  BY <1>0, <1>10 DEF Stamp, IdleJob
<1>11. ASSUME NEW j \in Jobs, JobCrash(j)
      PROVE  G
  BY <1>0, <1>11 DEF JobCrash, IdleJob
<1>12. ASSUME NEW j \in Jobs, NEW r \in job[j].rows, NEW e \in Episodes, Post(j, r, e)
      PROVE  G
  <2>1. job' = [job EXCEPT ![j].got = @ \cup {[row |-> r, ep |-> e]}]
    BY <1>12 DEF Post
  <2>2. CASE i = j
    BY <1>0, <1>12, <2>1, <2>2 DEF JobState
  <2>3. CASE i # j
    BY <1>0, <2>1, <2>3
  <2>. QED
    BY <2>2, <2>3
<1>13. ASSUME NEW j \in Jobs, NEW r \in job[j].rows, PostFails(j, r)
      PROVE  G
  BY <1>0, <1>13 DEF PostFails, JobState
<1>14. ASSUME NEW x \in late, NEW e \in Episodes, LateAdd(x, e)
      PROVE  G
  BY <1>14 DEF LateAdd
<1>15. ASSUME NEW w \in Sweepers, SweepRead(w)
      PROVE  G
  BY <1>15 DEF SweepRead
<1>16. ASSUME NEW w \in Sweepers, SweepMark(w)
      PROVE  G
  BY <1>16 DEF SweepMark
<1>17. ASSUME NEW w \in Sweepers, SweepStamp(w)
      PROVE  G
  BY <1>17 DEF SweepStamp
<1>18. ASSUME NEW w \in Sweepers, SweepCrash(w)
      PROVE  G
  BY <1>18 DEF SweepCrash
<1>19. ASSUME NEW w \in Sweepers, NEW e \in Episodes, SweepRemove(w, e)
      PROVE  G
  BY <1>19 DEF SweepRemove
<1>20. ASSUME NEW w \in Sweepers, NEW e \in Episodes, SweepRemoveFails(w, e)
      PROVE  G
  BY <1>20 DEF SweepRemoveFails
<1>21. CASE UNCHANGED vars
  BY <1>21 DEF vars
<1>. QED
  BY <1>1, <1>2, <1>3, <1>4, <1>5, <1>6, <1>7, <1>8, <1>9, <1>10, <1>11,
     <1>12, <1>13, <1>14, <1>15, <1>16, <1>17, <1>18, <1>19, <1>20, <1>21 DEF
     Next
-----------------------------------------------------------------------------
(* Rows, provenance and what runs hold agree with what Graphiti was told.  *)

\* An episode in provenance tells of that memory.
Provenanced == \A m \in Memories, e \in Episodes :
                 <<m, e>> \in prov => epi[e] # Unborn /\ epi[e].id = m

\* An episode a run got tells the revision the run read.
Got == \A j \in Jobs : \A g \in job[j].got :
         /\ epi[g.ep] # Unborn
         /\ epi[g.ep].id = g.row.id /\ epi[g.ep].rev = g.row.rev

\* The episode a row names, of this or an earlier revision, is in provenance.
Named == \A m \in Memories :
           mem[m] # NoRow /\ mem[m].ep # NoEpisode => <<m, mem[m].ep>> \in prov

Projection == Provenanced /\ Got /\ Named /\ CurrentEpisode

LEMMA InitProjection == Init => Projection
BY DEF Init, Projection, Provenanced, Got, Named, CurrentEpisode, IdleJob

LEMMA GotStep == TypeOK /\ Got /\ [Next]_vars => Got'
<1> SUFFICES ASSUME TypeOK, Got, [Next]_vars, NEW i \in Jobs, NEW g \in job'[i].got
             PROVE  /\ epi'[g.ep] # Unborn
                    /\ epi'[g.ep].id = g.row.id /\ epi'[g.ep].rev = g.row.rev
  BY DEF Got
<1>1. CASE g \in job[i].got
  <2>1. g.ep \in Episodes
    BY <1>1 DEF TypeOK, JobState
  <2>2. epi'[g.ep] = epi[g.ep]
    BY <1>1, <2>1, EpisodeChange DEF Got
  <2>. QED
    BY <1>1, <2>2 DEF Got
<1>2. CASE g \notin job[i].got
  <2>1. PICK r \in job[i].rows, e \in Episodes :
          Post(i, r, e) /\ job'[i].got = job[i].got \cup {[row |-> r, ep |-> e]}
    BY <1>2, GotChange
  <2>2. g.row = r /\ g.ep = e
    BY <1>2, <2>1
  <2>3. epi'[e] = Told(i, r)
    BY <2>1, AddsTold, ToldType DEF Post
  <2>4. Told(i, r) # Unborn
    BY ToldType, GraphAssumption
  <2>. QED
    BY <2>2, <2>3, <2>4, ToldType
<1>. QED
  BY <1>1, <1>2

LEMMA ProvenancedStep == TypeOK /\ Got /\ Provenanced /\ [Next]_vars => Provenanced'
<1> SUFFICES ASSUME TypeOK, Got, Provenanced, [Next]_vars,
                    NEW m \in Memories, NEW e \in Episodes, <<m, e>> \in prov'
             PROVE  epi'[e] # Unborn /\ epi'[e].id = m
  BY DEF Provenanced
<1>1. epi[e] # Unborn /\ epi[e].id = m
  <2>1. CASE <<m, e>> \in prov
    BY <2>1 DEF Provenanced
  <2>2. CASE <<m, e>> \notin prov
    <3>1. PICK j \in Jobs : prov' = prov \cup {<<g.row.id, g.ep>> : g \in Stamped(j)}
      BY <2>2, ProvenanceChange
    <3>2. PICK g \in Stamped(j) : <<m, e>> = <<g.row.id, g.ep>>
      BY <2>2, <3>1
    <3>. QED
      BY <3>2 DEF Stamped, Got
  <2>. QED
    BY <2>1, <2>2
<1>. QED
  BY <1>1, EpisodeChange

\* What a stamped row becomes is in provenance and tells the row's revision.
LEMMA StampedRow ==
    ASSUME TypeOK, Got, Named, CurrentEpisode, [Next]_vars, NEW j \in Jobs, Stamp(j),
           NEW m \in Memories, mem'[m] # NoRow
    PROVE  /\ mem'[m].ep # NoEpisode => <<m, mem'[m].ep>> \in prov'
           /\ mem'[m].st = "ok" =>
                /\ <<m, mem'[m].ep>> \in prov'
                /\ epi[mem'[m].ep] # Unborn
                /\ epi[mem'[m].ep].id = m /\ epi[mem'[m].ep].rev = mem'[m].rev
<1>0. prov' = prov \cup {<<g.row.id, g.ep>> : g \in Stamped(j)}
  BY DEF Stamp
<1>1. CASE mem'[m] = mem[m]
  BY <1>0, <1>1 DEF Named, CurrentEpisode
<1>2. CASE mem[m] # NoRow /\ mem'[m] = [mem[m] EXCEPT !.st = "failed"]
  <2>1. mem[m] \in Row
    BY <1>2 DEF TypeOK
  <2>2. mem'[m].st = "failed" /\ mem'[m].ep = mem[m].ep
    BY <1>2, <2>1 DEF Row
  <2>. QED
    BY <1>0, <1>2, <2>2 DEF Named
<1>3. ASSUME NEW g \in Stamped(j), g.row.id = m, mem[m] # NoRow,
             mem[m].rev = g.row.rev,
             mem'[m] = [mem[m] EXCEPT !.st = "ok", !.ep = g.ep]
      PROVE  /\ <<m, mem'[m].ep>> \in prov' /\ epi[mem'[m].ep] # Unborn
             /\ epi[mem'[m].ep].id = m /\ epi[mem'[m].ep].rev = mem'[m].rev
  <2>1. mem[m] \in Row
    BY <1>3 DEF TypeOK
  <2>2. mem'[m].ep = g.ep /\ mem'[m].rev = g.row.rev
    BY <1>3, <2>1 DEF Row
  <2>3. g \in job[j].got
    BY DEF Stamped
  <2>. QED
    BY <1>0, <1>3, <2>2, <2>3 DEF Got
<1>. QED
  BY <1>1, <1>2, <1>3, StampRows

LEMMA NamedStep ==
    TypeOK /\ Got /\ Named /\ CurrentEpisode /\ [Next]_vars => Named' /\ CurrentEpisode'
<1> SUFFICES ASSUME TypeOK, Got, Named, CurrentEpisode, [Next]_vars,
                    NEW m \in Memories, mem'[m] # NoRow
             PROVE  /\ mem'[m].ep # NoEpisode => <<m, mem'[m].ep>> \in prov'
                    /\ mem'[m].st = "ok" =>
                         /\ <<m, mem'[m].ep>> \in prov'
                         /\ epi'[mem'[m].ep] # Unborn
                         /\ epi'[mem'[m].ep].id = m
                         /\ epi'[mem'[m].ep].rev = mem'[m].rev
  BY DEF Named, CurrentEpisode
<1>1. prov \subseteq prov'
  BY ProvenanceChange
<1>2. ASSUME mem'[m].st = "ok", epi[mem'[m].ep] # Unborn, <<m, mem'[m].ep>> \in prov'
      PROVE  epi'[mem'[m].ep] = epi[mem'[m].ep]
  <2>1. mem'[m].ep \in Episodes
    BY <1>2, NextType DEF TypeOK
  <2>. QED
    BY <1>2, <2>1, EpisodeChange
<1>3. CASE mem'[m] = mem[m]
  BY <1>1, <1>2, <1>3 DEF Named, CurrentEpisode
<1>4. CASE /\ mem'[m].st = "pending"
           /\ mem'[m].ep # NoEpisode => mem[m] # NoRow /\ mem'[m].ep = mem[m].ep
  BY <1>1, <1>4 DEF Named
<1>5. CASE \E j \in Jobs : Stamp(j)
  BY <1>2, <1>5, StampedRow
<1>. QED
  BY <1>3, <1>4, <1>5, RowChange

\* The invariant that keeps stale runs from overwriting a newer revision.
LEMMA ProjectionInvariant == Spec => []Projection
<1>1. Init => TypeOK /\ Projection
  BY InitType, InitProjection
<1>2. TypeOK /\ Projection /\ [Next]_vars => TypeOK' /\ Projection'
  BY NextType, GotStep, ProvenancedStep, NamedStep DEF Projection
<1>. QED
  BY <1>1, <1>2, PTL DEF Spec

\* A row marked ok names an episode of exactly its current revision, in
\* provenance, whatever runs overlap with whatever edits (the stamping
\* transactions of memoryGraphBackfill and memoryGraphRebuild).
THEOREM NeverStale == Spec => []CurrentEpisode
<1>1. Projection => CurrentEpisode
  BY DEF Projection
<1>. QED
  BY <1>1, ProjectionInvariant, PTL
-----------------------------------------------------------------------------
(* Removals.                                                               *)

\* Operations, planned deletions and the work of the sweepers are about
\* episodes that exist or existed; what a sweeper has removed is gone.
Removals == /\ \A e \in Episodes : op[e] # "none" => epi[e] # Unborn
            /\ \A d \in Bulks : \A e \in bulk[d].eps : epi[e] # Unborn
            /\ \A w \in Sweepers : \A e \in sweep[w].rows : op[e] # "none"
            /\ \A w \in Sweepers : \A e \in sweep[w].done :
                 epi[e] # Unborn /\ e \notin live
            /\ CompletedIsGone

LEMMA InitRemovals == Init => Removals
BY DEF Init, Removals, CompletedIsGone, IdleSweep, IdleBulk

\* How the operation of an episode changes: queued once, never forgotten,
\* completed only by a run that removed the episode.
LEMMA OperationChange ==
    ASSUME TypeOK, Projection, Removals, [Next]_vars, NEW e \in Episodes
    PROVE  /\ op[e] # "none" => op'[e] # "none"
           /\ op'[e] # "none" => epi[e] # Unborn
           /\ op'[e] = "completed" =>
                op[e] = "completed" \/ \E w \in Sweepers : e \in sweep[w].done
<1> DEFINE G == /\ op[e] # "none" => op'[e] # "none"
                /\ op'[e] # "none" => epi[e] # Unborn
                /\ op'[e] = "completed" =>
                     op[e] = "completed" \/ \E w \in Sweepers : e \in sweep[w].done
<1>0. ASSUME NEW S, op' = Queued(S), e \in S => epi[e] # Unborn PROVE G
  BY <1>0 DEF Queued, Removals
<1>1. ASSUME NEW m \in Memories, Create(m)
      PROVE  G
  BY <1>1 DEF Create, Removals
<1>2. ASSUME NEW m \in Memories, Edit(m)
      PROVE  G
  BY <1>2 DEF Edit, Removals
<1>3. ASSUME NEW m \in Memories, Delete(m)
      PROVE  G
  <2>1. e \in DeletionPlan(m, mem[m].ep) => <<m, e>> \in prov
    BY <1>3, GraphAssumption DEF DeletionPlan, Delete, Projection, Named
  <2>2. e \in DeletionPlan(m, mem[m].ep) => epi[e] # Unborn
    BY <2>1 DEF Projection, Provenanced
  <2>3. op' = Queued(DeletionPlan(m, mem[m].ep))
    BY <1>3 DEF Delete
  <2>. QED
    BY <1>0, <2>2, <2>3
<1>4. ASSUME NEW m \in Memories, Restore(m)
      PROVE  G
  BY <1>4 DEF Restore, Removals
<1>5. ASSUME NEW d \in Bulks, BulkRead(d)
      PROVE  G
  BY <1>5 DEF BulkRead, Removals
<1>6. ASSUME NEW d \in Bulks, BulkPlan(d)
      PROVE  G
  BY <1>6 DEF BulkPlan, Removals
<1>7. ASSUME NEW d \in Bulks, BulkCommit(d)
      PROVE  G
  BY <1>0, <1>7 DEF BulkCommit, Removals
<1>8. ASSUME NEW j \in Jobs, BackfillRead(j)
      PROVE  G
  BY <1>8 DEF BackfillRead, Removals
<1>9. ASSUME NEW j \in Jobs, RebuildRead(j)
      PROVE  G
  BY <1>9 DEF RebuildRead, Removals
<1>10. ASSUME NEW j \in Jobs, Stamp(j)
      PROVE  G
  <2> DEFINE S == {g.ep : g \in job[j].got \ Stamped(j)}
  <2>1. e \in S => epi[e] # Unborn
    BY DEF Projection, Got
  <2>2. op' = Queued(S)
    BY <1>10 DEF Stamp
  <2> HIDE DEF S
  <2>. QED
    BY <1>0, <2>1, <2>2
<1>11. ASSUME NEW j \in Jobs, JobCrash(j)
      PROVE  G
  BY <1>11 DEF JobCrash, Removals
<1>12. ASSUME NEW j \in Jobs, NEW r \in job[j].rows, NEW f \in Episodes, Post(j, r, f)
      PROVE  G
  BY <1>12 DEF Post, Removals
<1>13. ASSUME NEW j \in Jobs, NEW r \in job[j].rows, PostFails(j, r)
      PROVE  G
  BY <1>13 DEF PostFails, Removals
<1>14. ASSUME NEW x \in late, NEW f \in Episodes, LateAdd(x, f)
      PROVE  G
  BY <1>14 DEF LateAdd, Removals
<1>15. ASSUME NEW w \in Sweepers, SweepRead(w)
      PROVE  G
  BY <1>15 DEF SweepRead, Removals
<1>16. ASSUME NEW w \in Sweepers, SweepMark(w)
      PROVE  G
  BY <1>16 DEF SweepMark, Removals, Retryable
<1>17. ASSUME NEW w \in Sweepers, SweepStamp(w)
      PROVE  G
  BY <1>17 DEF SweepStamp, Outcome, Removals
<1>18. ASSUME NEW w \in Sweepers, SweepCrash(w)
      PROVE  G
  BY <1>18 DEF SweepCrash, Removals
<1>19. ASSUME NEW w \in Sweepers, NEW f \in Episodes, SweepRemove(w, f)
      PROVE  G
  BY <1>19 DEF SweepRemove, Removals
<1>20. ASSUME NEW w \in Sweepers, NEW f \in Episodes, SweepRemoveFails(w, f)
      PROVE  G
  BY <1>20 DEF SweepRemoveFails, Removals
<1>21. CASE UNCHANGED vars
  BY <1>21 DEF vars, Removals
<1>. QED
  BY <1>1, <1>2, <1>3, <1>4, <1>5, <1>6, <1>7, <1>8, <1>9, <1>10, <1>11,
     <1>12, <1>13, <1>14, <1>15, <1>16, <1>17, <1>18, <1>19, <1>20, <1>21 DEF
     Next

\* What a sweeper takes up has been queued, and what it did is to remove it.
LEMMA SweepChange ==
    ASSUME TypeOK, [Next]_vars, NEW w \in Sweepers, NEW e \in Episodes
    PROVE  /\ e \in sweep'[w].rows => e \in sweep[w].rows \/ op[e] # "none"
           /\ e \in sweep'[w].done =>
                e \in sweep[w].done \/ (e \in sweep[w].rows /\ e \notin live')
<1> DEFINE G == /\ e \in sweep'[w].rows => e \in sweep[w].rows \/ op[e] # "none"
                /\ e \in sweep'[w].done =>
                     e \in sweep[w].done \/ (e \in sweep[w].rows /\ e \notin live')
<1>0. sweep \in [Sweepers -> SweepState]
  BY DEF TypeOK
<1>1. ASSUME NEW m \in Memories, Create(m)
      PROVE  G
  BY <1>1 DEF Create
<1>2. ASSUME NEW m \in Memories, Edit(m)
      PROVE  G
  BY <1>2 DEF Edit
<1>3. ASSUME NEW m \in Memories, Delete(m)
      PROVE  G
  BY <1>3 DEF Delete
<1>4. ASSUME NEW m \in Memories, Restore(m)
      PROVE  G
  BY <1>4 DEF Restore
<1>5. ASSUME NEW d \in Bulks, BulkRead(d)
      PROVE  G
  BY <1>5 DEF BulkRead
<1>6. ASSUME NEW d \in Bulks, BulkPlan(d)
      PROVE  G
  BY <1>6 DEF BulkPlan
<1>7. ASSUME NEW d \in Bulks, BulkCommit(d)
      PROVE  G
  BY <1>7 DEF BulkCommit
<1>8. ASSUME NEW j \in Jobs, BackfillRead(j)
      PROVE  G
  BY <1>8 DEF BackfillRead
<1>9. ASSUME NEW j \in Jobs, RebuildRead(j)
      PROVE  G
  BY <1>9 DEF RebuildRead
<1>10. ASSUME NEW j \in Jobs, Stamp(j)
      PROVE  G
  BY <1>10 DEF Stamp
<1>11. ASSUME NEW j \in Jobs, JobCrash(j)
      PROVE  G
  BY <1>11 DEF JobCrash
<1>12. ASSUME NEW j \in Jobs, NEW r \in job[j].rows, NEW f \in Episodes, Post(j, r, f)
      PROVE  G
  BY <1>12 DEF Post
<1>13. ASSUME NEW j \in Jobs, NEW r \in job[j].rows, PostFails(j, r)
      PROVE  G
  BY <1>13 DEF PostFails
<1>14. ASSUME NEW x \in late, NEW f \in Episodes, LateAdd(x, f)
      PROVE  G
  BY <1>14 DEF LateAdd
<1>15. ASSUME NEW v \in Sweepers, SweepRead(v)
      PROVE  G
  <2>1. PICK stale \in Stale :
          sweep' = [sweep EXCEPT ![v] = [IdleSweep EXCEPT !.pc = "mark",
                      !.rows = stale \cup {g \in Episodes : op[g] \in Retryable}]]
    BY <1>15 DEF SweepRead
  <2>. QED
    BY <1>0, <2>1 DEF IdleSweep, Stale, Retryable
<1>16. ASSUME NEW v \in Sweepers, SweepMark(v)
      PROVE  G
  BY <1>0, <1>16 DEF SweepMark, SweepState
<1>17. ASSUME NEW v \in Sweepers, SweepStamp(v)
      PROVE  G
  BY <1>0, <1>17 DEF SweepStamp, IdleSweep
<1>18. ASSUME NEW v \in Sweepers, SweepCrash(v)
      PROVE  G
  BY <1>0, <1>18 DEF SweepCrash, IdleSweep
<1>19. ASSUME NEW v \in Sweepers, NEW f \in Episodes, SweepRemove(v, f)
      PROVE  G
  BY <1>0, <1>19 DEF SweepRemove, SweepState
<1>20. ASSUME NEW v \in Sweepers, NEW f \in Episodes, SweepRemoveFails(v, f)
      PROVE  G
  BY <1>0, <1>20 DEF SweepRemoveFails, SweepState
<1>21. CASE UNCHANGED vars
  BY <1>21 DEF vars
<1>. QED
  BY <1>1, <1>2, <1>3, <1>4, <1>5, <1>6, <1>7, <1>8, <1>9, <1>10, <1>11,
     <1>12, <1>13, <1>14, <1>15, <1>16, <1>17, <1>18, <1>19, <1>20, <1>21 DEF
     Next

\* What a bulk deletion plans to remove is in provenance when it plans it.
LEMMA BulkChange ==
    ASSUME TypeOK, [Next]_vars, NEW b \in Bulks, NEW e \in bulk'[b].eps
    PROVE  e \in bulk[b].eps \/ \E m \in Memories : <<m, e>> \in prov
<1> DEFINE G == e \in bulk[b].eps \/ \E m \in Memories : <<m, e>> \in prov
<1>0. bulk \in [Bulks -> BulkState]
  BY DEF TypeOK
<1>1. ASSUME NEW m \in Memories, Create(m)
      PROVE  G
  BY <1>1 DEF Create
<1>2. ASSUME NEW m \in Memories, Edit(m)
      PROVE  G
  BY <1>2 DEF Edit
<1>3. ASSUME NEW m \in Memories, Delete(m)
      PROVE  G
  BY <1>3 DEF Delete
<1>4. ASSUME NEW m \in Memories, Restore(m)
      PROVE  G
  BY <1>4 DEF Restore
<1>5. ASSUME NEW d \in Bulks, BulkRead(d)
      PROVE  G
  BY <1>0, <1>5 DEF BulkRead
<1>6. ASSUME NEW d \in Bulks, BulkPlan(d)
      PROVE  G
  <2>1. CASE b # d
    BY <1>0, <1>6, <2>1 DEF BulkPlan
  <2>2. CASE b = d
    <3> DEFINE es == UNION {DeletionPlan(m, NoEpisode) : m \in bulk[d].rows}
    <3>1. e \in es
      BY <1>0, <1>6, <2>2 DEF BulkPlan, BulkState
    <3>2. PICK m \in bulk[d].rows : e \in DeletionPlan(m, NoEpisode)
      BY <3>1
    <3>3. m \in Memories
      BY <1>0 DEF BulkState
    <3>. QED
      BY <3>2, <3>3, GraphAssumption DEF DeletionPlan
  <2>. QED
    BY <2>1, <2>2
<1>7. ASSUME NEW d \in Bulks, BulkCommit(d)
      PROVE  G
  BY <1>0, <1>7 DEF BulkCommit, IdleBulk
<1>8. ASSUME NEW j \in Jobs, BackfillRead(j)
      PROVE  G
  BY <1>8 DEF BackfillRead
<1>9. ASSUME NEW j \in Jobs, RebuildRead(j)
      PROVE  G
  BY <1>9 DEF RebuildRead
<1>10. ASSUME NEW j \in Jobs, Stamp(j)
      PROVE  G
  BY <1>10 DEF Stamp
<1>11. ASSUME NEW j \in Jobs, JobCrash(j)
      PROVE  G
  BY <1>11 DEF JobCrash
<1>12. ASSUME NEW j \in Jobs, NEW r \in job[j].rows, NEW f \in Episodes, Post(j, r, f)
      PROVE  G
  BY <1>12 DEF Post
<1>13. ASSUME NEW j \in Jobs, NEW r \in job[j].rows, PostFails(j, r)
      PROVE  G
  BY <1>13 DEF PostFails
<1>14. ASSUME NEW x \in late, NEW f \in Episodes, LateAdd(x, f)
      PROVE  G
  BY <1>14 DEF LateAdd
<1>15. ASSUME NEW w \in Sweepers, SweepRead(w)
      PROVE  G
  BY <1>15 DEF SweepRead
<1>16. ASSUME NEW w \in Sweepers, SweepMark(w)
      PROVE  G
  BY <1>16 DEF SweepMark
<1>17. ASSUME NEW w \in Sweepers, SweepStamp(w)
      PROVE  G
  BY <1>17 DEF SweepStamp
<1>18. ASSUME NEW w \in Sweepers, SweepCrash(w)
      PROVE  G
  BY <1>18 DEF SweepCrash
<1>19. ASSUME NEW w \in Sweepers, NEW f \in Episodes, SweepRemove(w, f)
      PROVE  G
  BY <1>19 DEF SweepRemove
<1>20. ASSUME NEW w \in Sweepers, NEW f \in Episodes, SweepRemoveFails(w, f)
      PROVE  G
  BY <1>20 DEF SweepRemoveFails
<1>21. CASE UNCHANGED vars
  BY <1>21 DEF vars
<1>. QED
  BY <1>1, <1>2, <1>3, <1>4, <1>5, <1>6, <1>7, <1>8, <1>9, <1>10, <1>11,
     <1>12, <1>13, <1>14, <1>15, <1>16, <1>17, <1>18, <1>19, <1>20, <1>21 DEF
     Next

LEMMA RemovalsStep == TypeOK /\ Projection /\ Removals /\ [Next]_vars => Removals'
<1> SUFFICES ASSUME TypeOK, Projection, Removals, [Next]_vars PROVE Removals'
  OBVIOUS
<1>0. TypeOK'
  BY NextType
<1>1. \A e \in Episodes : op'[e] # "none" => epi'[e] # Unborn
  BY OperationChange, EpisodeChange
<1>2. ASSUME NEW d \in Bulks, NEW e \in bulk'[d].eps PROVE epi'[e] # Unborn
  <2>1. e \in Episodes
    BY <1>0 DEF TypeOK, BulkState
  <2>2. epi[e] # Unborn
    BY <2>1, BulkChange DEF Removals, Projection, Provenanced
  <2>. QED
    BY <2>1, <2>2, EpisodeChange
<1>3. ASSUME NEW w \in Sweepers, NEW e \in sweep'[w].rows PROVE op'[e] # "none"
  <2>1. e \in Episodes
    BY <1>0 DEF TypeOK, SweepState
  <2>2. op[e] # "none"
    BY <2>1, SweepChange DEF Removals
  <2>. QED
    BY <2>1, <2>2, OperationChange
<1>4. ASSUME NEW w \in Sweepers, NEW e \in sweep'[w].done
      PROVE  epi'[e] # Unborn /\ e \notin live'
  <2>1. e \in Episodes
    BY <1>0 DEF TypeOK, SweepState
  <2>2. epi[e] # Unborn
    BY <2>1, SweepChange DEF Removals
  <2>. QED
    BY <2>1, <2>2, SweepChange, EpisodeChange DEF Removals
<1>5. ASSUME NEW e \in Episodes, op'[e] = "completed" PROVE e \notin live'
  <2>1. epi[e] # Unborn /\ e \notin live
    BY <1>5, OperationChange DEF Removals, CompletedIsGone
  <2>. QED
    BY <2>1, EpisodeChange
<1>. QED
  BY <1>1, <1>2, <1>3, <1>4, <1>5 DEF Removals, CompletedIsGone

\* An operation marked completed is about an episode that Graphiti no longer
\* holds and never will again, however many runs overlap (graphLifecycle).
THEOREM CompletedForGood == Spec => []CompletedIsGone
<1>1. Init => TypeOK /\ Projection /\ Removals
  BY InitType, InitProjection, InitRemovals
<1>2. TypeOK /\ Projection /\ Removals /\ [Next]_vars
        => TypeOK' /\ Projection' /\ Removals'
  BY NextType, GotStep, ProvenancedStep, NamedStep, RemovalsStep DEF Projection
<1>3. Removals => CompletedIsGone
  BY DEF Removals
<1>. QED
  BY <1>1, <1>2, <1>3, PTL DEF Spec

\* A row goes by a deletion only, of its own or of everything.
LEMMA RowGoes ==
    ASSUME TypeOK, [Next]_vars, NEW m \in Memories, mem[m] # NoRow, mem'[m] = NoRow
    PROVE  prov' = prov /\ (Delete(m) \/ \E d \in Bulks : BulkCommit(d))
<1> DEFINE G == prov' = prov /\ (Delete(m) \/ \E d \in Bulks : BulkCommit(d))
<1>0. mem[m] \in Row /\ m \in DOMAIN mem
  BY DEF TypeOK
<1>1. ASSUME NEW n \in Memories, Create(n)
      PROVE  G
  <2>1. mem[n] = NoRow /\ mem' = [mem EXCEPT ![n] = mem'[n]]
    BY <1>1 DEF Create, TypeOK
  <2>2. n # m
    BY <2>1
  <2>3. mem'[m] = mem[m]
    BY <2>1, <2>2 DEF TypeOK
  <2>. QED
    BY <2>3
<1>2. ASSUME NEW n \in Memories, Edit(n)
      PROVE  G
  <2>1. [NewRow(n, top[n] + 1, TRUE) EXCEPT !.ep = mem[n].ep] \in Row
    <3>1. mem[n] \in Row /\ top[n] + 1 \in Nat \ {0} /\ TRUE \in BOOLEAN
      BY <1>2 DEF Edit, TypeOK
    <3>2. NewRow(n, top[n] + 1, TRUE) \in Row
      BY <3>1, NewRowType
    <3>. QED
      BY <3>1, <3>2 DEF Row
  <2>2. mem' = [mem EXCEPT ![n] = [NewRow(n, top[n] + 1, TRUE) EXCEPT !.ep = mem[n].ep]]
    BY <1>2 DEF Edit
  <2>3. mem'[n] # NoRow
    BY <2>1, <2>2, GraphAssumption DEF TypeOK
  <2>. QED
    BY <2>2, <2>3 DEF TypeOK
<1>3. ASSUME NEW n \in Memories, Delete(n)
      PROVE  G
  <2>1. mem' = [mem EXCEPT ![n] = NoRow]
    BY <1>3 DEF Delete
  <2>2. n = m
    BY <2>1 DEF TypeOK
  <2>. QED
    BY <1>3, <2>2 DEF Delete
<1>4. ASSUME NEW n \in Memories, Restore(n)
      PROVE  G
  <2>1. mem[n] = NoRow /\ mem' = [mem EXCEPT ![n] = mem'[n]]
    BY <1>4 DEF Restore, TypeOK
  <2>2. n # m
    BY <2>1
  <2>3. mem'[m] = mem[m]
    BY <2>1, <2>2 DEF TypeOK
  <2>. QED
    BY <2>3
<1>5. ASSUME NEW d \in Bulks, BulkRead(d)
      PROVE  G
  BY <1>5 DEF BulkRead, rowVars
<1>6. ASSUME NEW d \in Bulks, BulkPlan(d)
      PROVE  G
  BY <1>6 DEF BulkPlan, rowVars
<1>7. ASSUME NEW d \in Bulks, BulkCommit(d)
      PROVE  G
  BY <1>7 DEF BulkCommit
<1>8. ASSUME NEW j \in Jobs, BackfillRead(j)
      PROVE  G
  BY <1>8 DEF BackfillRead, rowVars
<1>9. ASSUME NEW j \in Jobs, RebuildRead(j)
      PROVE  G
  BY <1>9 DEF RebuildRead, rowVars
<1>10. ASSUME NEW j \in Jobs, Stamp(j)
      PROVE  G
  BY <1>0, <1>10, StampOne
<1>11. ASSUME NEW j \in Jobs, JobCrash(j)
      PROVE  G
  BY <1>11 DEF JobCrash, rowVars
<1>12. ASSUME NEW j \in Jobs, NEW r \in job[j].rows, NEW e \in Episodes, Post(j, r, e)
      PROVE  G
  BY <1>12 DEF Post, rowVars
<1>13. ASSUME NEW j \in Jobs, NEW r \in job[j].rows, PostFails(j, r)
      PROVE  G
  BY <1>13 DEF PostFails, rowVars
<1>14. ASSUME NEW x \in late, NEW e \in Episodes, LateAdd(x, e)
      PROVE  G
  BY <1>14 DEF LateAdd, rowVars
<1>15. ASSUME NEW w \in Sweepers, SweepRead(w)
      PROVE  G
  BY <1>15 DEF SweepRead, rowVars
<1>16. ASSUME NEW w \in Sweepers, SweepMark(w)
      PROVE  G
  BY <1>16 DEF SweepMark, rowVars
<1>17. ASSUME NEW w \in Sweepers, SweepStamp(w)
      PROVE  G
  BY <1>17 DEF SweepStamp, rowVars
<1>18. ASSUME NEW w \in Sweepers, SweepCrash(w)
      PROVE  G
  BY <1>18 DEF SweepCrash, rowVars
<1>19. ASSUME NEW w \in Sweepers, NEW e \in Episodes, SweepRemove(w, e)
      PROVE  G
  BY <1>19 DEF SweepRemove, rowVars
<1>20. ASSUME NEW w \in Sweepers, NEW e \in Episodes, SweepRemoveFails(w, e)
      PROVE  G
  BY <1>20 DEF SweepRemoveFails, rowVars
<1>21. CASE UNCHANGED vars
  BY <1>21 DEF vars
<1>. QED
  BY <1>1, <1>2, <1>3, <1>4, <1>5, <1>6, <1>7, <1>8, <1>9, <1>10, <1>11,
     <1>12, <1>13, <1>14, <1>15, <1>16, <1>17, <1>18, <1>19, <1>20, <1>21 DEF
     Next

\* What runs have stamped behind a bulk deletion is not forgotten.
LEMMA PassedGrows ==
    ASSUME [Next]_vars
    PROVE  passed \subseteq passed'
<1>1. ASSUME NEW m \in Memories, Create(m) \/ Edit(m) \/ Delete(m) \/ Restore(m)
      PROVE  passed' = passed
  BY <1>1 DEF Create, Edit, Delete, Restore, history
<1>2. ASSUME NEW d \in Bulks, BulkRead(d) \/ BulkPlan(d) \/ BulkCommit(d) PROVE passed' = passed
  BY <1>2 DEF BulkRead, BulkPlan, BulkCommit, history
<1>3. ASSUME NEW j \in Jobs,
             \/ BackfillRead(j) \/ RebuildRead(j) \/ Stamp(j) \/ JobCrash(j)
             \/ \E r \in job[j].rows : \/ \E e \in Episodes : Post(j, r, e)
                                       \/ PostFails(j, r)
      PROVE  passed \subseteq passed'
  BY <1>3 DEF BackfillRead, RebuildRead, Stamp, JobCrash, Post, PostFails, history
<1>4. ASSUME \E x \in late, e \in Episodes : LateAdd(x, e) PROVE passed' = passed
  BY <1>4 DEF LateAdd, history
<1>5. ASSUME NEW w \in Sweepers,
             \/ SweepRead(w) \/ SweepMark(w) \/ SweepStamp(w) \/ SweepCrash(w)
             \/ \E e \in Episodes : SweepRemove(w, e) \/ SweepRemoveFails(w, e)
      PROVE  passed' = passed
  BY <1>5 DEF SweepRead, SweepMark, SweepStamp, SweepCrash, SweepRemove, SweepRemoveFails, history
<1>6. CASE UNCHANGED vars
  BY <1>6 DEF vars
<1> QED
  BY <1>1, <1>2, <1>3, <1>4, <1>5, <1>6 DEF Next

\* Where a bulk deletion is, is changed by its own steps only.
LEMMA BulkMoves ==
    ASSUME TypeOK, [Next]_vars, NEW d \in Bulks
    PROVE  bulk'[d] = bulk[d] \/ BulkRead(d) \/ BulkPlan(d) \/ BulkCommit(d)
<1> DEFINE G == bulk'[d] = bulk[d] \/ BulkRead(d) \/ BulkPlan(d) \/ BulkCommit(d)
<1>1. ASSUME NEW m \in Memories, Create(m) \/ Edit(m) \/ Delete(m) \/ Restore(m) PROVE G
  BY <1>1 DEF Create, Edit, Delete, Restore
<1>2. ASSUME NEW b \in Bulks, BulkRead(b) \/ BulkPlan(b) \/ BulkCommit(b) PROVE G
  <2>1. CASE b = d
    BY <1>2, <2>1
  <2>2. CASE b # d
    BY <1>2, <2>2 DEF BulkRead, BulkPlan, BulkCommit, TypeOK
  <2> QED
    BY <2>1, <2>2
<1>3. ASSUME NEW j \in Jobs,
             \/ BackfillRead(j) \/ RebuildRead(j) \/ Stamp(j) \/ JobCrash(j)
             \/ \E r \in job[j].rows : \/ \E e \in Episodes : Post(j, r, e)
                                       \/ PostFails(j, r)
      PROVE  G
  BY <1>3 DEF BackfillRead, RebuildRead, Stamp, JobCrash, Post, PostFails
<1>4. ASSUME \E x \in late, e \in Episodes : LateAdd(x, e) PROVE G
  BY <1>4 DEF LateAdd
<1>5. ASSUME NEW w \in Sweepers,
             \/ SweepRead(w) \/ SweepMark(w) \/ SweepStamp(w) \/ SweepCrash(w)
             \/ \E e \in Episodes : SweepRemove(w, e) \/ SweepRemoveFails(w, e)
      PROVE  G
  BY <1>5 DEF SweepRead, SweepMark, SweepStamp, SweepCrash, SweepRemove, SweepRemoveFails
<1>6. CASE UNCHANGED vars
  BY <1>6 DEF vars
<1> QED
  BY <1>1, <1>2, <1>3, <1>4, <1>5, <1>6 DEF Next

\* Of the rows that are there, a bulk deletion under way has planned, or will
\* plan, every episode except those stamped behind it and those queued before.
Overseen(d, m, e) ==
    /\ bulk[d].pc = "commit" => e \in bulk[d].eps \/ e \in passed \/ op[e] # "none"
    /\ bulk[d].pc = "plan" /\ m \notin bulk[d].rows => e \in passed \/ op[e] # "none"
BulksOversee ==
    \A d \in Bulks, m \in Memories, e \in Episodes :
      <<m, e>> \in prov /\ mem[m] # NoRow => Overseen(d, m, e)

LEMMA BulksOverseeStep ==
    TypeOK /\ Projection /\ Removals /\ DeletedIsQueued /\ BulksOversee /\ [Next]_vars => BulksOversee'
<1> SUFFICES ASSUME TypeOK, Projection, Removals, DeletedIsQueued, BulksOversee, [Next]_vars,
                    NEW d \in Bulks, NEW m \in Memories, NEW e \in Episodes,
                    <<m, e>> \in prov', mem'[m] # NoRow,
                    e \notin passed', op'[e] = "none"
             PROVE  /\ bulk'[d].pc = "commit" => e \in bulk'[d].eps
                    /\ bulk'[d].pc = "plan" => m \in bulk'[d].rows
  BY DEF BulksOversee, Overseen
<1> DEFINE G == /\ bulk'[d].pc = "commit" => e \in bulk'[d].eps
                /\ bulk'[d].pc = "plan" => m \in bulk'[d].rows
<1>0. /\ bulk \in [Bulks -> BulkState] /\ e \notin passed /\ op[e] = "none"
  BY PassedGrows, OperationChange DEF TypeOK
<1>1. CASE <<m, e>> \notin prov
  <2>1. PICK j \in Jobs : /\ Stamp(j)
                          /\ prov' = prov \cup {<<g.row.id, g.ep>> : g \in Stamped(j)}
    BY <1>1, ProvenanceChange
  <2>2. PICK g \in Stamped(j) : <<m, e>> = <<g.row.id, g.ep>>
    BY <1>1, <2>1
  <2>3. ~Unplanned(m)
    BY <1>0, <2>1, <2>2 DEF Stamp
  <2>4. bulk' = bulk
    BY <2>1 DEF Stamp
  <2> QED
    BY <2>3, <2>4 DEF Unplanned
<1>2. CASE <<m, e>> \in prov
  <2>0. mem[m] # NoRow
    BY <1>0, <1>2 DEF DeletedIsQueued
  <2>1. /\ bulk[d].pc = "commit" => e \in bulk[d].eps
        /\ bulk[d].pc = "plan" => m \in bulk[d].rows
    BY <1>0, <1>2, <2>0 DEF BulksOversee, Overseen
  <2>2. CASE bulk'[d] = bulk[d]
    BY <2>1, <2>2
  <2>3. CASE BulkRead(d)
    <3>1. bulk'[d] = [pc |-> "plan", eps |-> {}, rows |-> {n \in Memories : mem[n] # NoRow}]
      BY <1>0, <2>3 DEF BulkRead
    <3> QED
      BY <2>0, <3>1
  <2>4. CASE BulkPlan(d)
    <3> DEFINE es == UNION {DeletionPlan(n, NoEpisode) : n \in bulk[d].rows}
    <3>1. bulk'[d].pc = "commit" /\ bulk'[d].eps = es
      BY <1>0, <2>4 DEF BulkPlan, BulkState
    <3>2. m \in bulk[d].rows
      BY <2>1, <2>4 DEF BulkPlan
    <3>3. e \in DeletionPlan(m, NoEpisode)
      BY <1>2 DEF DeletionPlan
    <3>4. e \in es
      BY <3>2, <3>3
    <3> QED
      BY <3>1, <3>4
  <2>5. CASE BulkCommit(d)
    <3>1. bulk'[d] = IdleBulk
      BY <1>0, <2>5 DEF BulkCommit
    <3> QED
      BY <3>1 DEF IdleBulk
  <2> QED
    BY <2>2, <2>3, <2>4, <2>5, BulkMoves
<1> QED
  BY <1>1, <1>2

\* No memory goes without the removal of each episode in its provenance being
\* queued (enqueueGraphRemoval), even when runs that read the row before stamp
\* after its deletion; except those that a run stamps between the time DELETE
\* /memories reads and the time it deletes.
THEOREM DeletionIsQueued == Spec => []DeletedIsQueued
<1> DEFINE I == TypeOK /\ Projection /\ Removals /\ DeletedIsQueued /\ BulksOversee
<1>1. Init => I
  BY InitType, InitProjection, InitRemovals DEF Init, DeletedIsQueued, BulksOversee
<1>2. ASSUME TypeOK, Projection, Removals, DeletedIsQueued, BulksOversee, [Next]_vars,
             NEW m \in Memories, NEW e \in Episodes, <<m, e>> \in prov', mem'[m] = NoRow
      PROVE  op'[e] # "none" \/ e \in passed'
  <2>1. CASE mem[m] = NoRow
    <3>1. <<m, e>> \in prov
      <4>1. ASSUME NEW j \in Jobs, <<m, e>> \in {<<g.row.id, g.ep>> : g \in Stamped(j)}
            PROVE  FALSE
        BY <2>1, <4>1 DEF Stamped, Stampable
      <4>. QED
        BY <1>2, <4>1, ProvenanceChange
    <3>2. op[e] # "none" \/ e \in passed
      BY <1>2, <2>1, <3>1 DEF DeletedIsQueued
    <3>. QED
      BY <1>2, <3>2, OperationChange, PassedGrows
  <2>2. CASE mem[m] # NoRow
    <3>1. prov' = prov /\ (Delete(m) \/ \E d \in Bulks : BulkCommit(d))
      BY <1>2, <2>2, RowGoes
    <3>2. CASE Delete(m)
      BY <1>2, <3>1, <3>2 DEF Delete, Queued, DeletionPlan
    <3>3. ASSUME NEW d \in Bulks, BulkCommit(d) PROVE op'[e] # "none" \/ e \in passed'
      <4>1. e \in bulk[d].eps \/ e \in passed \/ op[e] # "none"
        BY <1>2, <2>2, <3>1, <3>3 DEF BulksOversee, Overseen, BulkCommit
      <4>2. op' = Queued(bulk[d].eps)
        BY <3>3 DEF BulkCommit
      <4>3. e \in bulk[d].eps \/ op[e] # "none" => op'[e] # "none"
        BY <4>2 DEF Queued
      <4>. QED
        BY <1>2, <4>1, <4>3, PassedGrows
    <3>. QED
      BY <3>1, <3>2, <3>3
  <2>. QED
    BY <2>1, <2>2
<1>3. I /\ [Next]_vars => I'
  BY <1>2, NextType, GotStep, ProvenancedStep, NamedStep, RemovalsStep, BulksOverseeStep
     DEF Projection, DeletedIsQueued
<1>4. I => DeletedIsQueued
  OBVIOUS
<1>. QED
  BY <1>1, <1>3, <1>4, PTL DEF Spec
-----------------------------------------------------------------------------
(* The episode a memory stands for.                                        *)

\* Revisions are counted: the first of a legacy record is unclassified, every
\* other one is classified, and nobody has seen one that is yet to come.
Contracted(m, r) == m \notin Legacy \/ r >= 2
Numbered ==
    /\ \A m \in Legacy : top[m] >= 1
    /\ \A m \in Memories : mem[m] # NoRow =>
         mem[m].rev <= top[m] /\ (mem[m].cls <=> Contracted(m, mem[m].rev))
    /\ \A e \in Episodes : epi[e] # Unborn =>
         epi[e].rev <= top[epi[e].id] /\ (epi[e].keyed => Contracted(epi[e].id, epi[e].rev))
    /\ \A x \in late : x.rev <= top[x.id] /\ (x.keyed => Contracted(x.id, x.rev))
    /\ \A j \in Jobs : \A r \in job[j].rows :
         r.rev <= top[r.id] /\ (j \in Backfills => Contracted(r.id, r.rev))

\* A run reads a row once, and its kind tells in its episodes.
ReadOnce ==
    \A j \in Jobs :
      /\ \A r, s \in job[j].rows : r.id = s.id => r = s
      /\ \A g \in job[j].got : g.row \in job[j].rows /\ epi[g.ep].keyed = (j \in Backfills)

\* While a row has the revision a backfill run read, it has the version, too,
\* and unless runs shared it only a rebuild run can have stamped it since.
SameVersion ==
    \A j \in Backfills : \A r \in job[j].rows :
      mem[r.id] # NoRow /\ mem[r.id].rev = r.rev =>
        /\ mem[r.id].ver = r.ver
        /\ mem[r.id].st = "ok" /\ <<r.id, r.rev>> \notin shared => ~epi[mem[r.id].ep].keyed

\* Two backfill runs that hold one revision are known to.
Sharing ==
    \A i, j \in Backfills : \A r \in job[i].rows, s \in job[j].rows :
      i # j /\ r.id = s.id /\ r.rev = s.rev => <<r.id, r.rev>> \in shared

\* What a rebuild run got is its own and of nobody else.
OfItsOwn ==
    \A j \in Rebuilds : \A g \in job[j].got :
      /\ op[g.ep] = "none"
      /\ \A m \in Memories : <<m, g.ep>> \notin prov
      /\ \A i \in Jobs : \A h \in job[i].got : h.ep = g.ep => i = j

\* What a bulk deletion plans to remove is in provenance.
PlannedKnown == \A d \in Bulks : \A e \in bulk[d].eps : \E m \in Memories : <<m, e>> \in prov

\* When the episode that has the key of the row's revision is queued for
\* removal, the row stands by another one for good, unless runs shared the revision.
Spent ==
    \A e \in Episodes : \A m \in Memories :
      /\ op[e] # "none" /\ epi[e] # Unborn /\ epi[e].keyed /\ epi[e].id = m
      /\ mem[m] # NoRow /\ mem[m].rev = epi[e].rev /\ <<m, mem[m].rev>> \notin shared
      => mem[m].st = "ok" /\ mem[m].ep # e

KeptInv == /\ Numbered /\ ReadOnce /\ SameVersion /\ Sharing /\ OfItsOwn /\ PlannedKnown
           /\ Spent /\ CurrentKept

RowActs == \/ \E m \in Memories : Create(m) \/ Edit(m) \/ Delete(m) \/ Restore(m)
           \/ \E d \in Bulks : BulkCommit(d)
           \/ \E j \in Jobs : Stamp(j)

\* Which actions change the rows, the runs and the operations.
LEMMA RowFrame ==
    ASSUME [Next]_vars
    PROVE  (mem' = mem /\ top' = top) \/ RowActs
<1> DEFINE G == (mem' = mem /\ top' = top) \/ RowActs
<1>1. ASSUME NEW m \in Memories, Create(m) \/ Edit(m) \/ Delete(m) \/ Restore(m) PROVE G
  BY <1>1 DEF RowActs
<1>2. ASSUME NEW d \in Bulks, BulkRead(d) \/ BulkPlan(d) \/ BulkCommit(d) PROVE G
  BY <1>2 DEF RowActs, BulkRead, BulkPlan, rowVars
<1>3. ASSUME NEW j \in Jobs,
             \/ BackfillRead(j) \/ RebuildRead(j) \/ Stamp(j) \/ JobCrash(j)
             \/ \E r \in job[j].rows : \/ \E e \in Episodes : Post(j, r, e)
                                       \/ PostFails(j, r)
      PROVE  G
  BY <1>3 DEF RowActs, BackfillRead, RebuildRead, JobCrash, Post, PostFails, rowVars
<1>4. ASSUME \E x \in late, e \in Episodes : LateAdd(x, e) PROVE G
  BY <1>4 DEF LateAdd, rowVars
<1>5. ASSUME NEW w \in Sweepers,
             \/ SweepRead(w) \/ SweepMark(w) \/ SweepStamp(w) \/ SweepCrash(w)
             \/ \E e \in Episodes : SweepRemove(w, e) \/ SweepRemoveFails(w, e)
      PROVE  G
  BY <1>5 DEF SweepRead, SweepMark, SweepStamp, SweepCrash, SweepRemove, SweepRemoveFails, rowVars
<1>6. CASE UNCHANGED vars
  BY <1>6 DEF vars
<1> QED
  BY <1>1, <1>2, <1>3, <1>4, <1>5, <1>6 DEF Next

JobActs(j) == \/ BackfillRead(j) \/ RebuildRead(j) \/ Stamp(j) \/ JobCrash(j)
              \/ \E r \in job[j].rows : \/ \E e \in Episodes : Post(j, r, e)
                                        \/ PostFails(j, r)
LEMMA JobFrame ==
    ASSUME TypeOK, [Next]_vars, NEW i \in Jobs
    PROVE  job'[i] = job[i] \/ JobActs(i)
<1> DEFINE G == job'[i] = job[i] \/ JobActs(i)
<1>0. job \in [Jobs -> JobState]
  BY DEF TypeOK
<1>1. ASSUME NEW m \in Memories, Create(m) \/ Edit(m) \/ Delete(m) \/ Restore(m) PROVE G
  BY <1>1 DEF Create, Edit, Delete, Restore
<1>2. ASSUME NEW d \in Bulks, BulkRead(d) \/ BulkPlan(d) \/ BulkCommit(d) PROVE G
  BY <1>2 DEF BulkRead, BulkPlan, BulkCommit
<1>3. ASSUME NEW j \in Jobs, JobActs(j) PROVE G
  <2>1. CASE j = i
    BY <1>3, <2>1
  <2>2. CASE j # i
    BY <1>0, <1>3, <2>2 DEF JobActs, BackfillRead, RebuildRead, Stamp, JobCrash, Post, PostFails
  <2> QED
    BY <2>1, <2>2
<1>4. ASSUME \E x \in late, e \in Episodes : LateAdd(x, e) PROVE G
  BY <1>4 DEF LateAdd
<1>5. ASSUME NEW w \in Sweepers,
             \/ SweepRead(w) \/ SweepMark(w) \/ SweepStamp(w) \/ SweepCrash(w)
             \/ \E e \in Episodes : SweepRemove(w, e) \/ SweepRemoveFails(w, e)
      PROVE  G
  BY <1>5 DEF SweepRead, SweepMark, SweepStamp, SweepCrash, SweepRemove, SweepRemoveFails
<1>6. CASE UNCHANGED vars
  BY <1>6 DEF vars
<1> QED
  BY <1>1, <1>2, <1>3, <1>4, <1>5, <1>6 DEF Next, JobActs

\* A removal is queued by deletions, single or bulk, and by the transactions of runs.
LEMMA NewlyQueued ==
    ASSUME TypeOK, Removals, [Next]_vars, NEW e \in Episodes, op[e] = "none", op'[e] # "none"
    PROVE  \/ \E m \in Memories : Delete(m) /\ e \in DeletionPlan(m, mem[m].ep)
           \/ \E d \in Bulks : BulkCommit(d) /\ e \in bulk[d].eps
           \/ \E j \in Jobs : Stamp(j) /\ \E g \in job[j].got \ Stamped(j) : g.ep = e
<1> DEFINE G == \/ \E m \in Memories : Delete(m) /\ e \in DeletionPlan(m, mem[m].ep)
                \/ \E d \in Bulks : BulkCommit(d) /\ e \in bulk[d].eps
                \/ \E j \in Jobs : Stamp(j) /\ \E g \in job[j].got \ Stamped(j) : g.ep = e
<1>1. ASSUME NEW m \in Memories, Create(m) \/ Edit(m) \/ Delete(m) \/ Restore(m) PROVE G
  <2>1. Delete(m)
    BY <1>1 DEF Create, Edit, Restore
  <2>2. op' = Queued(DeletionPlan(m, mem[m].ep))
    BY <2>1 DEF Delete
  <2> QED
    BY <2>1, <2>2 DEF Queued
<1>2. ASSUME NEW d \in Bulks, BulkRead(d) \/ BulkPlan(d) \/ BulkCommit(d) PROVE G
  <2>1. BulkCommit(d)
    BY <1>2 DEF BulkRead, BulkPlan
  <2> QED
    BY <2>1 DEF Queued, BulkCommit
<1>3. ASSUME NEW j \in Jobs, JobActs(j) PROVE G
  <2>1. Stamp(j)
    BY <1>3 DEF JobActs, BackfillRead, RebuildRead, JobCrash, Post, PostFails
  <2>2. op' = Queued({g.ep : g \in job[j].got \ Stamped(j)})
    BY <2>1 DEF Stamp
  <2>3. e \in {g.ep : g \in job[j].got \ Stamped(j)}
    BY <2>2 DEF Queued
  <2> QED
    BY <2>1, <2>3
<1>4. ASSUME \E x \in late, f \in Episodes : LateAdd(x, f) PROVE G
  BY <1>4 DEF LateAdd
<1>5. ASSUME NEW w \in Sweepers,
             \/ SweepRead(w) \/ SweepMark(w) \/ SweepStamp(w) \/ SweepCrash(w)
             \/ \E f \in Episodes : SweepRemove(w, f) \/ SweepRemoveFails(w, f)
      PROVE  G
  <2>1. SweepStamp(w) =>
          e \notin sweep[w].rows /\ e \notin sweep[w].failed /\ e \notin sweep[w].done
    BY DEF Removals, SweepStamp
  <2>2. op[e] \notin Retryable
    BY DEF Retryable
  <2>3. ~SweepStamp(w)
    BY <2>1 DEF SweepStamp, Outcome
  <2> QED
    BY <1>5, <2>2, <2>3 DEF SweepRead, SweepMark, SweepCrash, SweepRemove, SweepRemoveFails
<1>6. CASE UNCHANGED vars
  BY <1>6 DEF vars
<1> QED
  BY <1>1, <1>2, <1>3, <1>4, <1>5, <1>6 DEF Next, JobActs

\* What a step may make of a row.
NewRevision(m) == /\ mem'[m] # NoRow /\ mem'[m].st = "pending" /\ mem'[m].cls
                  /\ mem'[m].rev = top[m] + 1 /\ top'[m] = top[m] + 1
BroughtBack(m) == /\ mem'[m] # NoRow /\ mem'[m].st = "pending" /\ ~mem'[m].cls
                  /\ m \in Legacy /\ mem'[m].rev = 1 /\ top'[m] = top[m]
Restamped(m) == /\ mem[m] # NoRow /\ mem'[m] # NoRow
                /\ mem'[m].rev = mem[m].rev /\ mem'[m].ver = mem[m].ver
                /\ mem'[m].cls = mem[m].cls
                /\ \E j \in Jobs : Stamp(j)
LEMMA RowStep ==
    ASSUME TypeOK, [Next]_vars, NEW m \in Memories
    PROVE  /\ top'[m] \in Nat /\ top[m] <= top'[m]
           /\ \/ top'[m] = top[m] /\ (mem'[m] = mem[m] \/ mem'[m] = NoRow \/ Restamped(m))
              \/ NewRevision(m) \/ BroughtBack(m)
<1> DEFINE G == \/ top'[m] = top[m] /\ (mem'[m] = mem[m] \/ mem'[m] = NoRow \/ Restamped(m))
                \/ NewRevision(m) \/ BroughtBack(m)
<1>0. /\ mem \in [Memories -> Row \cup {NoRow}] /\ top \in [Memories -> Nat]
      /\ clock \in [Memories -> Nat] /\ top[m] \in Nat
  BY DEF TypeOK
<1>1. ASSUME NEW n \in Memories, Create(n) PROVE G
  <2>1. CASE n # m
    BY <1>0, <1>1, <2>1 DEF Create
  <2>2. CASE n = m
    <3>1. mem'[m] = NewRow(m, 1, TRUE) /\ top'[m] = 1 /\ top[m] = 0
      BY <1>0, <1>1, <2>2 DEF Create
    <3>2. NewRow(m, 1, TRUE) \in Row
      <4>1. 1 \in Nat \ {0} /\ TRUE \in BOOLEAN
        OBVIOUS
      <4> QED
        BY <4>1, NewRowType
    <3>3. mem'[m].st = "pending" /\ mem'[m].cls /\ mem'[m].rev = 1
      BY <3>1 DEF NewRow
    <3>4. mem'[m] # NoRow
      BY <3>1, <3>2, GraphAssumption
    <3>5. 1 = top[m] + 1
      BY <3>1
    <3> QED
      BY <3>1, <3>3, <3>4, <3>5 DEF NewRevision
  <2> QED
    BY <2>1, <2>2
<1>2. ASSUME NEW n \in Memories, Edit(n) PROVE G
  <2>1. CASE n # m
    BY <1>0, <1>2, <2>1 DEF Edit
  <2>2. CASE n = m
    <3>1. /\ mem'[m] = [NewRow(m, top[m] + 1, TRUE) EXCEPT !.ep = mem[m].ep]
          /\ top'[m] = top[m] + 1 /\ mem[m] # NoRow
      BY <1>0, <1>2, <2>2 DEF Edit
    <3>2. NewRow(m, top[m] + 1, TRUE) \in Row /\ mem[m] \in Row
      <4>1. top[m] + 1 \in Nat \ {0} /\ TRUE \in BOOLEAN
        BY <1>0
      <4> QED
        BY <1>0, <3>1, <4>1, NewRowType
    <3>3. mem'[m] \in Row
      BY <3>1, <3>2 DEF Row
    <3>4. mem'[m].st = "pending" /\ mem'[m].cls /\ mem'[m].rev = top[m] + 1
      BY <3>1 DEF NewRow
    <3> QED
      BY <3>1, <3>3, <3>4, GraphAssumption DEF NewRevision
  <2> QED
    BY <2>1, <2>2
<1>3. ASSUME NEW n \in Memories, Delete(n) PROVE G
  BY <1>0, <1>3 DEF Delete
<1>4. ASSUME NEW n \in Memories, Restore(n) PROVE G
  <2>1. CASE n # m
    BY <1>0, <1>4, <2>1 DEF Restore
  <2>2. CASE n = m
    <3>1. mem'[m] = NewRow(m, 1, FALSE) /\ top'[m] = top[m] /\ m \in Legacy
      BY <1>0, <1>4, <2>2 DEF Restore
    <3>2. NewRow(m, 1, FALSE) \in Row
      <4>1. 1 \in Nat \ {0} /\ FALSE \in BOOLEAN
        OBVIOUS
      <4> QED
        BY <4>1, NewRowType
    <3> QED
      BY <3>1, <3>2, GraphAssumption DEF BroughtBack, NewRow
  <2> QED
    BY <2>1, <2>2
<1>5. ASSUME NEW d \in Bulks, BulkCommit(d) PROVE G
  BY <1>0, <1>5 DEF BulkCommit
<1>6. ASSUME NEW j \in Jobs, Stamp(j) PROVE G
  <2>1. top' = top /\ mem' \in [Memories -> Row \cup {NoRow}]
    BY <1>6, StampRows DEF Stamp
  <2>2. CASE mem'[m] = mem[m]
    BY <2>1, <2>2
  <2>3. CASE mem'[m] # mem[m]
    BY <1>6, <2>1, <2>3, StampOne DEF Restamped
  <2> QED
    BY <2>2, <2>3
<1>7. G
  BY <1>1, <1>2, <1>3, <1>4, <1>5, <1>6, RowFrame DEF RowActs
<1>8. top'[m] = top[m] \/ top'[m] = top[m] + 1
  BY <1>7 DEF NewRevision, BroughtBack
<1> QED
  BY <1>0, <1>7, <1>8

\* What a step may make of a run.
Reads(i) == \E S \in SUBSET {m \in Memories : mem[m] # NoRow} :
              /\ i \in Backfills => S \subseteq Due
              /\ job'[i].rows = {SeenRow(m) : m \in S} /\ job'[i].got = {}
              /\ mem' = mem /\ top' = top
Gets(i) == \E r \in job[i].rows, e \in Episodes :
              /\ Post(i, r, e) /\ job'[i].rows = job[i].rows
              /\ job'[i].got = job[i].got \cup {[row |-> r, ep |-> e]}
LEMMA JobStep ==
    ASSUME TypeOK, [Next]_vars, NEW i \in Jobs
    PROVE  \/ job'[i].rows = job[i].rows /\ job'[i].got = job[i].got
           \/ job'[i].rows = {} /\ job'[i].got = {}
           \/ Reads(i) \/ Gets(i)
<1>0. job \in [Jobs -> JobState]
  BY DEF TypeOK
<1>1. CASE BackfillRead(i)
  <2>1. job'[i] = [job[i] EXCEPT !.rows = {SeenRow(m) : m \in Due}]
    BY <1>0, <1>1 DEF BackfillRead
  <2>2. job'[i].rows = {SeenRow(m) : m \in Due} /\ job'[i].got = {}
    BY <1>1, <2>1 DEF BackfillRead, IdleJob
  <2>3. Due \in SUBSET {m \in Memories : mem[m] # NoRow}
    BY DEF Due
  <2> QED
    BY <1>1, <2>2, <2>3 DEF BackfillRead, Reads, rowVars
<1>2. CASE RebuildRead(i)
  <2>1. PICK S \in SUBSET {m \in Memories : mem[m] # NoRow} :
          job' = [job EXCEPT ![i].rows = {SeenRow(m) : m \in S}]
    BY <1>2 DEF RebuildRead
  <2>2. job'[i] = [job[i] EXCEPT !.rows = {SeenRow(m) : m \in S}]
    BY <1>0, <2>1
  <2>3. job'[i].rows = {SeenRow(m) : m \in S} /\ job'[i].got = {}
    BY <1>2, <2>2 DEF RebuildRead, IdleJob
  <2>4. i \notin Backfills
    BY <1>2, GraphAssumption DEF RebuildRead
  <2> QED
    BY <1>2, <2>3, <2>4 DEF RebuildRead, Reads, rowVars
<1>3. CASE Stamp(i) \/ JobCrash(i)
  <2>1. job' = [job EXCEPT ![i] = IdleJob]
    BY <1>3 DEF Stamp, JobCrash
  <2> QED
    BY <1>0, <2>1 DEF IdleJob
<1>4. ASSUME NEW r \in job[i].rows, NEW e \in Episodes, Post(i, r, e) PROVE Gets(i)
  <2>1. job'[i] = [job[i] EXCEPT !.got = job[i].got \cup {[row |-> r, ep |-> e]}]
    BY <1>0, <1>4 DEF Post
  <2>2. job'[i].rows = job[i].rows /\ job'[i].got = job[i].got \cup {[row |-> r, ep |-> e]}
    BY <1>0, <2>1 DEF JobState
  <2> QED
    BY <1>4, <2>2 DEF Gets
<1>5. ASSUME NEW r \in job[i].rows, PostFails(i, r)
      PROVE  job'[i].rows = job[i].rows /\ job'[i].got = job[i].got
  BY <1>0, <1>5 DEF PostFails, JobState
<1> QED
  BY <1>1, <1>2, <1>3, <1>4, <1>5, JobFrame DEF JobActs

\* Graphiti is told what a run read, by its call or by one that is late.
LEMMA NewlyTold ==
    ASSUME TypeOK, [Next]_vars
    PROVE  /\ \A e \in Episodes : epi'[e] # epi[e] =>
                epi'[e] \in late \/ \E j \in Jobs : \E r \in job[j].rows : epi'[e] = Told(j, r)
           /\ \A x \in late' : x \in late \/ \E j \in Jobs : \E r \in job[j].rows : x = Told(j, r)
<1> DEFINE G == /\ \A e \in Episodes : epi'[e] # epi[e] =>
                     \/ epi'[e] \in late
                     \/ \E j \in Jobs : \E r \in job[j].rows : epi'[e] = Told(j, r)
                /\ \A x \in late' :
                     x \in late \/ \E j \in Jobs : \E r \in job[j].rows : x = Told(j, r)
<1>0. ASSUME NEW x, NEW f \in Episodes, Adds(x, f), NEW e \in Episodes, epi'[e] # epi[e]
      PROVE  epi'[e] = x
  BY <1>0 DEF Adds, TypeOK
<1>1. ASSUME NEW m \in Memories, Create(m) \/ Edit(m) \/ Delete(m) \/ Restore(m) PROVE G
  BY <1>1 DEF Create, Edit, Delete, Restore, graphiti
<1>2. ASSUME NEW d \in Bulks, BulkRead(d) \/ BulkPlan(d) \/ BulkCommit(d) PROVE G
  BY <1>2 DEF BulkRead, BulkPlan, BulkCommit, graphiti
<1>3. ASSUME NEW j \in Jobs, BackfillRead(j) \/ RebuildRead(j) \/ Stamp(j) \/ JobCrash(j) PROVE G
  BY <1>3 DEF BackfillRead, RebuildRead, Stamp, JobCrash, graphiti
<1>4. ASSUME NEW j \in Jobs, NEW r \in job[j].rows, NEW e \in Episodes, Post(j, r, e) PROVE G
  BY <1>0, <1>4 DEF Post
<1>5. ASSUME NEW j \in Jobs, NEW r \in job[j].rows, PostFails(j, r) PROVE G
  BY <1>5 DEF PostFails
<1>6. ASSUME NEW x \in late, NEW e \in Episodes, LateAdd(x, e) PROVE G
  BY <1>0, <1>6 DEF LateAdd
<1>7. ASSUME NEW w \in Sweepers,
             \/ SweepRead(w) \/ SweepMark(w) \/ SweepStamp(w) \/ SweepCrash(w)
             \/ \E e \in Episodes : SweepRemove(w, e) \/ SweepRemoveFails(w, e)
      PROVE  G
  BY <1>7 DEF SweepRead, SweepMark, SweepStamp, SweepCrash, SweepRemove, SweepRemoveFails, graphiti
<1>8. CASE UNCHANGED vars
  BY <1>8 DEF vars
<1> QED
  BY <1>1, <1>2, <1>3, <1>4, <1>5, <1>6, <1>7, <1>8 DEF Next

LEMMA NumberedStep == TypeOK /\ Projection /\ Numbered /\ [Next]_vars => Numbered'
<1> SUFFICES ASSUME TypeOK, Projection, Numbered, [Next]_vars PROVE Numbered'
  OBVIOUS
<1>0. /\ TypeOK' /\ Legacy \subseteq Memories /\ Backfills \cap Rebuilds = {}
      /\ top \in [Memories -> Nat] /\ top' \in [Memories -> Nat]
  BY NextType, GraphAssumption DEF TypeOK
<1>1. ASSUME NEW m \in Memories PROVE top[m] <= top'[m]
  BY <1>1, RowStep
<1>2. ASSUME NEW m \in Legacy PROVE top'[m] >= 1
  <2>1. m \in Memories /\ top[m] \in Nat /\ top'[m] \in Nat /\ top[m] >= 1
    BY <1>0 DEF Numbered
  <2> QED
    BY <1>1, <2>1
<1>3. ASSUME NEW m \in Memories, mem'[m] # NoRow
      PROVE  mem'[m].rev <= top'[m] /\ (mem'[m].cls <=> Contracted(m, mem'[m].rev))
  <2>0. top[m] \in Nat /\ top'[m] \in Nat /\ mem'[m].rev \in Nat
    BY <1>0, <1>3 DEF TypeOK, Row
  <2>1. CASE mem'[m] = mem[m] \/ Restamped(m)
    <3>1. mem[m] # NoRow /\ mem'[m].rev = mem[m].rev /\ mem'[m].cls = mem[m].cls
      BY <1>3, <2>1 DEF Restamped
    <3>2. mem[m].rev <= top[m] /\ (mem[m].cls <=> Contracted(m, mem[m].rev))
      BY <3>1 DEF Numbered
    <3>3. mem'[m].rev <= top'[m]
      BY <1>1, <2>0, <3>1, <3>2
    <3> QED
      BY <3>1, <3>2, <3>3 DEF Contracted
  <2>2. CASE NewRevision(m)
    <3>1. m \in Legacy => top[m] >= 1
      BY DEF Numbered
    <3> QED
      BY <2>0, <2>2, <3>1 DEF NewRevision, Contracted
  <2>3. CASE BroughtBack(m)
    <3>1. top[m] >= 1
      BY <2>3 DEF Numbered, BroughtBack
    <3> QED
      BY <2>0, <2>3, <3>1 DEF BroughtBack, Contracted
  <2> QED
    BY <1>3, <2>1, <2>2, <2>3, RowStep
<1>4. ASSUME NEW j \in Jobs, NEW r \in job'[j].rows
      PROVE  r.rev <= top'[r.id] /\ (j \in Backfills => Contracted(r.id, r.rev))
  <2>0. r \in Seen /\ r.id \in Memories /\ r.rev \in Nat /\ top[r.id] \in Nat /\ top'[r.id] \in Nat
    BY <1>0 DEF TypeOK, JobState, Seen
  <2>1. r.rev <= top[r.id] /\ (j \in Backfills => Contracted(r.id, r.rev))
    <3>1. CASE r \in job[j].rows
      BY <3>1 DEF Numbered
    <3>2. CASE Reads(j)
      <4>1. PICK m \in Memories : mem[m] # NoRow /\ r = SeenRow(m) /\ (j \in Backfills => m \in Due)
        BY <3>2 DEF Reads
      <4>2. r.id = m /\ r.rev = mem[m].rev
        BY <4>1 DEF SeenRow
      <4> QED
        BY <4>1, <4>2 DEF Numbered, Due
    <3> QED
      BY <3>1, <3>2, JobStep DEF Gets
  <2> QED
    BY <1>1, <2>0, <2>1
<1>5. ASSUME NEW x \in Episode, x.rev <= top[x.id] PROVE x.rev <= top'[x.id]
  <2>1. x.id \in Memories /\ x.rev \in Nat /\ top[x.id] \in Nat /\ top'[x.id] \in Nat
    BY <1>0 DEF Episode
  <2> QED
    BY <1>1, <1>5, <2>1
<1>6. ASSUME NEW j \in Jobs, NEW r \in job[j].rows
      PROVE  /\ Told(j, r) \in Episode /\ Told(j, r).rev <= top[Told(j, r).id]
             /\ Told(j, r).keyed => Contracted(Told(j, r).id, Told(j, r).rev)
  BY ToldType DEF Numbered, Told, Keyed
<1>7. ASSUME NEW x \in late' PROVE x.rev <= top'[x.id] /\ (x.keyed => Contracted(x.id, x.rev))
  <2>1. CASE x \in late
    <3>1. x \in Episode
      BY <2>1 DEF TypeOK
    <3> QED
      BY <1>5, <2>1, <3>1 DEF Numbered
  <2>2. ASSUME NEW j \in Jobs, NEW r \in job[j].rows, x = Told(j, r)
        PROVE  x.rev <= top'[x.id] /\ (x.keyed => Contracted(x.id, x.rev))
    BY <1>5, <1>6, <2>2
  <2> QED
    BY <2>1, <2>2, NewlyTold
<1>8. ASSUME NEW e \in Episodes, epi'[e] # Unborn
      PROVE  epi'[e].rev <= top'[epi'[e].id] /\ (epi'[e].keyed => Contracted(epi'[e].id, epi'[e].rev))
  <2> DEFINE x == epi'[e]
  <2>0. x \in Episode
    BY <1>0, <1>8 DEF TypeOK
  <2>1. CASE x = epi[e]
    <3>1. x.rev <= top[x.id] /\ (x.keyed => Contracted(x.id, x.rev))
      BY <1>8, <2>1 DEF Numbered
    <3> QED
      BY <1>5, <2>0, <3>1
  <2>2. CASE x \in late
    <3>1. x.rev <= top[x.id] /\ (x.keyed => Contracted(x.id, x.rev))
      BY <2>2 DEF Numbered
    <3> QED
      BY <1>5, <2>0, <3>1
  <2>3. ASSUME NEW j \in Jobs, NEW r \in job[j].rows, x = Told(j, r)
        PROVE  x.rev <= top'[x.id] /\ (x.keyed => Contracted(x.id, x.rev))
    BY <1>5, <1>6, <2>3
  <2> QED
    BY <2>1, <2>2, <2>3, NewlyTold
<1> QED
  BY <1>2, <1>3, <1>4, <1>7, <1>8 DEF Numbered, Contracted

LEMMA ReadOnceStep == TypeOK /\ Projection /\ ReadOnce /\ [Next]_vars => ReadOnce'
<1> SUFFICES ASSUME TypeOK, Projection, ReadOnce, [Next]_vars, NEW j \in Jobs
             PROVE  /\ \A r, s \in job'[j].rows : r.id = s.id => r = s
                    /\ \A g \in job'[j].got :
                         g.row \in job'[j].rows /\ epi'[g.ep].keyed = (j \in Backfills)
  BY DEF ReadOnce
<1>1. ASSUME NEW g \in job[j].got
      PROVE  g.row \in job[j].rows /\ epi'[g.ep].keyed = (j \in Backfills)
  <2>1. g.ep \in Episodes
    BY DEF TypeOK, JobState
  <2>2. epi'[g.ep] = epi[g.ep]
    BY <2>1, EpisodeChange DEF Projection, Got
  <2> QED
    BY <2>2 DEF ReadOnce
<1>2. CASE Reads(j)
  <2>1. \A r \in job'[j].rows : r = SeenRow(r.id)
    BY <1>2 DEF Reads, SeenRow
  <2> QED
    BY <1>2, <2>1 DEF Reads
<1>3. CASE Gets(j)
  <2>1. PICK r \in job[j].rows, e \in Episodes :
          /\ Post(j, r, e) /\ job'[j].rows = job[j].rows
          /\ job'[j].got = job[j].got \cup {[row |-> r, ep |-> e]}
    BY <1>3 DEF Gets
  <2>2. epi'[e] = Told(j, r)
    BY <2>1, AddsTold, ToldType DEF Post
  <2>3. epi'[e].keyed = (j \in Backfills)
    BY <2>2 DEF Told, Keyed
  <2> QED
    BY <1>1, <2>1, <2>3 DEF ReadOnce
<1> QED
  BY <1>1, <1>2, <1>3, JobStep DEF ReadOnce

\* What runs have shared is not forgotten.
LEMMA SharedGrows ==
    ASSUME [Next]_vars
    PROVE  shared \subseteq shared'
<1>1. ASSUME NEW m \in Memories, Create(m) \/ Edit(m) \/ Delete(m) \/ Restore(m)
      PROVE  shared' = shared
  BY <1>1 DEF Create, Edit, Delete, Restore, history
<1>2. ASSUME NEW d \in Bulks, BulkRead(d) \/ BulkPlan(d) \/ BulkCommit(d) PROVE shared' = shared
  BY <1>2 DEF BulkRead, BulkPlan, BulkCommit, history
<1>3. ASSUME NEW j \in Jobs, JobActs(j) PROVE shared \subseteq shared'
  BY <1>3 DEF JobActs, BackfillRead, RebuildRead, Stamp, JobCrash, Post, PostFails, history
<1>4. ASSUME \E x \in late, e \in Episodes : LateAdd(x, e) PROVE shared' = shared
  BY <1>4 DEF LateAdd, history
<1>5. ASSUME NEW w \in Sweepers,
             \/ SweepRead(w) \/ SweepMark(w) \/ SweepStamp(w) \/ SweepCrash(w)
             \/ \E e \in Episodes : SweepRemove(w, e) \/ SweepRemoveFails(w, e)
      PROVE  shared' = shared
  BY <1>5 DEF SweepRead, SweepMark, SweepStamp, SweepCrash, SweepRemove, SweepRemoveFails, history
<1>6. CASE UNCHANGED vars
  BY <1>6 DEF vars
<1> QED
  BY <1>1, <1>2, <1>3, <1>4, <1>5, <1>6 DEF Next, JobActs

\* A backfill run holds what it held or reads.
LEMMA RunReads ==
    ASSUME TypeOK, [Next]_vars, NEW i \in Backfills, NEW r \in job'[i].rows
    PROVE  r \in job[i].rows \/ BackfillRead(i)
<1>0. i \in Jobs /\ i \notin Rebuilds /\ job \in [Jobs -> JobState]
  BY GraphAssumption DEF Jobs, TypeOK
<1>1. CASE Stamp(i) \/ JobCrash(i)
  <2>1. job'[i] = IdleJob
    BY <1>0, <1>1 DEF Stamp, JobCrash
  <2> QED
    BY <2>1 DEF IdleJob
<1>2. ASSUME NEW q \in job[i].rows, NEW e \in Episodes, Post(i, q, e) PROVE r \in job[i].rows
  BY <1>0, <1>2 DEF Post, JobState
<1>3. ASSUME NEW q \in job[i].rows, PostFails(i, q) PROVE r \in job[i].rows
  BY <1>0, <1>3 DEF PostFails, JobState
<1> QED
  BY <1>0, <1>1, <1>2, <1>3, JobFrame DEF JobActs, RebuildRead

\* What a backfill run reads while another one holds it is shared from then on.
LEMMA ReadSharing ==
    ASSUME TypeOK, Sharing, NEW i \in Backfills, BackfillRead(i), NEW j \in Backfills, i # j,
           NEW r \in job'[i].rows, NEW s \in job'[j].rows, r.id = s.id, r.rev = s.rev
    PROVE  <<r.id, r.rev>> \in shared'
<1>1. job'[j] = job[j] /\ job'[i].rows = {SeenRow(m) : m \in Due}
  BY DEF BackfillRead, TypeOK, Jobs, JobState
<1>2. PICK m \in Due : r = SeenRow(m)
  BY <1>1
<1>3. r.id = m /\ r.rev = mem[m].rev
  BY <1>2 DEF SeenRow
<1>4. HeldElsewhere(i, m)
  BY <1>1, <1>3 DEF HeldElsewhere
<1> QED
  BY <1>3, <1>4 DEF BackfillRead

LEMMA SharingStep == TypeOK /\ Sharing /\ [Next]_vars => Sharing'
<1> SUFFICES ASSUME TypeOK, Sharing, [Next]_vars, NEW i \in Backfills, NEW j \in Backfills,
                    NEW r \in job'[i].rows, NEW s \in job'[j].rows,
                    i # j, r.id = s.id, r.rev = s.rev
             PROVE  <<r.id, r.rev>> \in shared'
  BY DEF Sharing
<1>0. i \in Jobs /\ j \in Jobs
  BY DEF Jobs
<1>1. r \in job[i].rows \/ BackfillRead(i)
  BY <1>0, RunReads
<1>2. s \in job[j].rows \/ BackfillRead(j)
  BY <1>0, RunReads
<1>3. CASE BackfillRead(i)
  BY <1>3, ReadSharing
<1>4. CASE BackfillRead(j)
  <2>1. <<s.id, s.rev>> \in shared'
    BY <1>4, ReadSharing
  <2> QED
    BY <2>1
<1>5. CASE r \in job[i].rows /\ s \in job[j].rows
  BY <1>5, SharedGrows DEF Sharing
<1> QED
  BY <1>1, <1>2, <1>3, <1>4, <1>5

LEMMA SameVersionStep ==
    ASSUME TypeOK, Projection, Numbered, ReadOnce, SameVersion, Sharing, [Next]_vars
    PROVE  SameVersion'
<1> SUFFICES ASSUME NEW j \in Backfills, NEW r \in job'[j].rows,
                    mem'[r.id] # NoRow, mem'[r.id].rev = r.rev
             PROVE  /\ mem'[r.id].ver = r.ver
                    /\ mem'[r.id].st = "ok" /\ <<r.id, r.rev>> \notin shared'
                         => ~epi'[mem'[r.id].ep].keyed
  BY DEF SameVersion
<1>0. j \in Jobs /\ TypeOK'
  BY NextType DEF Jobs
<1>1. PICK m \in Memories : r.id = m
  BY <1>0 DEF TypeOK, JobState, Seen
<1>2. CASE Reads(j) /\ r \notin job[j].rows
  <2>1. PICK n \in Due : r = SeenRow(n)
    BY <1>2 DEF Reads
  <2>2. n = m /\ r.ver = mem[m].ver /\ mem' = mem
    BY <1>1, <1>2, <2>1 DEF SeenRow, Reads
  <2> QED
    BY <1>1, <2>1, <2>2 DEF Due, Retryable
<1>3. CASE r \in job[j].rows
  <2>1. r.rev <= top[m] /\ Contracted(m, r.rev) /\ r.rev \in Nat /\ top[m] \in Nat
    BY <1>0, <1>1, <1>3 DEF Numbered, TypeOK, JobState, Seen
  <2>2. ~NewRevision(m)
    BY <1>1, <2>1 DEF NewRevision
  <2>3. ~BroughtBack(m)
    BY <1>1, <2>1 DEF BroughtBack, Contracted
  <2>4. mem'[m] = mem[m] \/ Restamped(m)
    BY <1>1, <2>2, <2>3, RowStep
  <2>5. mem[m] # NoRow /\ mem[m].rev = r.rev /\ mem[m].ver = mem'[m].ver
    BY <1>1, <2>4 DEF Restamped
  <2>6. /\ mem[m].ver = r.ver
        /\ mem[m].st = "ok" /\ <<m, r.rev>> \notin shared' => ~epi[mem[m].ep].keyed
    BY <1>1, <1>3, <2>5, SharedGrows DEF SameVersion
  <2>7. CASE mem'[m] = mem[m]
    <3>1. ASSUME mem[m].st = "ok" PROVE epi'[mem[m].ep] = epi[mem[m].ep]
      <4>1. epi[mem[m].ep] # Unborn /\ <<m, mem[m].ep>> \in prov
        BY <2>5, <3>1 DEF Projection, CurrentEpisode
      <4>2. mem[m].ep \in Episodes
        BY <4>1 DEF TypeOK
      <4> QED
        BY <4>1, <4>2, EpisodeChange
    <3> QED
      BY <1>1, <2>6, <2>7, <3>1
  <2>8. CASE mem'[m] # mem[m]
    <3>1. PICK i \in Jobs : Stamp(i)
      BY <2>4, <2>8 DEF Restamped
    <3>2. i # j
      <4>1. i = j => job'[j].rows = {}
        BY <1>0, <3>1 DEF Stamp, IdleJob, TypeOK
      <4> QED
        BY <4>1
    <3>3. ASSUME NEW g \in Stamped(i), g.row.id = m, <<m, r.rev>> \notin shared'
          PROVE  i \notin Backfills
      <4>1. g.row \in job[i].rows /\ g.row.rev = r.rev
        BY <2>5, <3>3 DEF Stamped, Stampable, ReadOnce
      <4>2. i \in Backfills => <<m, r.rev>> \in shared
        BY <1>1, <1>3, <3>2, <3>3, <4>1 DEF Sharing
      <4> QED
        BY <3>3, <4>2, SharedGrows
    <3>4. \/ mem'[m].st = "failed"
          \/ \E g \in Stamped(i) : g.row.id = m /\ mem'[m].st = "ok" /\ mem'[m].ep = g.ep
      BY <2>8, <3>1, StampOne
    <3>7. ASSUME NEW g \in Stamped(i), g.row.id = m, mem'[m].ep = g.ep,
                 <<m, r.rev>> \notin shared'
          PROVE  ~epi'[mem'[m].ep].keyed
      <4>1. g \in job[i].got /\ g.ep \in Episodes
        BY DEF Stamped, TypeOK, JobState
      <4>2. epi[g.ep] # Unborn /\ ~epi[g.ep].keyed
        BY <3>3, <3>7, <4>1 DEF ReadOnce, Projection, Got
      <4> QED
        BY <3>7, <4>1, <4>2, EpisodeChange
    <3> QED
      BY <1>1, <2>5, <2>6, <3>4, <3>7
  <2> QED
    BY <2>7, <2>8
<1> QED
  BY <1>0, <1>2, <1>3, JobStep DEF Gets

LEMMA OfItsOwnStep ==
    ASSUME TypeOK, Projection, Removals, ReadOnce, OfItsOwn, PlannedKnown, [Next]_vars
    PROVE  OfItsOwn'
<1> SUFFICES ASSUME NEW j \in Rebuilds, NEW g \in job'[j].got
             PROVE  /\ op'[g.ep] = "none"
                    /\ \A m \in Memories : <<m, g.ep>> \notin prov'
                    /\ \A i \in Jobs : \A h \in job'[i].got : h.ep = g.ep => i = j
  BY DEF OfItsOwn
<1>0. j \in Jobs /\ j \notin Backfills /\ TypeOK'
  BY NextType, GraphAssumption DEF Jobs
<1> DEFINE e == g.ep
<1>1. e \in Episodes
  BY <1>0 DEF TypeOK, JobState
<1>2. CASE g \in job[j].got
  <2>1. /\ op[e] = "none" /\ (\A m \in Memories : <<m, e>> \notin prov)
        /\ epi[e] # Unborn /\ ~epi[e].keyed
    BY <1>0, <1>2 DEF OfItsOwn, Projection, Got, ReadOnce
  <2>2. ASSUME NEW i \in Jobs, NEW h \in job[i].got, h.ep = e PROVE i = j
    BY <1>2, <2>2 DEF OfItsOwn
  <2>3. ~Stamp(j)
    <3>1. Stamp(j) => job' = [job EXCEPT ![j] = IdleJob]
      BY DEF Stamp
    <3>2. job \in [Jobs -> JobState]
      BY DEF TypeOK
    <3> QED
      BY <1>0, <3>1, <3>2 DEF IdleJob
  <2>4. op'[e] = "none"
    <3>1. ASSUME NEW m \in Memories, Delete(m), e \in DeletionPlan(m, mem[m].ep) PROVE FALSE
      <4>1. <<m, e>> \in prov
        BY <1>1, <3>1, GraphAssumption DEF DeletionPlan, Delete, Projection, Named
      <4> QED
        BY <2>1, <4>1
    <3>2. ASSUME NEW d \in Bulks, e \in bulk[d].eps PROVE FALSE
      BY <2>1, <3>2 DEF PlannedKnown
    <3>3. ASSUME NEW i \in Jobs, Stamp(i), NEW h \in job[i].got \ Stamped(i), h.ep = e PROVE FALSE
      BY <2>2, <2>3, <3>3
    <3> QED
      BY <1>1, <2>1, <3>1, <3>2, <3>3, NewlyQueued
  <2>5. ASSUME NEW m \in Memories, <<m, e>> \in prov' PROVE FALSE
    <3>1. PICK i \in Jobs : /\ Stamp(i)
                            /\ prov' = prov \cup {<<h.row.id, h.ep>> : h \in Stamped(i)}
      BY <2>1, <2>5, ProvenanceChange
    <3>2. PICK h \in Stamped(i) : <<m, e>> = <<h.row.id, h.ep>>
      BY <2>1, <2>5, <3>1
    <3>3. h \in job[i].got /\ h.ep = e
      BY <3>2 DEF Stamped
    <3> QED
      BY <2>2, <2>3, <3>1, <3>3
  <2>6. ASSUME NEW i \in Jobs, NEW h \in job'[i].got, h.ep = e PROVE i = j
    <3>1. CASE h \in job[i].got
      BY <2>2, <2>6, <3>1
    <3>2. CASE h \notin job[i].got
      <4>1. PICK r \in job[i].rows, f \in Episodes :
              Post(i, r, f) /\ job'[i].got = job[i].got \cup {[row |-> r, ep |-> f]}
        BY <3>2, GotChange
      <4>2. f = e
        BY <2>6, <3>2, <4>1
      <4>3. CASE e \in Match(Told(i, r))
        BY <2>1, <4>3 DEF Match
      <4>4. CASE epi[e] = Unborn
        BY <2>1, <4>4
      <4> QED
        BY <4>1, <4>2, <4>3, <4>4 DEF Post, Adds
    <3> QED
      BY <3>1, <3>2
  <2> QED
    BY <2>4, <2>5, <2>6
<1>3. CASE g \notin job[j].got
  <2>1. PICK r \in job[j].rows, f \in Episodes :
          Post(j, r, f) /\ job'[j].got = job[j].got \cup {[row |-> r, ep |-> f]}
    BY <1>0, <1>3, GotChange
  <2>2. f = e
    BY <1>3, <2>1
  <2>3. Match(Told(j, r)) = {}
    BY <1>0 DEF Match, Told, Keyed
  <2>4. epi[e] = Unborn
    BY <2>1, <2>2, <2>3 DEF Post, Adds
  <2>5. op[e] = "none" /\ \A m \in Memories : <<m, e>> \notin prov
    BY <1>1, <2>4 DEF Removals, Projection, Provenanced
  <2>6. op' = op /\ prov' = prov /\ (\A i \in Jobs : i # j => job'[i] = job[i])
    BY <2>1 DEF Post, TypeOK
  <2>7. ASSUME NEW i \in Jobs, NEW h \in job'[i].got, h.ep = e PROVE i = j
    <3>1. h \notin job[i].got
      BY <2>4, <2>7 DEF Projection, Got
    <3> QED
      BY <2>6, <3>1
  <2> QED
    BY <2>5, <2>6, <2>7
<1> QED
  BY <1>2, <1>3

LEMMA PlannedKnownStep == TypeOK /\ PlannedKnown /\ [Next]_vars => PlannedKnown'
<1> SUFFICES ASSUME TypeOK, PlannedKnown, [Next]_vars, NEW d \in Bulks, NEW e \in bulk'[d].eps
             PROVE  \E m \in Memories : <<m, e>> \in prov'
  BY DEF PlannedKnown
<1>1. e \in Episodes
  BY NextType DEF TypeOK, BulkState
<1>2. prov \subseteq prov'
  BY ProvenanceChange
<1> QED
  BY <1>1, <1>2, BulkChange DEF PlannedKnown

LEMMA SpentStep ==
    ASSUME TypeOK, Projection, Removals, Numbered, ReadOnce, SameVersion, Spent, [Next]_vars
    PROVE  Spent'
<1> SUFFICES ASSUME NEW e \in Episodes, NEW m \in Memories,
                    op'[e] # "none", epi'[e] # Unborn, epi'[e].keyed, epi'[e].id = m,
                    mem'[m] # NoRow, mem'[m].rev = epi'[e].rev, <<m, mem'[m].rev>> \notin shared'
             PROVE  mem'[m].st = "ok" /\ mem'[m].ep # e
  BY DEF Spent
<1>0. TypeOK'
  BY NextType
<1>1. epi[e] # Unborn /\ epi'[e] = epi[e]
  BY OperationChange, EpisodeChange
<1>2. epi[e].rev \in Nat /\ epi[e].rev <= top[m] /\ Contracted(m, epi[e].rev) /\ top[m] \in Nat
  BY <1>1 DEF Numbered, TypeOK, Episode
<1>3. mem'[m] = mem[m] \/ Restamped(m)
  <2>1. ~NewRevision(m)
    BY <1>1, <1>2 DEF NewRevision
  <2>2. ~BroughtBack(m)
    BY <1>1, <1>2 DEF BroughtBack, Contracted
  <2> QED
    BY <2>1, <2>2, RowStep
<1>4. /\ mem[m] # NoRow /\ mem[m] \in Row /\ mem[m].rev = epi[e].rev
      /\ <<m, mem[m].rev>> \notin shared
  BY <1>1, <1>3, SharedGrows DEF Restamped, TypeOK
<1>5. mem[m].st = "ok" /\ mem[m].ep # e
  <2>1. CASE op[e] # "none"
    BY <1>1, <1>4, <2>1 DEF Spent
  <2>2. ASSUME NEW n \in Memories, Delete(n), e \in DeletionPlan(n, mem[n].ep) PROVE FALSE
    <3>1. <<n, e>> \in prov
      BY <2>2, GraphAssumption DEF DeletionPlan, Delete, Projection, Named
    <3>2. n = m
      BY <1>1, <3>1 DEF Projection, Provenanced
    <3> QED
      BY <2>2, <3>2 DEF Delete, TypeOK
  <2>3. ASSUME NEW d \in Bulks, BulkCommit(d) PROVE FALSE
    BY <2>3 DEF BulkCommit
  <2>4. ASSUME NEW j \in Jobs, Stamp(j), NEW g \in job[j].got \ Stamped(j), g.ep = e
        PROVE  mem[m].st = "ok" /\ mem[m].ep # e
    <3>1. j \in Backfills /\ g.row \in job[j].rows
      BY <1>1, <2>4 DEF ReadOnce
    <3>2. g.row.id = m /\ g.row.rev = mem[m].rev
      BY <1>1, <1>4, <2>4 DEF Projection, Got
    <3>3. mem[m].ver = g.row.ver /\ (mem[m].st = "ok" => ~epi[mem[m].ep].keyed)
      <4>1. <<g.row.id, g.row.rev>> \notin shared
        BY <1>4, <3>2
      <4> QED
        BY <1>4, <3>1, <3>2, <4>1 DEF SameVersion
    <3>4. mem[m].st \notin Retryable
      BY <1>4, <2>4, <3>2, <3>3 DEF Stamped, Stampable
    <3>5. mem[m].st = "ok"
      BY <1>4, <3>4 DEF Row, Status, Retryable
    <3> QED
      BY <1>1, <3>3, <3>5
  <2> QED
    BY <2>1, <2>2, <2>3, <2>4, NewlyQueued
<1>6. CASE mem'[m] = mem[m]
  BY <1>5, <1>6
<1>7. CASE mem'[m] # mem[m]
  <2>1. PICK j \in Jobs : Stamp(j)
    BY <1>3, <1>7 DEF Restamped
  <2>2. mem[m].st \notin Retryable
    BY <1>5 DEF Retryable
  <2>3. PICK g \in Stamped(j) :
          g.row.id = m /\ mem'[m].st = "ok" /\ mem'[m].ep = g.ep
    BY <1>7, <2>1, <2>2, StampOne
  <2>4. j \notin Backfills /\ g \in job[j].got
    BY <2>2, <2>3 DEF Stamped, Stampable
  <2>5. ~epi[g.ep].keyed
    BY <2>4 DEF ReadOnce
  <2> QED
    BY <1>1, <2>3, <2>5
<1> QED
  BY <1>6, <1>7

LEMMA CurrentKeptStep ==
    ASSUME TypeOK, Projection, Projection', Removals, ReadOnce, OfItsOwn, Spent', CurrentKept,
           [Next]_vars
    PROVE  CurrentKept'
<1> SUFFICES ASSUME NEW m \in Memories, mem'[m] # NoRow, mem'[m].st = "ok",
                    <<m, mem'[m].rev>> \notin shared', op'[mem'[m].ep] # "none"
             PROVE  FALSE
  BY DEF CurrentKept
<1> DEFINE e == mem'[m].ep
<1>0. /\ e \in Episodes /\ epi'[e] # Unborn
      /\ epi'[e].id = m /\ epi'[e].rev = mem'[m].rev
  <2>1. <<m, e>> \in prov' /\ epi'[e] # Unborn /\ epi'[e].id = m /\ epi'[e].rev = mem'[m].rev
    BY DEF Projection, CurrentEpisode
  <2>2. e \in Episodes
    BY <2>1, NextType DEF TypeOK
  <2> QED
    BY <2>1, <2>2
<1>1. epi[e] # Unborn /\ epi'[e] = epi[e]
  BY <1>0, OperationChange, EpisodeChange
<1>2. ~epi[e].keyed
  BY <1>0, <1>1 DEF Spent
<1>3. ASSUME NEW j \in Jobs, NEW g \in job[j].got, g.ep = e PROVE j \in Rebuilds
  BY <1>2, <1>3 DEF ReadOnce, Jobs
<1>4. CASE mem'[m] = mem[m]
  <2>1. op[e] = "none" /\ <<m, e>> \in prov
    BY <1>4, SharedGrows DEF CurrentKept, Projection, CurrentEpisode
  <2>2. ASSUME NEW n \in Memories, Delete(n), e \in DeletionPlan(n, mem[n].ep) PROVE FALSE
    <3>1. <<n, e>> \in prov
      BY <2>2, GraphAssumption DEF DeletionPlan, Delete, Projection, Named
    <3>2. n = m
      BY <1>0, <1>1, <3>1 DEF Projection, Provenanced
    <3> QED
      BY <2>2, <3>2 DEF Delete, TypeOK
  <2>3. ASSUME NEW d \in Bulks, BulkCommit(d) PROVE FALSE
    BY <2>3 DEF BulkCommit
  <2>4. ASSUME NEW j \in Jobs, NEW g \in job[j].got, g.ep = e PROVE FALSE
    BY <1>3, <2>1, <2>4 DEF OfItsOwn
  <2> QED
    BY <1>0, <2>1, <2>2, <2>3, <2>4, NewlyQueued
<1>5. CASE mem'[m] # mem[m]
  <2>1. PICK j \in Jobs : Stamp(j)
    BY <1>5, RowStep DEF NewRevision, BroughtBack, Restamped
  <2>3. PICK g \in Stamped(j) :
          g.row.id = m /\ mem'[m].st = "ok" /\ mem'[m].ep = g.ep
    BY <1>5, <2>1, StampOne
  <2>4. e = g.ep /\ g \in job[j].got
    BY <2>3 DEF Stamped
  <2>5. op[e] = "none"
    BY <1>3, <2>4 DEF OfItsOwn
  <2>6. op' = Queued({h.ep : h \in job[j].got \ Stamped(j)})
    BY <2>1 DEF Stamp
  <2>7. e \in {h.ep : h \in job[j].got \ Stamped(j)}
    BY <1>0, <2>5, <2>6 DEF Queued
  <2>8. PICK h \in job[j].got \ Stamped(j) : h.ep = e
    BY <2>7
  <2>9. h.row = g.row
    <3>1. h.row.id = g.row.id
      BY <2>4, <2>8 DEF Projection, Got
    <3> QED
      BY <2>4, <2>8, <3>1 DEF ReadOnce
  <2> QED
    BY <2>3, <2>8, <2>9 DEF Stamped
<1> QED
  BY <1>4, <1>5

LEMMA InitKept == Init => KeptInv
<1> SUFFICES ASSUME Init PROVE KeptInv
  OBVIOUS
<1>1. \A m \in Legacy : top[m] >= 1
  BY GraphAssumption DEF Init
<1>2. ASSUME NEW m \in Memories, mem[m] # NoRow
      PROVE  /\ mem[m].rev <= top[m] /\ (mem[m].cls <=> Contracted(m, mem[m].rev))
             /\ mem[m].st # "ok"
  <2>1. mem[m].rev = 1 /\ mem[m].cls = FALSE /\ mem[m].st = "pending" /\ m \in Legacy /\ top[m] = 1
    BY <1>2 DEF Init
  <2> QED
    BY <2>1 DEF Contracted
<1>3. Numbered
  BY <1>1, <1>2 DEF Numbered, Init, IdleJob
<1>4. ReadOnce /\ SameVersion /\ Sharing /\ OfItsOwn /\ PlannedKnown
  BY DEF Init, ReadOnce, SameVersion, Sharing, OfItsOwn, PlannedKnown, IdleJob, IdleBulk, Jobs
<1> QED
  BY <1>2, <1>3, <1>4 DEF KeptInv, Init, Spent, CurrentKept

\* Only deletion removes the episode a memory stands for, however backfill and
\* rebuild runs, lost answers, late calls and crashes interleave: a retry finds
\* the episode it added before, and never queues it (the transaction of
\* memoryGraphBackfill).  It does when two backfill runs held the revision at
\* one time; the theorem is about every other revision.
THEOREM CurrentStays == Spec => []CurrentKept
<1>1. Init => TypeOK /\ Projection /\ Removals /\ KeptInv
  BY InitType, InitProjection, InitRemovals, InitKept
<1>2. TypeOK /\ Projection /\ Removals /\ [Next]_vars => TypeOK' /\ Projection' /\ Removals'
  BY NextType, GotStep, ProvenancedStep, NamedStep, RemovalsStep DEF Projection
<1>3. TypeOK /\ Projection /\ Removals /\ KeptInv /\ [Next]_vars => KeptInv'
  BY <1>2, NumberedStep, ReadOnceStep, SameVersionStep, SharingStep, OfItsOwnStep, PlannedKnownStep,
     SpentStep, CurrentKeptStep DEF KeptInv
<1>4. KeptInv => CurrentKept
  BY DEF KeptInv
<1> QED
  BY <1>1, <1>2, <1>3, <1>4, PTL DEF Spec
=============================================================================
