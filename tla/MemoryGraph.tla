----------------------------- MODULE MemoryGraph -----------------------------
(***************************************************************************)
(* The graph projection of memories: every accepted revision of a          *)
(* classified memory becomes an episode in Graphiti, and every episode of  *)
(* a deleted memory is removed from it.  Four actors share the tables:     *)
(*                                                                         *)
(*   - the API creates, edits, deletes and re-imports rows;                *)
(*   - memory-graph-backfill runs post the pending rows and stamp them in  *)
(*     one transaction at the end (apps/worker/src/steps);                 *)
(*   - memory-graph-rebuild runs do the same for the rows an operator      *)
(*     selects, whatever their status, and without an idempotency key;     *)
(*   - graph-lifecycle runs carry out the queued removals.                 *)
(*                                                                         *)
(* A run is a sequence of steps between which everything else may happen:  *)
(* it reads rows, makes one slow call to Graphiti per row and stamps what  *)
(* came of them.  A call may fail, or its answer may be lost although the  *)
(* call takes effect, then or later; a worker may crash.                   *)
(*                                                                         *)
(* Left out: documents and their replace operations, graph groups (the     *)
(* group is a function of the revision), the limits of a batch (200 rows,  *)
(* 100 removals), and the migration between graph versions.                *)
(***************************************************************************)
EXTENDS Naturals, FiniteSets

CONSTANTS
    Memories,    \* record identifiers
    Legacy,      \* those that exist from before the contract, unclassified
    Episodes,    \* the UUIDs Graphiti can assign
    Backfills,   \* backfill runs that may be under way at one time
    Rebuilds,    \* rebuild runs that may be under way at one time
    Sweepers,    \* graph-lifecycle runs that may be under way at one time
    Bulks,       \* requests to delete all memories, DELETE /memories
    MaxRev,      \* bound: revisions per memory
    MaxRestores, \* bound: re-imports
    MaxFaults,   \* bound: failed calls, lost answers and crashes
    NoRow, NoEpisode, Unborn

Jobs == Backfills \cup Rebuilds

Status == {"pending", "failed", "ok"}
Retryable == {"pending", "failed"}

\* ver is graphVersion, a timestamp renewed by every edit and import.
Row == [rev : Nat \ {0}, ver : Nat \ {0}, cls : BOOLEAN, st : Status,
        ep : Episodes \cup {NoEpisode}]

\* What Graphiti knows of an episode: whose revision it tells, and whether it
\* was added under the idempotency key of that revision.
Episode == [id : Memories, rev : Nat \ {0}, keyed : BOOLEAN]

\* A row as a run read it.
Seen == [id : Memories, rev : Nat \ {0}, ver : Nat \ {0}]

ASSUME GraphAssumption ==
    /\ Legacy \subseteq Memories
    /\ NoRow \notin Row /\ NoEpisode \notin Episodes /\ Unborn \notin Episode
    /\ Backfills \cap Rebuilds = {}
    /\ MaxRev \in Nat /\ MaxRestores \in Nat /\ MaxFaults \in Nat

VARIABLES
    mem,      \* memory: the current row of each record
    top,      \* per record, the highest revision in memory_revision
    clock,    \* per record, the last graphVersion given
    prov,     \* graph_episode_provenance: append-only pairs of record, episode
    op,       \* graph_lifecycle_operation: the removal of each episode, if any
    epi,      \* Graphiti: what each UUID was assigned to
    live,     \* Graphiti: the episodes it holds
    late,     \* calls whose client gave up and that Graphiti may still finish
    job,      \* the backfill and rebuild runs
    sweep,    \* the graph-lifecycle runs
    bulk,     \* the bulk deletions
    restores, faults,
    passed, shared  \* history variables, of which the code keeps no record:
                    \* the episodes stamped behind a bulk deletion under way,
                    \* the revisions two backfill runs have held at one time

vars == <<mem, top, clock, prov, op, epi, live, late, job, sweep, bulk,
          restores, faults, passed, shared>>
history == <<passed, shared>>
rowVars == <<mem, top, clock>>
graphiti == <<epi, live, late>>
-----------------------------------------------------------------------------
\* A run: the rows it read, the episodes it got for them, the calls that failed.
IdleJob == [rows |-> {}, got |-> {}, failed |-> {}]
IdleSweep == [pc |-> "idle", rows |-> {}, done |-> {}, failed |-> {}]
IdleBulk == [pc |-> "idle", rows |-> {}, eps |-> {}]

NewRow(m, r, cls) ==
    [rev |-> r, ver |-> clock[m] + 1, cls |-> cls, st |-> "pending", ep |-> NoEpisode]

Init == /\ mem = [m \in Memories |->
                    IF m \in Legacy
                    THEN [rev |-> 1, ver |-> 1, cls |-> FALSE, st |-> "pending",
                          ep |-> NoEpisode]
                    ELSE NoRow]
        /\ top = [m \in Memories |-> IF m \in Legacy THEN 1 ELSE 0]
        /\ clock = top
        /\ prov = {} /\ op = [e \in Episodes |-> "none"]
        /\ epi = [e \in Episodes |-> Unborn] /\ live = {} /\ late = {}
        /\ job = [j \in Jobs |-> IdleJob]
        /\ sweep = [w \in Sweepers |-> IdleSweep]
        /\ bulk = [d \in Bulks |-> IdleBulk]
        /\ restores = 0 /\ faults = 0 /\ passed = {} /\ shared = {}

\* A removal is queued once per episode: the table skips duplicates.
Queued(es) == [e \in Episodes |-> IF e \in es /\ op[e] = "none" THEN "pending" ELSE op[e]]

\* Mutant of DeletionPlan: only the episode the row names.
DeletionPlanCurrent(m, ep) == {ep} \cap Episodes

\* buildGraphDeletionPlan: every episode in provenance and the current one.
DeletionPlan(m, ep) == {e \in Episodes : <<m, e>> \in prov \/ e = ep}
-----------------------------------------------------------------------------
(* The API.                                                                *)

Create(m) ==
    /\ mem[m] = NoRow /\ top[m] = 0
    /\ mem' = [mem EXCEPT ![m] = NewRow(m, 1, TRUE)]
    /\ top' = [top EXCEPT ![m] = 1]
    /\ clock' = [clock EXCEPT ![m] = @ + 1]
    /\ UNCHANGED <<prov, op, graphiti, job, sweep, bulk, restores, faults, history>>

\* An update needs the next revision to be free in the history; the row keeps
\* the episode of its last synced revision.
Edit(m) ==
    /\ mem[m] # NoRow /\ mem[m].rev = top[m] /\ top[m] < MaxRev
    /\ mem' = [mem EXCEPT ![m] = [NewRow(m, top[m] + 1, TRUE) EXCEPT !.ep = mem[m].ep]]
    /\ top' = [top EXCEPT ![m] = @ + 1]
    /\ clock' = [clock EXCEPT ![m] = @ + 1]
    /\ UNCHANGED <<prov, op, graphiti, job, sweep, bulk, restores, faults, history>>

\* The row goes only if it has not changed since it was read, and its removals
\* are queued by the same transaction, from provenance read after the row lock.
Delete(m) ==
    /\ mem[m] # NoRow
    /\ mem' = [mem EXCEPT ![m] = NoRow]
    /\ op' = Queued(DeletionPlan(m, mem[m].ep))
    /\ UNCHANGED <<top, clock, prov, graphiti, job, sweep, bulk, restores, faults, history>>

\* A format-1 import brings a deleted legacy record back, unclassified.  (The
\* history keeps a classified record from being imported again.)
Restore(m) ==
    /\ m \in Legacy /\ mem[m] = NoRow /\ restores < MaxRestores
    /\ mem' = [mem EXCEPT ![m] = NewRow(m, 1, FALSE)]
    /\ clock' = [clock EXCEPT ![m] = @ + 1]
    /\ restores' = restores + 1
    /\ UNCHANGED <<top, prov, op, graphiti, job, sweep, bulk, faults, history>>

\* DELETE /memories reads the rows, asks Graphiti about their episodes, and in
\* one transaction queues the removals of the rows it read and then deletes
\* every row there is.  (The episode a row names is in provenance, too.)
BulkRead(d) ==
    /\ bulk[d].pc = "idle"
    /\ bulk' = [bulk EXCEPT ![d] = [pc |-> "plan", eps |-> {},
                                    rows |-> {m \in Memories : mem[m] # NoRow}]]
    /\ UNCHANGED <<rowVars, prov, op, graphiti, job, sweep, restores, faults, history>>
BulkPlan(d) ==
    /\ bulk[d].pc = "plan"
    /\ bulk' = [bulk EXCEPT ![d].pc = "commit",
                            ![d].eps = UNION {DeletionPlan(m, NoEpisode) : m \in bulk[d].rows}]
    /\ UNCHANGED <<rowVars, prov, op, graphiti, job, sweep, restores, faults, history>>
BulkCommit(d) ==
    /\ bulk[d].pc = "commit"
    /\ mem' = [m \in Memories |-> NoRow]
    /\ op' = Queued(bulk[d].eps)
    /\ bulk' = [bulk EXCEPT ![d] = IdleBulk]
    /\ UNCHANGED <<top, clock, prov, graphiti, job, sweep, restores, faults, history>>
-----------------------------------------------------------------------------
(* Backfill and rebuild runs.                                              *)

SeenRow(m) == [id |-> m, rev |-> mem[m].rev, ver |-> mem[m].ver]
Todo(j) == {r \in job[j].rows : r \notin job[j].failed
                                /\ \A g \in job[j].got : g.row # r}

\* Mutant of Due: a row that failed once is not tried again.
DuePending == {m \in Memories : mem[m] # NoRow /\ mem[m].cls /\ mem[m].st = "pending"}

\* A backfill run takes every classified row that is pending or failed.
Due == {m \in Memories : mem[m] # NoRow /\ mem[m].cls /\ mem[m].st \in Retryable}
HeldElsewhere(j, m) == \E i \in Backfills \ {j} : \E r \in job[i].rows :
                          r.id = m /\ r.rev = mem[m].rev
BackfillRead(j) ==
    /\ j \in Backfills /\ job[j] = IdleJob /\ Due # {}
    /\ job' = [job EXCEPT ![j].rows = {SeenRow(m) : m \in Due}]
    /\ shared' = shared \cup {<<m, mem[m].rev>> : m \in {n \in Due : HeldElsewhere(j, n)}}
    /\ UNCHANGED <<rowVars, prov, op, graphiti, sweep, bulk, restores, faults, passed>>

\* A rebuild run takes the rows its filters select, whatever their state.
RebuildRead(j) ==
    /\ j \in Rebuilds /\ job[j] = IdleJob
    /\ \E S \in SUBSET {m \in Memories : mem[m] # NoRow} :
         /\ S # {}
         /\ job' = [job EXCEPT ![j].rows = {SeenRow(m) : m \in S}]
    /\ UNCHANGED <<rowVars, prov, op, graphiti, sweep, bulk, restores, faults, history>>

\* Mutant of Keyed: a rebuild posts under the key of the revision, too.
KeyedAlways(j) == j \in Jobs

\* Only backfill runs send an idempotency key, memory:<id>:revision:<n>.
Keyed(j) == j \in Backfills

Told(j, r) == [id |-> r.id, rev |-> r.rev, keyed |-> Keyed(j)]

\* The episode Graphiti already holds under the key of x.
Match(x) == {e \in live : x.keyed /\ epi[e] = x}

\* POST /episodes for x yields e: the one its key names, or a new one.
Adds(x, e) ==
    \/ /\ e \in Match(x)
       /\ UNCHANGED <<epi, live>>
    \/ /\ Match(x) = {} /\ epi[e] = Unborn
       /\ epi' = [epi EXCEPT ![e] = x]
       /\ live' = live \cup {e}

Post(j, r, e) ==
    /\ r \in Todo(j)
    /\ Adds(Told(j, r), e)
    /\ job' = [job EXCEPT ![j].got = @ \cup {[row |-> r, ep |-> e]}]
    /\ UNCHANGED <<rowVars, prov, op, late, sweep, bulk, restores, faults, history>>

Fault == faults < MaxFaults /\ faults' = faults + 1

\* The call fails for the client; when its answer was lost or timed out,
\* Graphiti finishes it later (LateAdd) or never.
PostFails(j, r) ==
    /\ r \in Todo(j) /\ Fault
    /\ late' \in {late, late \cup {Told(j, r)}}
    /\ job' = [job EXCEPT ![j].failed = @ \cup {r}]
    /\ UNCHANGED <<rowVars, prov, op, epi, live, sweep, bulk, restores, history>>
LateAdd(x, e) ==
    /\ x \in late /\ Adds(x, e)
    /\ late' = late \ {x}
    /\ UNCHANGED <<rowVars, prov, op, job, sweep, bulk, restores, faults, history>>

\* Mutant of Stampable: the row need not be at the version that was read.
StampableAnyVersion(j, r) ==
    /\ mem[r.id] # NoRow
    /\ j \in Backfills => mem[r.id].st \in Retryable

\* The conditions of the updateMany that stamps a row ok.
Stampable(j, r) ==
    /\ mem[r.id] # NoRow
    /\ mem[r.id].ver = r.ver /\ mem[r.id].rev = r.rev
    /\ j \in Backfills => mem[r.id].st \in Retryable
Stamped(j) == {g \in job[j].got : Stampable(j, g.row)}
Failed(j) == {r \in job[j].failed : j \in Backfills /\ mem[r.id] # NoRow
                  /\ mem[r.id].ver = r.ver /\ mem[r.id].st \in Retryable}

\* A bulk deletion will delete the row but does not know of what is stamped now.
Unplanned(m) == \E d \in Bulks : \/ bulk[d].pc = "commit"
                                 \/ bulk[d].pc = "plan" /\ m \notin bulk[d].rows

\* One transaction at the end of a run: rows still as they were read get their
\* episode and its provenance; an episode whose row has changed is queued for
\* removal.  A rebuild run records no failures.
Stamp(j) ==
    /\ job[j].rows # {} /\ Todo(j) = {}
    /\ mem' = [m \in Memories |->
                 IF \E g \in Stamped(j) : g.row.id = m
                 THEN [mem[m] EXCEPT !.st = "ok",
                                     !.ep = (CHOOSE g \in Stamped(j) : g.row.id = m).ep]
                 ELSE IF \E r \in Failed(j) : r.id = m
                 THEN [mem[m] EXCEPT !.st = "failed"]
                 ELSE mem[m]]
    /\ prov' = prov \cup {<<g.row.id, g.ep>> : g \in Stamped(j)}
    /\ op' = Queued({g.ep : g \in job[j].got \ Stamped(j)})
    /\ job' = [job EXCEPT ![j] = IdleJob]
    /\ passed' = passed \cup {g.ep : g \in {x \in Stamped(j) : Unplanned(x.row.id)}}
    /\ UNCHANGED <<top, clock, graphiti, sweep, bulk, restores, faults, shared>>

JobCrash(j) ==
    /\ job[j] # IdleJob /\ Fault
    /\ job' = [job EXCEPT ![j] = IdleJob]
    /\ UNCHANGED <<rowVars, prov, op, graphiti, sweep, bulk, restores, history>>
-----------------------------------------------------------------------------
(* graph-lifecycle runs.                                                   *)

\* Mutant of Stale: a crashed run's operations are not taken over.
StaleNever == {{}}

\* What has been processing for five minutes may be anything a run has marked.
Stale == SUBSET {e \in Episodes : op[e] = "processing"}

\* A run takes what is pending or failed, and what is stale.
SweepRead(w) ==
    /\ sweep[w].pc = "idle"
    /\ \E stale \in Stale :
         LET rows == stale \cup {e \in Episodes : op[e] \in Retryable} IN
         /\ rows # {}
         /\ sweep' = [sweep EXCEPT ![w] = [IdleSweep EXCEPT !.pc = "mark", !.rows = rows]]
    /\ UNCHANGED <<rowVars, prov, op, graphiti, job, bulk, restores, faults, history>>

SweepMark(w) ==
    /\ sweep[w].pc = "mark"
    /\ op' = [e \in Episodes |->
                IF e \in sweep[w].rows /\ op[e] \in Retryable THEN "processing" ELSE op[e]]
    /\ sweep' = [sweep EXCEPT ![w].pc = "remove"]
    /\ UNCHANGED <<rowVars, prov, graphiti, job, bulk, restores, faults, history>>

\* DELETE /episodes and the check that the episode is gone; removing what is
\* not there succeeds.
SweepRemove(w, e) ==
    /\ sweep[w].pc = "remove" /\ e \in sweep[w].rows \ (sweep[w].done \cup sweep[w].failed)
    /\ live' = live \ {e}
    /\ sweep' = [sweep EXCEPT ![w].done = @ \cup {e}]
    /\ UNCHANGED <<rowVars, prov, op, epi, late, job, bulk, restores, faults, history>>

\* Either call fails, before or after the episode is gone.
SweepRemoveFails(w, e) ==
    /\ sweep[w].pc = "remove" /\ e \in sweep[w].rows \ (sweep[w].done \cup sweep[w].failed)
    /\ Fault
    /\ live' \in {live, live \ {e}}
    /\ sweep' = [sweep EXCEPT ![w].failed = @ \cup {e}]
    /\ UNCHANGED <<rowVars, prov, op, epi, late, job, bulk, restores, history>>

\* Mutant of Outcome: a removal that failed counts as completed.
OutcomeBlind(w, e) == IF e \in sweep[w].rows THEN "completed" ELSE op[e]

\* The outcome is stamped on the operation whatever its status is by now.
Outcome(w, e) == IF e \in sweep[w].failed THEN "failed"
                 ELSE IF e \in sweep[w].done THEN "completed" ELSE op[e]
SweepStamp(w) ==
    /\ sweep[w].pc = "remove" /\ sweep[w].rows = sweep[w].done \cup sweep[w].failed
    /\ op' = [e \in Episodes |-> Outcome(w, e)]
    /\ sweep' = [sweep EXCEPT ![w] = IdleSweep]
    /\ UNCHANGED <<rowVars, prov, graphiti, job, bulk, restores, faults, history>>

SweepCrash(w) ==
    /\ sweep[w].pc # "idle" /\ Fault
    /\ sweep' = [sweep EXCEPT ![w] = IdleSweep]
    /\ UNCHANGED <<rowVars, prov, op, graphiti, job, bulk, restores, history>>

SweepStep(w) == \/ SweepRead(w) \/ SweepMark(w) \/ SweepStamp(w)
                \/ \E e \in Episodes : SweepRemove(w, e)
BackfillStep(j) == \/ BackfillRead(j)
                   \/ \E r \in job[j].rows, e \in Episodes : Post(j, r, e)
                   \/ Stamp(j)

Next == \/ \E m \in Memories : Create(m) \/ Edit(m) \/ Delete(m) \/ Restore(m)
        \/ \E d \in Bulks : BulkRead(d) \/ BulkPlan(d) \/ BulkCommit(d)
        \/ \E j \in Jobs : \/ BackfillRead(j) \/ RebuildRead(j) \/ Stamp(j) \/ JobCrash(j)
                           \/ \E r \in job[j].rows :
                                \/ \E e \in Episodes : Post(j, r, e)
                                \/ PostFails(j, r)
        \/ \E x \in late, e \in Episodes : LateAdd(x, e)
        \/ \E w \in Sweepers : \/ SweepRead(w) \/ SweepMark(w) \/ SweepStamp(w)
                               \/ SweepCrash(w)
                               \/ \E e \in Episodes : SweepRemove(w, e) \/ SweepRemoveFails(w, e)

Spec == Init /\ [][Next]_vars

\* The scheduler starts each run again and again, and a run that has started
\* goes on; faults are bounded, so calls succeed in the end.
FairSpec == /\ Spec
            /\ \A j \in Backfills : WF_vars(BackfillStep(j))
            /\ \A w \in Sweepers : WF_vars(SweepStep(w))
-----------------------------------------------------------------------------
OpStatus == {"none", "pending", "processing", "completed", "failed"}

JobState == [rows : SUBSET Seen, got : SUBSET [row : Seen, ep : Episodes],
             failed : SUBSET Seen]
SweepState == [pc : {"idle", "mark", "remove"}, rows : SUBSET Episodes,
               done : SUBSET Episodes, failed : SUBSET Episodes]
BulkState == [pc : {"idle", "plan", "commit"}, rows : SUBSET Memories,
              eps : SUBSET Episodes]

\* The type invariant.
TypeOK ==
    /\ mem \in [Memories -> Row \cup {NoRow}]
    /\ top \in [Memories -> Nat] /\ clock \in [Memories -> Nat]
    /\ prov \subseteq Memories \X Episodes
    /\ op \in [Episodes -> OpStatus]
    /\ epi \in [Episodes -> Episode \cup {Unborn}]
    /\ live \subseteq {e \in Episodes : epi[e] # Unborn}
    /\ late \subseteq Episode
    /\ job \in [Jobs -> JobState]
    /\ sweep \in [Sweepers -> SweepState]
    /\ bulk \in [Bulks -> BulkState]
    /\ restores \in 0..MaxRestores /\ faults \in 0..MaxFaults
    /\ passed \subseteq Episodes /\ shared \subseteq Memories \X Nat

\* Stale runs cannot overwrite a newer revision: a row marked ok names an
\* episode that tells exactly its current revision, and that episode is in
\* provenance, where deletion will find it.
CurrentEpisode ==
    \A m \in Memories : mem[m] # NoRow /\ mem[m].st = "ok" =>
        /\ <<m, mem[m].ep>> \in prov
        /\ epi[mem[m].ep] # Unborn
        /\ epi[mem[m].ep].id = m /\ epi[mem[m].ep].rev = mem[m].rev

\* No episode in provenance outlives its memory unnoticed: when the row is gone
\* the removal of every one, of whatever revision, has been queued, although
\* runs that read the row before may stamp afterwards (enqueueGraphRemoval).
\* But not of one stamped while DELETE /memories was between reading provenance
\* (or the rows) and deleting every row there is.
DeletedIsQueued ==
    \A m \in Memories, e \in Episodes :
        <<m, e>> \in prov /\ mem[m] = NoRow => op[e] # "none" \/ e \in passed

\* An operation that says completed is about an episode that is gone for good,
\* although runs overlap, crash and time out (graphLifecycle).
CompletedIsGone == \A e \in Episodes : op[e] = "completed" => e \notin live

\* Only deletion removes the episode a memory currently stands for: a retry
\* never queues it.  But two backfill runs that hold one revision at the same
\* time do: the second finds the episode of the first and queues it.
CurrentKept ==
    \A m \in Memories : mem[m] # NoRow /\ mem[m].st = "ok" /\ <<m, mem[m].rev>> \notin shared =>
        op[mem[m].ep] = "none"

\* Every episode whose removal is queued leaves Graphiti: runs that crash or
\* fail leave the operation where a later run picks it up.
RemovalHappens == \A e \in Episodes : op[e] # "none" ~> e \notin live

\* Every accepted revision reaches the graph, or is overtaken by an edit or a
\* deletion.
PendingIsSynced ==
    \A m \in Memories, r \in 1..MaxRev :
        (mem[m] # NoRow /\ mem[m].cls /\ mem[m].rev = r)
            ~> (mem[m] = NoRow \/ mem[m].rev # r \/ mem[m].st = "ok")
=============================================================================
