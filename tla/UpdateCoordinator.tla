-------------------------- MODULE UpdateCoordinator --------------------------
(***************************************************************************)
(* The update coordinator takes an installation from the release that is   *)
(* deployed to a target, through the releases the target's upgrade         *)
(* contract requires on the way (apps/update-coordinator/src/index.ts).    *)
(* Its run plans the path from the version the last successful update      *)
(* left in its marker, takes one snapshot, and then runs one lifecycle     *)
(* child per release.  Everything it achieves is written to                *)
(* hop-progress.json before it goes on, so that a run that follows a crash *)
(* or a failure can resume.                                                *)
(*                                                                         *)
(* One run exists at a time: update.lock is a directory made atomically,   *)
(* and it survives a crash until the operator removes it.                  *)
(*                                                                         *)
(* Left out: what a hop does other than succeed or fail, the browser       *)
(* handoff file (its own component), legacy targets without a contract, a  *)
(* lifecycle child that outlives its coordinator, a recovery file changed  *)
(* by hand.                                                                *)
(***************************************************************************)
EXTENDS Naturals, Sequences, FiniteSets

CONSTANTS
    Versions,    \* releases in their order, as numbers
    Path(_, _),  \* the planner's path from one release to another, or NoPath
    Offers,      \* what an operator may ask for: a target, its commit, and the
                 \* commits of the published releases its plan involves
    FirstVersion,\* the release deployed at first
    MaxFaults,   \* bound: crashes, failed snapshots and failed hops
    NoPath, NoFile, NoRelease

Commits == {o.rev : o \in Offers}
Pins == UNION {[R -> Commits] : R \in SUBSET Versions}

\* CoordinatorPlan and CoordinatorExecutionState.
Plans == [source : Versions, target : Versions, path : Seq(Versions),
          rev : Commits, pins : Pins]
States == [plan : Plans, status : {"running", "failed", "complete"},
           snap : {"none", "running", "complete"}, hop : Versions \cup {NoRelease},
           failed : Versions \cup {NoRelease}, done : Seq(Versions)]

\* Of the path of an update: it is made of releases, in ascending order, and
\* ends with the target.  An update to the release that is deployed runs its
\* lifecycle once.  A plan made on the way is the rest of the path.
ASSUME CoordinatorAssumption ==
    /\ Versions \subseteq Nat /\ FirstVersion \in Versions
    /\ \A o \in Offers : o.target \in Versions /\ o.pins \in Pins
    /\ MaxFaults \in Nat
    /\ NoRelease \notin Versions
    /\ NoFile \notin States
ASSUME PathAssumption ==
    /\ NoPath \notin Seq(Versions)
    /\ \A s, t \in Versions : Path(s, t) # NoPath =>
         /\ Path(s, t) \in Seq(Versions) \ {<<>>}
         /\ Path(s, t)[Len(Path(s, t))] = t
         /\ s # t => s < Path(s, t)[1]
         /\ s = t => Path(s, t) = <<t>>
         /\ \A i \in 1..(Len(Path(s, t)) - 1) :
               /\ Path(s, t)[i] < Path(s, t)[i + 1]
               /\ Path(Path(s, t)[i], t) = SubSeq(Path(s, t), i + 1, Len(Path(s, t)))

VARIABLES
    marker,   \* last-successful-update.json: the deployed release
    file,     \* hop-progress.json
    lock,     \* update.lock exists
    run,      \* the coordinator process: its pc, its plan, its execution state
    faults,
    \* History, for the properties: the snapshot that would be restored, and the
    \* releases deployed since it was taken.
    snapshot, \* what it was taken of: the release, and whether no hop had begun
    deployed, \* the releases deployed since, in order
    begun     \* a hop has begun since the last path was completed

vars == <<marker, file, lock, run, faults, snapshot, deployed, begun>>
history == <<snapshot, deployed, begun>>
-----------------------------------------------------------------------------
(* Plans and execution states.                                             *)

PlanFor(o) == [source |-> marker, target |-> o.target, path |-> Path(marker, o.target),
               rev |-> o.rev, pins |-> o.pins]

NewState(plan) == [plan |-> plan, status |-> "running", snap |-> "none",
                   hop |-> NoRelease, failed |-> NoRelease, done |-> <<>>]

\* Mutant of NextHop: the last release of a path is taken for done.
NextHopShort(s) == IF Len(s.done) + 1 < Len(s.plan.path)
                   THEN s.plan.path[Len(s.done) + 1] ELSE NoRelease

\* Mutant of NextHop: a path that was begun goes on with its target.
NextHopLast(s) == IF Len(s.done) < Len(s.plan.path)
                  THEN s.plan.path[Len(s.plan.path)] ELSE NoRelease

\* The first release of the path that is not done.
NextHop(s) == IF Len(s.done) < Len(s.plan.path)
              THEN s.plan.path[Len(s.done) + 1] ELSE NoRelease

\* Completed hops are an ordered prefix of the path.
PrefixOf(done, path) == /\ Len(done) <= Len(path)
                        /\ \A i \in DOMAIN done : done[i] = path[i]

\* validateRecoveryState
ValidState(s) ==
    /\ PrefixOf(s.done, s.plan.path)
    /\ s.done # <<>> => s.snap = "complete"
    /\ s.status = "complete" =>
          Len(s.done) = Len(s.plan.path) /\ s.hop = NoRelease /\ s.failed = NoRelease
    /\ s.status = "failed" => NextHop(s) # NoRelease /\ s.hop = NextHop(s) /\ s.failed = NextHop(s)
    /\ s.status = "running" => s.hop \in {NoRelease, NextHop(s)}

\* A published release keeps the commit it had when its update was planned.
PinMoved(s, plan) == \E r \in DOMAIN s.plan.pins \cap DOMAIN plan.pins :
                        s.plan.pins[r] # plan.pins[r]

SamePath(s, plan) == /\ s.plan.source = plan.source /\ s.plan.target = plan.target
                     /\ s.plan.path = plan.path

\* A developer's branch: no commit is pinned.
Unpinned(plan) == DOMAIN plan.pins = {}

\* Mutant of CanRetry: a path some hops of which are done changes its commit, too.
CanRetryAnywhere(s, plan) ==
    /\ s.status # "complete" /\ Unpinned(s.plan) /\ Unpinned(plan)
    /\ s.plan.target = plan.target /\ s.plan.rev # plan.rev

\* canRetryFailedRevision: a developer's branch has a new commit for a path that
\* failed at its first hop.
CanRetry(s, plan) ==
    /\ s.status = "failed" /\ Unpinned(s.plan) /\ Unpinned(plan)
    /\ s.done = <<>> /\ SamePath(s, plan) /\ s.plan.rev # plan.rev

\* Mutant of Retried: the corrected commit starts with a snapshot of its own.
RetriedAnew(s, plan) == NewState(plan)

Retried(s, plan) ==
    [s EXCEPT !.plan = plan, !.status = "running", !.hop = NoRelease, !.failed = NoRelease]
-----------------------------------------------------------------------------
Off == [pc |-> "off", plan |-> NoFile, st |-> NoFile]

Init == /\ marker = FirstVersion /\ file = NoFile /\ lock = FALSE
        /\ run = Off /\ faults = 0
        /\ snapshot = [of |-> FirstVersion, clean |-> TRUE]
        /\ deployed = <<>> /\ begun = FALSE

Fault == faults < MaxFaults /\ faults' = faults + 1

\* The launcher takes the lock and the run plans from the marker.
Start(o) ==
    /\ run.pc = "off" /\ ~lock /\ Path(marker, o.target) # NoPath
    /\ lock' = TRUE
    /\ run' = [run EXCEPT !.pc = "planned", !.plan = PlanFor(o)]
    /\ UNCHANGED <<marker, file, faults, history>>

Begun(s) == run' = [run EXCEPT !.pc = "ready", !.st = s]

\* executeCoordinatorPlan reads what an earlier run has left.
StartPath ==
    /\ run.pc = "planned"
    /\ file # NoFile => /\ file.status = "complete" /\ file.plan # run.plan
                        /\ ValidState(file) /\ ~PinMoved(file, run.plan)
    /\ Begun(NewState(run.plan))
    /\ UNCHANGED <<marker, file, lock, faults, history>>
ResumePath ==
    /\ run.pc = "planned" /\ file # NoFile
    /\ file.plan = run.plan /\ ValidState(file)
    /\ Begun(file)
    /\ UNCHANGED <<marker, file, lock, faults, history>>
RetryCommit ==
    /\ run.pc = "planned" /\ file # NoFile
    /\ CanRetry(file, run.plan) /\ ValidState(file)
    /\ Begun(Retried(file, run.plan))
    /\ UNCHANGED <<marker, file, lock, faults, history>>
Refuse ==
    /\ run.pc = "planned" /\ file # NoFile
    /\ \/ PinMoved(file, run.plan) \/ ~ValidState(file)
       \/ /\ file.plan # run.plan /\ file.status # "complete"
          /\ ~CanRetry(file, run.plan)
    /\ run' = [run EXCEPT !.pc = "refused"]
    /\ UNCHANGED <<marker, file, lock, faults, history>>

\* writeJsonAtomic: the state in memory, as it is now, becomes the file.
Save(s, pc) == file' = s /\ run' = [run EXCEPT !.pc = pc, !.st = s]

Noop ==
    /\ run.pc = "ready" /\ run.st.status = "complete"
    /\ run' = [run EXCEPT !.pc = "ended"]
    /\ UNCHANGED <<marker, file, lock, faults, history>>

BeginSnapshot ==
    /\ run.pc = "ready" /\ run.st.status # "complete" /\ run.st.snap = "none"
    /\ Save([run.st EXCEPT !.snap = "running", !.status = "running"], "snapshot")
    /\ UNCHANGED <<marker, lock, faults, history>>
SnapshotUnknown ==
    /\ run.pc = "ready" /\ run.st.snap = "running"
    /\ run' = [run EXCEPT !.pc = "ended"]
    /\ UNCHANGED <<marker, file, lock, faults, history>>
SnapshotDone ==
    /\ run.pc = "snapshot"
    /\ Save([run.st EXCEPT !.snap = "complete"], "next")
    /\ snapshot' = [of |-> marker, clean |-> ~begun]
    /\ deployed' = <<>>
    /\ UNCHANGED <<marker, lock, faults, begun>>
SnapshotFails ==
    /\ run.pc = "snapshot" /\ Fault
    /\ run' = [run EXCEPT !.pc = "ended"]
    /\ UNCHANGED <<marker, file, lock, history>>

CanGoOn == run.pc = "next" \/ (run.pc = "ready" /\ run.st.snap = "complete"
                               /\ run.st.status # "complete")

BeginHop ==
    /\ CanGoOn /\ NextHop(run.st) # NoRelease
    /\ Save([run.st EXCEPT !.status = "running", !.hop = NextHop(run.st), !.failed = NoRelease],
            "hop")
    /\ begun' = TRUE
    /\ UNCHANGED <<marker, lock, faults, snapshot, deployed>>

\* The lifecycle child writes the marker with its last step.
Deploy ==
    /\ run.pc = "hop"
    /\ marker' = run.st.hop
    /\ deployed' = Append(deployed, run.st.hop)
    /\ run' = [run EXCEPT !.pc = "deployed"]
    /\ UNCHANGED <<file, lock, faults, snapshot, begun>>

\* Mutant of AfterHop: the checkpoint forgets the release.
AfterHopLost(s) == [s EXCEPT !.hop = NoRelease]

AfterHop(s) == [s EXCEPT !.done = Append(@, s.hop), !.hop = NoRelease]
HopDone ==
    /\ run.pc = "deployed"
    /\ Save(AfterHop(run.st), "next")
    /\ UNCHANGED <<marker, lock, faults, history>>

\* Mutant of AfterFailure: a failed hop is no longer the current one.
AfterFailureCleared(s) == [s EXCEPT !.status = "failed", !.failed = s.hop, !.hop = NoRelease]

\* Mutant of AfterFailure: a hop is ticked off however it ended.
AfterFailureDone(s) == [s EXCEPT !.status = "failed", !.failed = s.hop,
                                 !.done = Append(@, s.hop)]

AfterFailure(s) == [s EXCEPT !.status = "failed", !.failed = s.hop]
HopFails ==
    /\ run.pc = "hop" /\ Fault
    /\ Save(AfterFailure(run.st), "ended")
    /\ UNCHANGED <<marker, lock, history>>

Finish ==
    /\ CanGoOn /\ NextHop(run.st) = NoRelease
    /\ Save([run.st EXCEPT !.status = "complete", !.hop = NoRelease, !.failed = NoRelease], "ended")
    /\ begun' = FALSE
    /\ UNCHANGED <<marker, lock, faults, snapshot, deployed>>

Release ==
    /\ run.pc \in {"ended", "refused"}
    /\ lock' = FALSE /\ run' = Off
    /\ UNCHANGED <<marker, file, faults, history>>

Crash ==
    /\ run.pc # "off" /\ Fault
    /\ run' = Off
    /\ UNCHANGED <<marker, file, lock, history>>

\* The operator removes the lock of a run that died, and a recovery file that
\* says no more than that a snapshot was begun.
RemoveLock ==
    /\ lock /\ run.pc = "off"
    /\ lock' = FALSE
    /\ UNCHANGED <<marker, file, run, faults, history>>
DiscardSnapshot ==
    /\ run.pc = "off" /\ file # NoFile /\ file.snap = "running"
    /\ file' = NoFile
    /\ UNCHANGED <<marker, lock, run, faults, history>>

Next == \/ \E o \in Offers : Start(o)
        \/ StartPath \/ ResumePath \/ RetryCommit \/ Refuse \/ Noop
        \/ BeginSnapshot \/ SnapshotUnknown \/ SnapshotDone \/ SnapshotFails
        \/ BeginHop \/ Deploy \/ HopDone \/ HopFails \/ Finish
        \/ Release \/ Crash \/ RemoveLock \/ DiscardSnapshot

Spec == Init /\ [][Next]_vars
-----------------------------------------------------------------------------
Places == {"off", "planned", "ready", "snapshot", "next", "hop", "deployed",
           "ended", "refused"}

\* The type invariant.
TypeOK ==
    /\ marker \in Versions /\ file \in States \cup {NoFile} /\ lock \in BOOLEAN
    /\ run \in [pc : Places, plan : Plans \cup {NoFile}, st : States \cup {NoFile}]
    /\ faults \in 0..MaxFaults
    /\ snapshot \in [of : Versions, clean : BOOLEAN]
    /\ deployed \in Seq(Versions) /\ begun \in BOOLEAN

Underway == file # NoFile /\ file.snap = "complete" /\ file.status # "complete"

\* The point of return: while a path is under way, the snapshot on disk holds
\* the release the path started from, as it was before the first of its hops
\* touched anything, whatever crashed, failed or was retried since.
RollbackPoint ==
    /\ Underway => snapshot = [of |-> file.plan.source, clean |-> TRUE]
    /\ run.pc \in {"hop", "deployed"} => Underway

Releases(path) == {path[i] : i \in DOMAIN path}

\* "Executes a persisted release path exactly once": since the snapshot, what the
\* file calls done has been deployed, nothing else has but the first unfinished
\* release, and each repetition is owed to a crash between a deployment and its
\* checkpoint.
DoneIsNotRedone ==
    Underway =>
        /\ Releases(file.done) \subseteq Releases(deployed)
        /\ Releases(deployed) \subseteq Releases(file.done) \cup {NextHop(file)}
        /\ Len(deployed) <= Cardinality(Releases(deployed)) + faults

\* Whatever a crash leaves in hop-progress.json passes validateRecoveryState, so
\* the coordinator never locks itself out.
CheckpointIsValid == file # NoFile => ValidState(file)

\* A plan that is complete in the file is deployed, and was deployed last.
CompleteIsDeployed ==
    file # NoFile /\ file.status = "complete" => marker = file.plan.target

\* Resuming, replanning and retrying never skip a required stop nor go back: the
\* deployed release only ever becomes the first one of the planner's path from
\* the release that is deployed, for the target of the run.
HopsAreDeclared ==
    [][marker' # marker => /\ marker < marker'
                           /\ Path(marker, run.plan.target)[1] = marker']_vars

\* A checkpoint is never lost: until a path is complete, its plan is replaced
\* only by one for a new commit of the same path, nothing done is undone, and a
\* snapshot that was completed stays so.
CheckpointsKept ==
    [][Underway => /\ file' # NoFile /\ file'.snap = "complete"
                   /\ SamePath(file, file'.plan) /\ PrefixOf(file.done, file'.done)]_vars

\* The coordinator, with everything that may interrupt it, implements the
\* journey an operator is promised: the way back is the snapshot on disk, and
\* what is left is what the recovery file does not call done.
Journey == INSTANCE UpdateJourney WITH
    at   <- marker,
    home <- IF Underway THEN snapshot.of ELSE marker,
    left <- IF Underway
            THEN SubSeq(file.plan.path, Len(file.done) + 1, Len(file.plan.path)) ELSE <<>>
JourneySpec == Journey!Spec

\* "A retry resumes at the first unfinished hop": a run for the target and the
\* commit that the file is on its way to is not refused.
RetryResumes ==
    run.pc = "refused" => \/ run.plan.target # file.plan.target
                          \/ run.plan.rev # file.plan.rev
=============================================================================
