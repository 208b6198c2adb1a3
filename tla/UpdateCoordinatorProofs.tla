----------------------- MODULE UpdateCoordinatorProofs -----------------------
(***************************************************************************)
(* Proofs about UpdateCoordinator, for any releases, any planner that      *)
(* answers with paths in the sense of PathAssumption, any offers and any   *)
(* number of faults: the types, the point of return, the checkpoints, the  *)
(* hops that are taken, that none is taken twice, and that all of it       *)
(* implements UpdateJourney.                                               *)
(*                                                                         *)
(* The invariant relates three copies of a plan: the one of the run, the   *)
(* one in memory (run.st) and the one on disk.                             *)
(***************************************************************************)
EXTENDS UpdateCoordinator, SequenceTheorems, FiniteSetTheorems, TLAPS

\* A plan is what the planner answers.
Planned(p) == /\ Path(p.source, p.target) # NoPath
              /\ p.path = Path(p.source, p.target)

\* What is on disk is a valid state of a plan, after its snapshot was begun.
DiskOK == file # NoFile =>
    /\ Planned(file.plan) /\ ValidState(file)
    /\ file.snap # "none"
    /\ file.snap = "running" => file.status = "running"

\* Until a run deploys, the deployed release is the source of its plan.
AtSource == run.pc \in {"planned", "ready", "snapshot"} => marker = run.plan.source

PlanOK ==
    /\ run.pc # "off" => run.plan \in Plans /\ Planned(run.plan)
    /\ run.pc \in {"ready", "snapshot", "next", "hop", "deployed"} =>
          run.st \in States /\ run.st.plan = run.plan

\* The state a run goes on from is a new one, or continues the one on disk.
ReadyOK == run.pc = "ready" =>
    /\ ValidState(run.st)
    /\ run.st.snap = "none" => /\ ~Underway /\ run.st.status = "running"
                               /\ run.st.hop = NoRelease
    /\ run.st.snap = "complete" /\ run.st.status # "complete" =>
          /\ Underway /\ SamePath(file, run.st.plan)
          /\ file.done = run.st.done

\* Between two steps of a path, memory and disk agree.
StepOK ==
    /\ run.pc \in {"snapshot", "next", "hop", "deployed"} =>
          file = run.st /\ run.st.status = "running"
    /\ run.pc = "snapshot" => run.st.snap = "running" /\ run.st.hop = NoRelease
    /\ run.pc \in {"next", "hop", "deployed"} => run.st.snap = "complete"
    /\ run.pc = "next" => run.st.hop = NoRelease
    /\ run.pc \in {"hop", "deployed"} =>
          run.st.hop = NextHop(run.st) /\ run.st.hop # NoRelease
    /\ run.pc = "deployed" => marker = run.st.hop

\* Where a path has arrived: at its source, at the last release it has done, or
\* at the next one, whose checkpoint is missing.
Arrived(s) == \/ s.done = <<>> /\ marker = s.plan.source
              \/ s.done # <<>> /\ marker = s.done[Len(s.done)]
              \/ marker = NextHop(s)

Progress == /\ Underway => Arrived(file)
            /\ begun => Underway

IInv == /\ TypeOK /\ DiskOK /\ AtSource /\ PlanOK /\ ReadyOK /\ StepOK /\ Progress
        /\ RollbackPoint /\ CompleteIsDeployed
-----------------------------------------------------------------------------
(* Plans and states.                                                       *)

\* A path has releases, and the last one is the target.
LEMMA PathFacts ==
    ASSUME NEW p \in Plans, Planned(p)
    PROVE  /\ p.path \in Seq(Versions) /\ p.path # <<>>
           /\ Len(p.path) \in Nat /\ Len(p.path) > 0
           /\ p.path[Len(p.path)] = p.target
  BY PathAssumption DEF Plans, Planned

\* The next release is one, as long as there is one left to do.
LEMMA HopFacts ==
    ASSUME NEW s \in States
    PROVE  /\ NextHop(s) \in Versions \cup {NoRelease}
           /\ NextHop(s) # NoRelease <=> Len(s.done) < Len(s.plan.path)
           /\ NextHop(s) # NoRelease => NextHop(s) = s.plan.path[Len(s.done) + 1]
  <1>1. s.done \in Seq(Versions) /\ s.plan.path \in Seq(Versions)
    BY DEF States, Plans
  <1>2. Len(s.done) \in Nat /\ Len(s.plan.path) \in Nat
    BY <1>1
  <1>3. Len(s.done) < Len(s.plan.path) => s.plan.path[Len(s.done) + 1] \in Versions
    BY <1>1, <1>2
  <1> QED  BY <1>3, CoordinatorAssumption DEF NextHop

\* A new state is one, and is valid.
LEMMA NewStateFacts ==
    ASSUME NEW p \in Plans
    PROVE  NewState(p) \in States /\ ValidState(NewState(p))
  <1>1. NewState(p) \in States
    BY DEF NewState, States
  <1>2. p.path \in Seq(Versions) /\ Len(p.path) \in Nat
    BY DEF Plans
  <1>3. PrefixOf(<<>>, p.path)
    BY <1>2 DEF PrefixOf
  <1> QED  BY <1>1, <1>3 DEF NewState, ValidState

\* A retry keeps what the failed attempt has done, which is nothing.
LEMMA RetriedFacts ==
    ASSUME NEW s \in States, NEW p \in Plans, CanRetry(s, p), ValidState(s)
    PROVE  /\ Retried(s, p) \in States /\ ValidState(Retried(s, p))
           /\ Retried(s, p).plan = p /\ Retried(s, p).done = s.done
           /\ Retried(s, p).snap = s.snap /\ Retried(s, p).status = "running"
           /\ Retried(s, p).hop = NoRelease
  BY DEF Retried, States, CanRetry, ValidState, SamePath

\* The invariant holds before the first update.
THEOREM InitInv == Init => IInv
  <1> SUFFICES ASSUME Init PROVE IInv
    OBVIOUS
  <1>1. file = NoFile /\ run.pc = "off" /\ ~Underway /\ begun = FALSE
    BY DEF Init, Off, Underway
  <1>2. run \in [pc : Places, plan : Plans \cup {NoFile}, st : States \cup {NoFile}]
    BY DEF Init, Off, Places
  <1>3. faults \in 0..MaxFaults
    BY CoordinatorAssumption DEF Init
  <1>4. snapshot \in [of : Versions, clean : BOOLEAN] /\ deployed \in Seq(Versions)
    BY CoordinatorAssumption DEF Init
  <1>5. TypeOK
    BY <1>1, <1>2, <1>3, <1>4, CoordinatorAssumption DEF Init, TypeOK
  <1>6. DiskOK /\ AtSource /\ PlanOK /\ ReadyOK /\ StepOK
    BY <1>1 DEF DiskOK, AtSource, PlanOK, ReadyOK, StepOK
  <1>7. Progress /\ RollbackPoint /\ CompleteIsDeployed
    BY <1>1 DEF Progress, RollbackPoint, CompleteIsDeployed
  <1> QED  BY <1>5, <1>6, <1>7 DEF IInv
-----------------------------------------------------------------------------
(* The steps, those first that only end or stop a run.                     *)

\* A step after which no run is at work, and nothing else has changed.
Rests == /\ run'.pc \in {"off", "ended", "refused"}
         /\ run'.pc # "off" => run'.plan = run.plan /\ run.pc # "off"
         /\ run' \in [pc : Places, plan : Plans \cup {NoFile}, st : States \cup {NoFile}]
         /\ UNCHANGED <<marker, file, history>>
         /\ lock' \in BOOLEAN /\ faults' \in 0..MaxFaults

LEMMA RestsInv == IInv /\ Rests => IInv'
  <1> SUFFICES ASSUME IInv, Rests PROVE IInv'
    OBVIOUS
  <1> USE DEF Rests, history
  <1>1. TypeOK'
    BY DEF IInv, TypeOK
  <1>2. DiskOK' /\ AtSource' /\ ReadyOK' /\ StepOK' /\ Progress'
    BY DEF IInv, DiskOK, AtSource, ReadyOK, StepOK, Progress, Underway, ValidState, Arrived,
           NextHop
  <1>3. PlanOK'
    BY DEF IInv, PlanOK
  <1>4. RollbackPoint' /\ CompleteIsDeployed'
    BY DEF IInv, RollbackPoint, CompleteIsDeployed, Underway
  <1> QED  BY <1>1, <1>2, <1>3, <1>4 DEF IInv

LEMMA RestingSteps ==
    ASSUME IInv,
           Refuse \/ Noop \/ SnapshotUnknown \/ SnapshotFails \/ Release \/ Crash
    PROVE  IInv'
  <1>1. run.pc # "off"
    BY DEF Refuse, Noop, SnapshotUnknown, SnapshotFails, Release, Crash
  <1>2. faults \in 0..MaxFaults /\ MaxFaults \in Nat /\ lock \in BOOLEAN
    BY CoordinatorAssumption DEF IInv, TypeOK
  <1>3. faults' = faults \/ (faults < MaxFaults /\ faults' = faults + 1)
    BY DEF Refuse, Noop, SnapshotUnknown, SnapshotFails, Release, Crash, Fault
  <1>4. lock' = lock \/ lock' = FALSE
    BY DEF Refuse, Noop, SnapshotUnknown, SnapshotFails, Release, Crash, Fault
  <1>5. faults' \in 0..MaxFaults
    BY <1>2, <1>3
  <1>6. lock' \in BOOLEAN
    BY <1>2, <1>4, Zenon
  <1>7. run \in [pc : Places, plan : Plans \cup {NoFile}, st : States \cup {NoFile}]
    BY DEF IInv, TypeOK
  <1>8. \/ run' = Off
        \/ \E p \in {"ended", "refused"} : run' = [run EXCEPT !.pc = p]
    BY DEF Refuse, Noop, SnapshotUnknown, SnapshotFails, Release, Crash
  <1>9. /\ run' \in [pc : Places, plan : Plans \cup {NoFile}, st : States \cup {NoFile}]
        /\ run'.pc \in {"off", "ended", "refused"}
        /\ run'.pc # "off" => run'.plan = run.plan
    BY <1>7, <1>8 DEF Off, Places
  <1>10. UNCHANGED <<marker, file, history>>
    BY DEF Refuse, Noop, SnapshotUnknown, SnapshotFails, Release, Crash
  <1> QED  BY <1>1, <1>5, <1>6, <1>9, <1>10, RestsInv DEF Rests

\* The operator's own steps.
LEMMA RemoveLockInv == ASSUME IInv, RemoveLock PROVE IInv'
  <1>1. TypeOK'
    BY DEF IInv, TypeOK, RemoveLock, history
  <1>2. DiskOK' /\ AtSource' /\ ReadyOK' /\ StepOK' /\ Progress'
    BY DEF IInv, DiskOK, AtSource, ReadyOK, StepOK, Progress, Underway, ValidState, Arrived,
           NextHop, RemoveLock, history
  <1>3. PlanOK' /\ RollbackPoint' /\ CompleteIsDeployed'
    BY DEF IInv, PlanOK, RollbackPoint, CompleteIsDeployed, Underway, RemoveLock, history
  <1> QED  BY <1>1, <1>2, <1>3 DEF IInv

LEMMA DiscardInv == ASSUME IInv, DiscardSnapshot PROVE IInv'
  <1>1. ~Underway /\ ~Underway'
    BY DEF DiscardSnapshot, Underway
  <1>2. TypeOK'
    BY DEF IInv, TypeOK, DiscardSnapshot, history
  <1>3. DiskOK' /\ AtSource' /\ ReadyOK' /\ StepOK' /\ PlanOK'
    BY DEF IInv, DiskOK, AtSource, ReadyOK, StepOK, PlanOK, DiscardSnapshot
  <1>4. Progress' /\ RollbackPoint' /\ CompleteIsDeployed'
    BY <1>1 DEF IInv, Progress, RollbackPoint, CompleteIsDeployed, DiscardSnapshot, history
  <1> QED  BY <1>2, <1>3, <1>4 DEF IInv
-----------------------------------------------------------------------------
(* A run plans and takes up what it finds.                                 *)

LEMMA StartInv == ASSUME IInv, NEW o \in Offers, Start(o) PROVE IInv'
  <1>1. PlanFor(o) \in Plans /\ Planned(PlanFor(o)) /\ PlanFor(o).source = marker
    <2>1. marker \in Versions /\ o.target \in Versions /\ o.rev \in Commits /\ o.pins \in Pins
      BY CoordinatorAssumption DEF IInv, TypeOK, Commits
    <2>2. Path(marker, o.target) \in Seq(Versions) /\ Path(marker, o.target) # NoPath
      BY <2>1, PathAssumption DEF Start
    <2> QED  BY <2>1, <2>2 DEF PlanFor, Plans, Planned
  <1>2. /\ run' \in [pc : Places, plan : Plans \cup {NoFile}, st : States \cup {NoFile}]
        /\ run'.pc = "planned" /\ run'.plan = PlanFor(o)
    BY <1>1 DEF IInv, TypeOK, Start, Places
  <1>3. TypeOK'
    BY <1>2 DEF IInv, TypeOK, Start, history
  <1>4. DiskOK' /\ ReadyOK' /\ StepOK'
    BY <1>2 DEF IInv, DiskOK, ReadyOK, StepOK, ValidState, NextHop, Start
  <1>5. AtSource' /\ PlanOK'
    BY <1>1, <1>2 DEF AtSource, PlanOK, Start
  <1>6. Progress' /\ RollbackPoint' /\ CompleteIsDeployed'
    BY <1>2 DEF IInv, Progress, Arrived, NextHop, RollbackPoint, CompleteIsDeployed, Underway,
           Start, history
  <1> QED  BY <1>3, <1>4, <1>5, <1>6 DEF IInv

\* A run has begun: what remains to be shown is that its state is fit to go on.
Takes == /\ run.pc = "planned" /\ run.plan \in Plans
         /\ run' = [run EXCEPT !.pc = "ready", !.st = run'.st]
         /\ run'.st \in States /\ run'.st.plan = run.plan
         /\ UNCHANGED <<marker, file, lock, faults, history>>

LEMMA TakesInv == IInv /\ Takes /\ ReadyOK' => IInv'
  <1> SUFFICES ASSUME IInv, Takes, ReadyOK' PROVE IInv'
    OBVIOUS
  <1> USE DEF Takes, history
  <1>1. /\ run' \in [pc : Places, plan : Plans \cup {NoFile}, st : States \cup {NoFile}]
        /\ run'.pc = "ready" /\ run'.plan = run.plan
    BY DEF IInv, TypeOK, Places
  <1>2. TypeOK'
    BY <1>1 DEF IInv, TypeOK
  <1>3. DiskOK' /\ StepOK' /\ AtSource' /\ PlanOK'
    BY <1>1 DEF IInv, DiskOK, StepOK, AtSource, PlanOK, ValidState, NextHop
  <1>4. Progress' /\ RollbackPoint' /\ CompleteIsDeployed'
    BY <1>1 DEF IInv, Progress, Arrived, NextHop, RollbackPoint, CompleteIsDeployed, Underway
  <1> QED  BY <1>2, <1>3, <1>4 DEF IInv

LEMMA BegunFacts ==
    ASSUME IInv, run.pc = "planned"
    PROVE  /\ run.plan \in Plans /\ Planned(run.plan)
           /\ DOMAIN run = {"pc", "plan", "st"}
           /\ file # NoFile => file \in States
  BY DEF IInv, TypeOK, PlanOK

LEMMA StartPathInv == ASSUME IInv, StartPath PROVE IInv'
  <1>1. run.pc = "planned" /\ ~Underway
    BY DEF StartPath, Underway
  <1>2. /\ run' = [run EXCEPT !.pc = "ready", !.st = NewState(run.plan)]
        /\ UNCHANGED <<marker, file, lock, faults, history>>
    BY DEF StartPath, Begun
  <1>3. NewState(run.plan) \in States /\ ValidState(NewState(run.plan))
    BY <1>1, BegunFacts, NewStateFacts
  <1>4. run'.pc = "ready" /\ run'.st = NewState(run.plan)
    BY <1>2, <1>1 DEF IInv, TypeOK
  <1>5. Takes
    BY <1>1, <1>2, <1>3, <1>4, BegunFacts DEF Takes, NewState
  <1>6. ReadyOK'
    BY <1>1, <1>2, <1>3, <1>4 DEF ReadyOK, NewState, Underway, ValidState, NextHop
  <1> QED  BY <1>5, <1>6, TakesInv

LEMMA ResumePathInv == ASSUME IInv, ResumePath PROVE IInv'
  <1>1. run.pc = "planned" /\ file # NoFile /\ file.plan = run.plan /\ ValidState(file)
    BY DEF ResumePath
  <1>2. /\ run' = [run EXCEPT !.pc = "ready", !.st = file]
        /\ UNCHANGED <<marker, file, lock, faults, history>>
    BY DEF ResumePath, Begun
  <1>3. file \in States
    BY <1>1, BegunFacts
  <1>4. run'.pc = "ready" /\ run'.st = file
    BY <1>2, <1>1 DEF IInv, TypeOK
  <1>5. Takes
    BY <1>1, <1>2, <1>3, <1>4, BegunFacts DEF Takes
  <1>6. file.snap # "none"
    BY <1>1 DEF IInv, DiskOK
  <1>7. ReadyOK'
    BY <1>1, <1>2, <1>4, <1>6 DEF ReadyOK, Underway, SamePath, ValidState, NextHop
  <1> QED  BY <1>5, <1>7, TakesInv

LEMMA RetryCommitInv == ASSUME IInv, RetryCommit PROVE IInv'
  <1> DEFINE t == Retried(file, run.plan)
  <1>1. run.pc = "planned" /\ file # NoFile /\ CanRetry(file, run.plan) /\ ValidState(file)
    BY DEF RetryCommit
  <1>2. /\ run' = [run EXCEPT !.pc = "ready", !.st = t]
        /\ UNCHANGED <<marker, file, lock, faults, history>>
    BY DEF RetryCommit, Begun
  <1>3. /\ t \in States /\ ValidState(t) /\ t.plan = run.plan /\ t.done = file.done
        /\ t.snap = file.snap /\ t.status = "running" /\ t.hop = NoRelease
    BY <1>1, BegunFacts, RetriedFacts
  <1> HIDE DEF t
  <1>4. run'.pc = "ready" /\ run'.st = t
    BY <1>2, <1>1 DEF IInv, TypeOK
  <1>5. Takes
    BY <1>1, <1>2, <1>3, <1>4, BegunFacts DEF Takes
  <1>6. file.snap # "none" /\ file.status = "failed" /\ SamePath(file, run.plan)
    BY <1>1 DEF IInv, DiskOK, CanRetry
  <1>7. ReadyOK'
    BY <1>1, <1>2, <1>3, <1>4, <1>6 DEF ReadyOK, Underway, SamePath, ValidState, NextHop
  <1> QED  BY <1>5, <1>7, TakesInv
-----------------------------------------------------------------------------
(* A run writes its state.                                                 *)

Typed(r) == r \in [pc : Places, plan : Plans \cup {NoFile}, st : States \cup {NoFile}]

\* A step that saves a valid state of its plan and does not deploy.
Saves == /\ run.pc \in {"ready", "snapshot", "next", "hop", "deployed"}
         /\ run' = [run EXCEPT !.pc = run'.pc, !.st = file']
         /\ run'.pc \in {"snapshot", "next", "hop", "ended"}
         /\ file' \in States /\ file'.plan = run.plan
         /\ ValidState(file') /\ file'.snap # "none"
         /\ file'.snap = "running" => file'.status = "running"
         /\ marker' = marker /\ lock' = lock /\ faults' \in 0..MaxFaults
         /\ snapshot' \in [of : Versions, clean : BOOLEAN]
         /\ deployed' \in Seq(Versions) /\ begun' \in BOOLEAN

LEMMA SavesInv ==
    IInv /\ Saves /\ AtSource' /\ StepOK' /\ Progress' /\ RollbackPoint' /\ CompleteIsDeployed'
      => IInv'
  <1> SUFFICES ASSUME IInv, Saves, AtSource', StepOK', Progress', RollbackPoint',
                      CompleteIsDeployed'
               PROVE  IInv'
    OBVIOUS
  <1>1. Typed(run)
    BY DEF IInv, TypeOK, Typed
  <1>2. Typed(run') /\ run'.plan = run.plan /\ run'.st = file'
    BY <1>1 DEF Typed, Saves, Places
  <1>3. TypeOK'
    BY <1>2 DEF IInv, TypeOK, Typed, Saves
  <1>4. run.plan \in Plans /\ Planned(run.plan)
    BY DEF IInv, PlanOK, Saves
  <1>5. DiskOK'
    BY <1>4 DEF DiskOK, Saves, ValidState, NextHop
  <1>6. PlanOK' /\ ReadyOK'
    BY <1>2, <1>4 DEF PlanOK, ReadyOK, Saves
  <1> QED  BY <1>3, <1>5, <1>6 DEF IInv

\* What every such step starts from.
LEMMA AtWork ==
    ASSUME IInv, run.pc \in {"ready", "snapshot", "next", "hop", "deployed"}
    PROVE  /\ run.st \in States /\ run.st.plan = run.plan
           /\ run.plan \in Plans /\ Planned(run.plan)
           /\ ValidState(run.st)
           /\ marker \in Versions /\ faults \in 0..MaxFaults /\ MaxFaults \in Nat
           /\ snapshot \in [of : Versions, clean : BOOLEAN]
           /\ deployed \in Seq(Versions) /\ begun \in BOOLEAN
  <1>1. run.st \in States /\ run.st.plan = run.plan /\ run.plan \in Plans /\ Planned(run.plan)
    BY DEF IInv, PlanOK
  <1>2. ValidState(run.st)
    BY CoordinatorAssumption, <1>1 DEF IInv, ReadyOK, StepOK, DiskOK
  <1> QED  BY <1>1, <1>2, CoordinatorAssumption DEF IInv, TypeOK

LEMMA BeginSnapshotInv == ASSUME IInv, BeginSnapshot PROVE IInv'
  <1> DEFINE t == [run.st EXCEPT !.snap = "running", !.status = "running"]
  <1>1. run.pc = "ready" /\ run.st.snap = "none" /\ run.st.status = "running"
    BY DEF BeginSnapshot, IInv, ReadyOK
  <1>2. /\ file' = t /\ run' = [run EXCEPT !.pc = "snapshot", !.st = t]
        /\ UNCHANGED <<marker, lock, faults, snapshot, deployed, begun>>
    BY DEF BeginSnapshot, Save, history
  <1>3. ~Underway /\ run.st.hop = NoRelease /\ begun = FALSE
    BY <1>1, AtWork DEF IInv, ReadyOK, Progress
  <1>4. /\ t \in States /\ t.plan = run.st.plan /\ t.done = run.st.done /\ t.hop = run.st.hop
        /\ t.failed = run.st.failed /\ t.snap = "running" /\ t.status = "running"
    BY <1>1, AtWork DEF States
  <1> HIDE DEF t
  <1>5. /\ run'.pc = "snapshot" /\ run'.st = file' /\ run'.plan = run.plan
        /\ run' = [run EXCEPT !.pc = run'.pc, !.st = file']
    BY <1>1, <1>2 DEF IInv, TypeOK
  <1>6. ValidState(t)
    BY <1>1, <1>3, <1>4, AtWork DEF ValidState, NextHop
  <1>7. Saves
    BY <1>1, <1>2, <1>4, <1>5, <1>6, AtWork DEF Saves
  <1>8. ~Underway' /\ file'.status # "complete"
    BY <1>2, <1>4 DEF Underway
  <1>9. AtSource' /\ StepOK'
    BY <1>1, <1>2, <1>3, <1>4, <1>5 DEF IInv, AtSource, StepOK
  <1>10. Progress' /\ RollbackPoint' /\ CompleteIsDeployed'
    BY <1>2, <1>3, <1>5, <1>8 DEF Progress, RollbackPoint, CompleteIsDeployed
  <1> QED  BY <1>7, <1>9, <1>10, SavesInv

LEMMA SnapshotDoneInv == ASSUME IInv, SnapshotDone PROVE IInv'
  <1> DEFINE t == [run.st EXCEPT !.snap = "complete"]
  <1>1. /\ run.pc = "snapshot" /\ file = run.st /\ run.st.snap = "running"
        /\ run.st.status = "running" /\ run.st.hop = NoRelease
    BY DEF SnapshotDone, IInv, StepOK
  <1>2. /\ file' = t /\ run' = [run EXCEPT !.pc = "next", !.st = t]
        /\ snapshot' = [of |-> marker, clean |-> ~begun] /\ deployed' = <<>>
        /\ UNCHANGED <<marker, lock, faults, begun>>
    BY DEF SnapshotDone, Save
  <1>3. begun = FALSE
    BY <1>1, AtWork DEF IInv, Progress, Underway
  <1>4. /\ t \in States /\ t.plan = run.st.plan /\ t.done = run.st.done /\ t.hop = run.st.hop
        /\ t.failed = run.st.failed /\ t.snap = "complete" /\ t.status = "running"
    BY <1>1, AtWork DEF States
  <1> HIDE DEF t
  <1>5. /\ run'.pc = "next" /\ run'.st = file' /\ run'.plan = run.plan
        /\ run' = [run EXCEPT !.pc = run'.pc, !.st = file']
    BY <1>1, <1>2 DEF IInv, TypeOK
  <1>6. ValidState(t) /\ t.done = <<>>
    BY <1>1, <1>4, AtWork DEF ValidState, NextHop
  <1>7. snapshot' = [of |-> marker, clean |-> TRUE]
    BY <1>2, <1>3
  <1>8. Saves
    BY <1>1, <1>2, <1>4, <1>5, <1>6, <1>7, AtWork DEF Saves
  <1>9. marker = file'.plan.source
    BY <1>1, <1>2, <1>4, AtWork DEF IInv, AtSource
  <1>10. AtSource' /\ StepOK'
    BY <1>1, <1>2, <1>4, <1>5 DEF AtSource, StepOK
  <1>11. Progress'
    BY <1>2, <1>3, <1>6, <1>9 DEF Progress, Arrived
  <1>12. RollbackPoint' /\ CompleteIsDeployed'
    BY <1>2, <1>4, <1>5, <1>7, <1>9 DEF RollbackPoint, CompleteIsDeployed
  <1> QED  BY <1>8, <1>10, <1>11, <1>12, SavesInv

\* A run that can go on has the path under way on disk.
LEMMA GoingOn ==
    ASSUME IInv, CanGoOn
    PROVE  /\ run.pc \in {"ready", "next"} /\ Underway
           /\ run.st.snap = "complete" /\ run.st.status # "complete"
           /\ SamePath(file, run.st.plan) /\ file.done = run.st.done
  <1>1. CASE run.pc = "ready"
    BY <1>1 DEF IInv, ReadyOK, CanGoOn
  <1>2. CASE run.pc = "next"
    BY <1>2, AtWork, CoordinatorAssumption DEF IInv, StepOK, SamePath, Underway
  <1> QED  BY <1>1, <1>2 DEF CanGoOn

LEMMA BeginHopInv == ASSUME IInv, BeginHop PROVE IInv'
  <1> DEFINE t == [run.st EXCEPT !.status = "running", !.hop = NextHop(run.st),
                                 !.failed = NoRelease]
  <1>1. /\ run.pc \in {"ready", "next"} /\ Underway /\ NextHop(run.st) # NoRelease
        /\ run.st.snap = "complete" /\ run.st.status # "complete"
        /\ SamePath(file, run.st.plan) /\ file.done = run.st.done
    BY GoingOn DEF BeginHop
  <1>2. /\ file' = t /\ run' = [run EXCEPT !.pc = "hop", !.st = t]
        /\ begun' = TRUE /\ UNCHANGED <<marker, lock, faults, snapshot, deployed>>
    BY DEF BeginHop, Save
  <1>3. NextHop(run.st) \in Versions \cup {NoRelease}
    BY <1>1, AtWork, HopFacts
  <1>4. /\ t \in States /\ t.plan = run.st.plan /\ t.done = run.st.done /\ t.hop = NextHop(run.st)
        /\ t.failed = NoRelease /\ t.snap = "complete" /\ t.status = "running"
    BY <1>1, <1>3, AtWork DEF States
  <1> HIDE DEF t
  <1>5. NextHop(t) = NextHop(run.st)
    BY <1>4 DEF NextHop
  <1>6. /\ run'.pc = "hop" /\ run'.st = file' /\ run'.plan = run.plan
        /\ run' = [run EXCEPT !.pc = run'.pc, !.st = file']
    BY <1>1, <1>2 DEF IInv, TypeOK
  <1>7. ValidState(t)
    BY <1>1, <1>4, <1>5, AtWork DEF ValidState
  <1>8. Saves
    BY <1>1, <1>2, <1>4, <1>6, <1>7, AtWork DEF Saves
  <1>9. Underway'
    BY <1>2, <1>4, CoordinatorAssumption DEF Underway
  <1>10. AtSource' /\ StepOK'
    BY <1>1, <1>2, <1>4, <1>5, <1>6 DEF AtSource, StepOK, NextHop
  <1>11. Arrived(file)
    BY <1>1 DEF IInv, Progress
  <1>12. Progress'
    BY <1>1, <1>2, <1>4, <1>9, <1>11 DEF Progress, Arrived, SamePath, NextHop
  <1>13. snapshot = [of |-> file.plan.source, clean |-> TRUE]
    BY <1>1 DEF IInv, RollbackPoint
  <1>14. RollbackPoint' /\ CompleteIsDeployed'
    BY <1>1, <1>2, <1>4, <1>9, <1>13 DEF RollbackPoint, CompleteIsDeployed, SamePath
  <1> QED  BY <1>8, <1>10, <1>12, <1>14, SavesInv

\* While a hop runs, the state on disk is the one in memory, and under way.
LEMMA Hopping ==
    ASSUME IInv, run.pc \in {"hop", "deployed"}
    PROVE  /\ file = run.st /\ Underway /\ run.st.status = "running" /\ run.st.snap = "complete"
           /\ run.st.hop = NextHop(run.st) /\ run.st.hop # NoRelease
           /\ run.st.hop \in Versions /\ Arrived(file)
           /\ snapshot = [of |-> file.plan.source, clean |-> TRUE]
  <1>1. Underway
    BY DEF IInv, RollbackPoint
  <1>2. run.st.hop = NextHop(run.st) /\ run.st.hop # NoRelease
    BY DEF IInv, StepOK
  <1>3. run.st.hop \in Versions
    BY <1>2, AtWork, HopFacts
  <1> QED  BY <1>1, <1>2, <1>3 DEF IInv, StepOK, Progress, RollbackPoint

LEMMA DeployInv == ASSUME IInv, Deploy PROVE IInv'
  <1>1. /\ run.pc = "hop" /\ marker' = run.st.hop /\ deployed' = Append(deployed, run.st.hop)
        /\ run' = [run EXCEPT !.pc = "deployed"]
        /\ UNCHANGED <<file, lock, faults, snapshot, begun>>
    BY DEF Deploy
  <1>2. Typed(run)
    BY DEF IInv, TypeOK, Typed
  <1>3. Typed(run') /\ run'.pc = "deployed" /\ run'.plan = run.plan /\ run'.st = run.st
    BY <1>1, <1>2 DEF Typed, Places
  <1>4. deployed' \in Seq(Versions)
    BY <1>1, Hopping, AtWork
  <1>5. TypeOK'
    BY <1>1, <1>3, <1>4, Hopping DEF IInv, TypeOK, Typed
  <1>6. DiskOK' /\ Underway'
    BY <1>1, Hopping DEF IInv, DiskOK, ValidState, NextHop, Underway
  <1>7. AtSource' /\ PlanOK' /\ ReadyOK'
    BY <1>1, <1>3 DEF IInv, AtSource, PlanOK, ReadyOK
  <1>8. StepOK'
    BY <1>1, <1>3, Hopping DEF IInv, StepOK, NextHop
  <1>9. marker' = NextHop(file)
    BY <1>1, Hopping
  <1>10. Progress'
    BY <1>1, <1>6, <1>9 DEF Progress, Arrived, NextHop
  <1>11. RollbackPoint' /\ CompleteIsDeployed'
    BY <1>1, <1>6, Hopping DEF RollbackPoint, CompleteIsDeployed
  <1> QED  BY <1>5, <1>6, <1>7, <1>8, <1>10, <1>11 DEF IInv

\* The checkpoint of a release is the next one of the path.
LEMMA AppendHop ==
    ASSUME NEW done \in Seq(Versions), NEW path \in Seq(Versions),
           PrefixOf(done, path), Len(done) < Len(path), NEW d,
           d = Append(done, path[Len(done) + 1])
    PROVE  /\ d \in Seq(Versions) /\ PrefixOf(d, path) /\ d # <<>>
           /\ Len(d) = Len(done) + 1 /\ d[Len(d)] = path[Len(done) + 1]
  <1>1. Len(done) \in Nat /\ Len(path) \in Nat /\ path[Len(done) + 1] \in Versions
    OBVIOUS
  <1>2. d \in Seq(Versions) /\ Len(d) = Len(done) + 1 /\ d[Len(d)] = path[Len(done) + 1]
    BY <1>1
  <1>3. \A i \in 1..Len(d) : d[i] = path[i]
    <2> TAKE i \in 1..Len(d)
    <2>1. CASE i = Len(d)
      BY <2>1, <1>1, <1>2
    <2>2. CASE i # Len(d)
      <3>1. i \in 1..Len(done)
        BY <2>2, <1>1, <1>2
      <3>2. d[i] = done[i]
        BY <3>1
      <3> QED  BY <3>1, <3>2 DEF PrefixOf
    <2> QED  BY <2>1, <2>2
  <1>4. DOMAIN d = 1..Len(d)
    BY <1>2
  <1> QED  BY <1>1, <1>2, <1>3, <1>4 DEF PrefixOf

LEMMA HopDoneInv == ASSUME IInv, HopDone PROVE IInv'
  <1> DEFINE t == AfterHop(run.st)
  <1>1. run.pc = "deployed" /\ marker = run.st.hop
    BY DEF HopDone, IInv, StepOK
  <1>2. /\ file' = t /\ run' = [run EXCEPT !.pc = "next", !.st = t]
        /\ UNCHANGED <<marker, lock, faults, snapshot, deployed, begun>>
    BY DEF HopDone, Save, history
  <1>3. /\ run.st.done \in Seq(Versions) /\ run.st.plan.path \in Seq(Versions)
        /\ PrefixOf(run.st.done, run.st.plan.path)
        /\ Len(run.st.done) < Len(run.st.plan.path)
        /\ run.st.hop = run.st.plan.path[Len(run.st.done) + 1]
    BY <1>1, AtWork, Hopping, HopFacts DEF States, Plans, ValidState
  <1>4. PICK d : d = Append(run.st.done, run.st.hop)
    OBVIOUS
  <1>5. d \in Seq(Versions) /\ PrefixOf(d, run.st.plan.path) /\ d # <<>>
        /\ d[Len(d)] = run.st.hop
    BY <1>3, <1>4, AppendHop
  <1>6. /\ t \in States /\ t.plan = run.st.plan /\ t.done = d /\ t.hop = NoRelease
        /\ t.failed = run.st.failed /\ t.snap = "complete" /\ t.status = "running"
    BY <1>1, <1>4, <1>5, AtWork, Hopping DEF States, AfterHop
  <1> HIDE DEF t
  <1>7. /\ run'.pc = "next" /\ run'.st = file' /\ run'.plan = run.plan
        /\ run' = [run EXCEPT !.pc = run'.pc, !.st = file']
    BY <1>1, <1>2 DEF IInv, TypeOK
  <1>8. ValidState(t)
    BY <1>5, <1>6 DEF ValidState
  <1>9. Saves
    BY <1>1, <1>2, <1>6, <1>7, <1>8, AtWork DEF Saves
  <1>10. Underway'
    BY <1>2, <1>6, CoordinatorAssumption DEF Underway
  <1>11. AtSource' /\ StepOK'
    BY <1>2, <1>6, <1>7 DEF AtSource, StepOK
  <1>12. Progress'
    BY <1>1, <1>2, <1>5, <1>6, <1>10 DEF Progress, Arrived
  <1>13. RollbackPoint' /\ CompleteIsDeployed'
    BY <1>1, <1>2, <1>6, <1>7, <1>10, Hopping DEF RollbackPoint, CompleteIsDeployed
  <1> QED  BY <1>9, <1>11, <1>12, <1>13, SavesInv

LEMMA HopFailsInv == ASSUME IInv, HopFails PROVE IInv'
  <1> DEFINE t == AfterFailure(run.st)
  <1>1. run.pc = "hop" /\ Fault
    BY DEF HopFails
  <1>2. /\ file' = t /\ run' = [run EXCEPT !.pc = "ended", !.st = t]
        /\ UNCHANGED <<marker, lock, snapshot, deployed, begun>>
    BY DEF HopFails, Save, history
  <1>3. faults' \in 0..MaxFaults
    BY <1>1, AtWork DEF Fault
  <1>4. /\ t \in States /\ t.plan = run.st.plan /\ t.done = run.st.done /\ t.hop = run.st.hop
        /\ t.failed = run.st.hop /\ t.snap = "complete" /\ t.status = "failed"
    BY <1>1, AtWork, Hopping DEF States, AfterFailure
  <1> HIDE DEF t
  <1>5. /\ run'.pc = "ended" /\ run'.st = file' /\ run'.plan = run.plan
        /\ run' = [run EXCEPT !.pc = run'.pc, !.st = file']
    BY <1>1, <1>2 DEF IInv, TypeOK
  <1>6. NextHop(t) = NextHop(run.st)
    BY <1>4 DEF NextHop
  <1>7. ValidState(t)
    BY <1>1, <1>4, <1>6, AtWork, Hopping DEF ValidState
  <1>8. Saves
    BY <1>1, <1>2, <1>3, <1>4, <1>5, <1>7, AtWork DEF Saves
  <1>9. Underway'
    BY <1>2, <1>4, CoordinatorAssumption DEF Underway
  <1>10. AtSource' /\ StepOK'
    BY <1>5 DEF AtSource, StepOK
  <1>11. Progress'
    BY <1>1, <1>2, <1>4, <1>9, Hopping DEF Progress, Arrived, NextHop
  <1>12. RollbackPoint' /\ CompleteIsDeployed'
    BY <1>1, <1>2, <1>4, <1>5, <1>9, Hopping DEF RollbackPoint, CompleteIsDeployed
  <1> QED  BY <1>8, <1>10, <1>11, <1>12, SavesInv

LEMMA FinishInv == ASSUME IInv, Finish PROVE IInv'
  <1> DEFINE t == [run.st EXCEPT !.status = "complete", !.hop = NoRelease, !.failed = NoRelease]
  <1>1. /\ run.pc \in {"ready", "next"} /\ Underway /\ NextHop(run.st) = NoRelease
        /\ run.st.snap = "complete" /\ run.st.status # "complete"
        /\ SamePath(file, run.st.plan) /\ file.done = run.st.done
    BY GoingOn DEF Finish
  <1>2. /\ file' = t /\ run' = [run EXCEPT !.pc = "ended", !.st = t]
        /\ begun' = FALSE /\ UNCHANGED <<marker, lock, faults, snapshot, deployed>>
    BY DEF Finish, Save
  <1>3. /\ t \in States /\ t.plan = run.st.plan /\ t.done = run.st.done /\ t.hop = NoRelease
        /\ t.failed = NoRelease /\ t.snap = "complete" /\ t.status = "complete"
    BY <1>1, AtWork DEF States
  <1> HIDE DEF t
  <1>4. /\ run'.pc = "ended" /\ run'.st = file' /\ run'.plan = run.plan
        /\ run' = [run EXCEPT !.pc = run'.pc, !.st = file']
    BY <1>1, <1>2 DEF IInv, TypeOK
  <1>5. /\ PrefixOf(run.st.done, run.st.plan.path)
        /\ ~(Len(run.st.done) < Len(run.st.plan.path))
        /\ run.st.done \in Seq(Versions) /\ run.st.plan.path \in Seq(Versions)
        /\ Len(run.st.plan.path) > 0
        /\ run.st.plan.path[Len(run.st.plan.path)] = run.st.plan.target
    BY <1>1, AtWork, HopFacts, PathFacts DEF ValidState, States, Plans
  <1>6. Len(run.st.done) = Len(run.st.plan.path)
    BY <1>5 DEF PrefixOf
  <1>7. run.st.done # <<>> /\ run.st.done[Len(run.st.done)] = run.st.plan.target
    BY <1>5, <1>6 DEF PrefixOf
  <1>8. marker = run.st.plan.target
    <2>1. Arrived(file)
      BY <1>1 DEF IInv, Progress
    <2>2. NextHop(file) = NoRelease
      BY <1>1 DEF SamePath, NextHop
    <2>3. marker # NoRelease
      BY <1>1, AtWork, CoordinatorAssumption
    <2> QED  BY <1>1, <1>7, <2>1, <2>2, <2>3 DEF Arrived
  <1>9. ValidState(t)
    BY <1>3, <1>5, <1>6 DEF ValidState
  <1>10. Saves
    BY <1>1, <1>2, <1>3, <1>4, <1>9, AtWork DEF Saves
  <1>11. ~Underway'
    BY <1>2, <1>3 DEF Underway
  <1>12. AtSource' /\ StepOK' /\ Progress' /\ RollbackPoint'
    BY <1>2, <1>4, <1>11 DEF AtSource, StepOK, Progress, RollbackPoint
  <1>13. CompleteIsDeployed'
    BY <1>2, <1>3, <1>8 DEF CompleteIsDeployed
  <1> QED  BY <1>10, <1>12, <1>13, SavesInv
-----------------------------------------------------------------------------
(* The invariant, and what follows from it.                                *)

\* A step that changes nothing keeps the invariant.
THEOREM StutterInv == IInv /\ UNCHANGED vars => IInv'
  <1> SUFFICES ASSUME IInv, UNCHANGED vars PROVE IInv'
    OBVIOUS
  <1> USE DEF vars
  <1>1. TypeOK' /\ DiskOK' /\ AtSource' /\ PlanOK' /\ StepOK'
    BY DEF IInv, TypeOK, DiskOK, AtSource, PlanOK, StepOK, ValidState, NextHop
  <1>2. ReadyOK' /\ Progress' /\ RollbackPoint' /\ CompleteIsDeployed'
    BY DEF IInv, ReadyOK, Progress, RollbackPoint, CompleteIsDeployed, Underway, ValidState,
           NextHop, Arrived
  <1> QED  BY <1>1, <1>2 DEF IInv

\* Every step of a run, a crash or the operator keeps the invariant.
THEOREM NextInv == IInv /\ [Next]_vars => IInv'
  <1> SUFFICES ASSUME IInv, [Next]_vars PROVE IInv'
    OBVIOUS
  <1>1. ASSUME NEW o \in Offers, Start(o) PROVE IInv'
    BY <1>1, StartInv
  <1>2. CASE StartPath \/ ResumePath \/ RetryCommit
    BY <1>2, StartPathInv, ResumePathInv, RetryCommitInv
  <1>3. CASE Refuse \/ Noop \/ SnapshotUnknown \/ SnapshotFails \/ Release \/ Crash
    BY <1>3, RestingSteps
  <1>4. CASE BeginSnapshot \/ SnapshotDone
    BY <1>4, BeginSnapshotInv, SnapshotDoneInv
  <1>5. CASE BeginHop \/ Deploy \/ HopDone \/ HopFails \/ Finish
    BY <1>5, BeginHopInv, DeployInv, HopDoneInv, HopFailsInv, FinishInv
  <1>6. CASE RemoveLock \/ DiscardSnapshot
    BY <1>6, RemoveLockInv, DiscardInv
  <1>7. CASE UNCHANGED vars
    BY <1>7, StutterInv
  <1> QED  BY <1>1, <1>2, <1>3, <1>4, <1>5, <1>6, <1>7 DEF Next

\* The invariant holds of every execution.
THEOREM Inductive == Spec => []IInv
  BY InitInv, NextInv, PTL DEF Spec

\* Every variable keeps its type, for any releases, planner, offers and faults.
THEOREM TypeCorrect == Spec => []TypeOK
  <1>1. IInv => TypeOK
    BY DEF IInv
  <1> QED  BY <1>1, Inductive, PTL

\* The snapshot on disk always holds the release a path under way started from.
THEOREM RollbackHolds == Spec => []RollbackPoint
  <1>1. IInv => RollbackPoint
    BY DEF IInv
  <1> QED  BY <1>1, Inductive, PTL

\* No crash, failure or retry leaves a recovery file the coordinator rejects.
THEOREM NeverLockedOut == Spec => []CheckpointIsValid
  <1>1. IInv => CheckpointIsValid
    BY DEF IInv, DiskOK, CheckpointIsValid
  <1> QED  BY <1>1, Inductive, PTL

\* A plan recorded as complete is deployed.
THEOREM CompleteMeansDeployed == Spec => []CompleteIsDeployed
  <1>1. IInv => CompleteIsDeployed
    BY DEF IInv
  <1> QED  BY <1>1, Inductive, PTL
-----------------------------------------------------------------------------
(* The steps a path takes.                                                 *)

\* From where a path has arrived, its next release is the planner's first.
LEMMA NextIsFirst ==
    ASSUME NEW s \in States, Planned(s.plan), ValidState(s), NextHop(s) # NoRelease,
           Arrived(s), marker # NextHop(s)
    PROVE  marker < NextHop(s) /\ Path(marker, s.plan.target)[1] = NextHop(s)
  <1> DEFINE path == s.plan.path
             n == Len(s.done)
  <1>1. /\ s.plan \in Plans /\ s.plan.source \in Versions /\ s.plan.target \in Versions
        /\ path \in Seq(Versions) /\ s.done \in Seq(Versions)
        /\ n \in Nat /\ Len(path) \in Nat
    BY DEF States, Plans
  <1>2. n < Len(path) /\ NextHop(s) = path[n + 1]
    BY HopFacts
  <1>3. Path(s.plan.source, s.plan.target) # NoPath /\ path = Path(s.plan.source, s.plan.target)
    BY DEF Planned
  <1>4. CASE s.done = <<>> /\ marker = s.plan.source
    <2>1. n = 0 /\ NextHop(s) = path[1]
      BY <1>2, <1>4
    <2>2. CASE s.plan.source = s.plan.target
      <3>1. path = <<s.plan.target>>
        BY <1>1, <1>3, <2>2, PathAssumption
      <3> QED  BY <3>1, <2>1, <2>2, <1>4
    <2>3. CASE s.plan.source # s.plan.target
      <3>1. s.plan.source < path[1]
        BY <1>1, <1>3, <2>3, PathAssumption
      <3> QED  BY <3>1, <2>1, <1>3, <1>4
    <2> QED  BY <2>2, <2>3
  <1>5. CASE s.done # <<>> /\ marker = s.done[n]
    <2>1. n \in 1..(Len(path) - 1) /\ s.done[n] = path[n]
      BY <1>1, <1>2, <1>5 DEF ValidState, PrefixOf
    <2>2. /\ path[n] < path[n + 1]
          /\ Path(path[n], s.plan.target) = SubSeq(path, n + 1, Len(path))
      <3>1. \A i \in 1..(Len(Path(s.plan.source, s.plan.target)) - 1) :
               /\ Path(s.plan.source, s.plan.target)[i] < Path(s.plan.source, s.plan.target)[i + 1]
               /\ Path(Path(s.plan.source, s.plan.target)[i], s.plan.target)
                     = SubSeq(Path(s.plan.source, s.plan.target), i + 1,
                              Len(Path(s.plan.source, s.plan.target)))
        BY <1>1, <1>3, PathAssumption
      <3>2. \A i \in 1..(Len(path) - 1) :
               /\ path[i] < path[i + 1]
               /\ Path(path[i], s.plan.target) = SubSeq(path, i + 1, Len(path))
        BY <3>1, <1>3
      <3> QED  BY <3>2, <2>1
    <2>3. SubSeq(path, n + 1, Len(path))[1] = path[n + 1]
      BY <1>1, <2>1
    <2> QED  BY <1>2, <1>5, <2>1, <2>2, <2>3
  <1> QED  BY <1>4, <1>5 DEF Arrived

LEMMA DeclaredStep ==
    ASSUME IInv, [Next]_vars, marker' # marker
    PROVE  marker < marker' /\ Path(marker, run.plan.target)[1] = marker'
  <1>1. Deploy
    BY DEF Next, vars, Start, StartPath, ResumePath, RetryCommit, Refuse, Noop, BeginSnapshot,
           SnapshotUnknown, SnapshotDone, SnapshotFails, BeginHop, HopDone, HopFails, Finish,
           Release, Crash, RemoveLock, DiscardSnapshot
  <1>2. /\ run.pc = "hop" /\ marker' = NextHop(file) /\ NextHop(file) # NoRelease
        /\ file = run.st /\ Arrived(file)
    BY <1>1, Hopping DEF Deploy
  <1>3. /\ file \in States /\ file.plan = run.plan /\ Planned(file.plan) /\ ValidState(file)
    BY <1>2, AtWork
  <1> QED  BY <1>2, <1>3, NextIsFirst

\* Whatever was resumed or retried, releases change along the planner's path.
THEOREM DeclaredHops == Spec => HopsAreDeclared
  <1>1. IInv /\ [Next]_vars => [marker' # marker =>
                                  /\ marker < marker'
                                  /\ Path(marker, run.plan.target)[1] = marker']_vars
    BY DeclaredStep
  <1> QED  BY <1>1, Inductive, PTL DEF Spec, HopsAreDeclared

Kept == Underway => /\ file' # NoFile /\ file'.snap = "complete"
                    /\ SamePath(file, file'.plan) /\ PrefixOf(file.done, file'.done)

LEMMA PrefixReflexive ==
    ASSUME NEW d \in Seq(Versions) PROVE PrefixOf(d, d)
  BY DEF PrefixOf

LEMMA KeptStep == ASSUME IInv, [Next]_vars PROVE Kept
  <1> SUFFICES ASSUME Underway
               PROVE  /\ file' # NoFile /\ file'.snap = "complete"
                      /\ SamePath(file, file'.plan) /\ PrefixOf(file.done, file'.done)
    BY DEF Kept
  <1>1. file \in States /\ file.done \in Seq(Versions) /\ file # NoFile /\ file.snap = "complete"
    BY DEF IInv, TypeOK, Underway, States
  <1>2. PrefixOf(file.done, file.done)
    BY <1>1, PrefixReflexive
  <1>3. CASE file' = file
    BY <1>1, <1>2, <1>3 DEF SamePath
  <1>4. CASE BeginHop
    <2>1. run.pc \in {"ready", "next"} /\ SamePath(file, run.st.plan) /\ file.done = run.st.done
          /\ run.st.snap = "complete"
      BY <1>4, GoingOn DEF BeginHop
    <2>2. file' = [run.st EXCEPT !.status = "running", !.hop = NextHop(run.st),
                                 !.failed = NoRelease]
      BY <1>4 DEF BeginHop, Save
    <2>3. file'.plan = run.st.plan /\ file'.done = run.st.done /\ file'.snap = "complete"
      BY <2>1, <2>2, AtWork DEF States
    <2>4. NextHop(run.st) \in Versions \cup {NoRelease}
      BY <2>1, AtWork, HopFacts
    <2>5. file' \in States
      BY <2>1, <2>2, <2>4, AtWork DEF States
    <2> QED  BY <1>2, <2>1, <2>3, <2>5, CoordinatorAssumption
  <1>5. CASE Finish
    <2>1. run.pc \in {"ready", "next"} /\ SamePath(file, run.st.plan) /\ file.done = run.st.done
          /\ run.st.snap = "complete"
      BY <1>5, GoingOn DEF Finish
    <2>2. file' = [run.st EXCEPT !.status = "complete", !.hop = NoRelease, !.failed = NoRelease]
      BY <1>5 DEF Finish, Save
    <2>3. file'.plan = run.st.plan /\ file'.done = run.st.done /\ file'.snap = "complete"
      BY <2>1, <2>2, AtWork DEF States
    <2>4. file' \in States
      BY <2>1, <2>2, AtWork DEF States
    <2> QED  BY <1>2, <2>1, <2>3, <2>4, CoordinatorAssumption
  <1>6. CASE HopDone
    <2>1. run.pc = "deployed" /\ file = run.st /\ run.st.snap = "complete"
      BY <1>6, Hopping DEF HopDone
    <2>2. file' = AfterHop(run.st)
      BY <1>6 DEF HopDone, Save
    <2>3. file'.plan = file.plan /\ file'.snap = "complete" /\ file'.done = Append(file.done, file.hop)
      BY <2>1, <2>2, <1>1 DEF AfterHop, States
    <2>4. PrefixOf(file.done, Append(file.done, file.hop))
      BY <1>1 DEF PrefixOf
    <2>5. file' # NoFile
      BY <1>6, HopDoneInv, <2>1, CoordinatorAssumption
         DEF IInv, StepOK, PlanOK, HopDone, Save, TypeOK
    <2> QED  BY <2>3, <2>4, <2>5 DEF SamePath
  <1>7. CASE HopFails
    <2>1. run.pc = "hop" /\ file = run.st /\ run.st.snap = "complete" /\ run.st.hop \in Versions
      BY <1>7, Hopping DEF HopFails
    <2>2. file' = AfterFailure(run.st)
      BY <1>7 DEF HopFails, Save
    <2>3. /\ file'.plan = file.plan /\ file'.snap = "complete" /\ file'.done = file.done
          /\ file' \in States
      BY <2>1, <2>2, <1>1 DEF AfterFailure, States
    <2> QED  BY <1>2, <2>3, CoordinatorAssumption DEF SamePath
  <1>8. CASE BeginSnapshot \/ SnapshotDone \/ DiscardSnapshot
    BY <1>1, <1>8 DEF BeginSnapshot, SnapshotDone, DiscardSnapshot, IInv, ReadyOK, StepOK
  <1>9. BeginHop \/ Finish \/ HopDone \/ HopFails \/ BeginSnapshot \/ SnapshotDone
          \/ DiscardSnapshot \/ file' = file
    BY DEF Next, vars, Start, StartPath, ResumePath, RetryCommit, Refuse, Noop, Deploy,
           SnapshotUnknown, SnapshotFails, Release, Crash, RemoveLock
  <1> QED  BY <1>3, <1>4, <1>5, <1>6, <1>7, <1>8, <1>9

\* No step of a run, and no crash, loses a checkpoint of a path under way.
THEOREM KeptCheckpoints == Spec => CheckpointsKept
  <1>1. IInv /\ [Next]_vars =>
          [Underway => /\ file' # NoFile /\ file'.snap = "complete"
                       /\ SamePath(file, file'.plan) /\ PrefixOf(file.done, file'.done)]_vars
    BY KeptStep DEF Kept
  <1> QED  BY <1>1, Inductive, PTL DEF Spec, CheckpointsKept
-----------------------------------------------------------------------------
(* Exactly once. No release is twice on a path, so what the file calls done  *)
(* can be counted.                                                          *)

\* A path repeats no release: the rest of a path is the planner's answer at each
\* of its releases, and two rests of one path have different lengths.
LEMMA PathRepeatsNothing ==
    ASSUME NEW p \in Plans, Planned(p), NEW i \in 1..Len(p.path), NEW j \in 1..Len(p.path), i < j
    PROVE  p.path[i] # p.path[j]
  <1> DEFINE P == p.path
             t == p.target
  <1>1. P \in Seq(Versions) /\ Len(P) \in Nat /\ P[Len(P)] = t /\ p.source \in Versions /\ t \in Versions
    BY PathFacts DEF Plans
  <1>2. \A k \in 1..(Len(P) - 1) : P[k] < P[k + 1] /\ Path(P[k], t) = SubSeq(P, k + 1, Len(P))
    <2>1. Path(p.source, t) # NoPath /\ P = Path(p.source, t)
      BY DEF Planned
    <2> HIDE DEF P, t
    <2> QED  BY <1>1, <2>1, PathAssumption
  <1>3. \A k \in 1..(Len(P) - 1) : Len(Path(P[k], t)) = Len(P) - k
    <2> SUFFICES ASSUME NEW k \in 1..(Len(P) - 1) PROVE Len(SubSeq(P, k + 1, Len(P))) = Len(P) - k
      BY <1>2
    <2> HIDE DEF P
    <2> QED  BY <1>1
  <1>4. i \in 1..(Len(P) - 1)
    BY <1>1
  <1> SUFFICES ASSUME P[i] = P[j] PROVE FALSE
    OBVIOUS
  <1>5. CASE j < Len(P)
    <2>1. j \in 1..(Len(P) - 1)
      BY <1>1, <1>5
    <2>2. Len(P) - i = Len(P) - j
      BY <1>3, <1>4, <2>1
    <2> QED  BY <1>1, <2>2
  <1>6. CASE j = Len(P)
    <2>1. Path(t, t) = Path(P[i], t) /\ Len(Path(t, t)) = Len(P) - i
      BY <1>1, <1>3, <1>4, <1>6
    <2>2. Path(t, t) # NoPath
      <3>1. Path(t, t) = SubSeq(P, i + 1, Len(P))
        BY <1>2, <1>4, <2>1
      <3>2. SubSeq(P, i + 1, Len(P)) \in Seq(Versions)
        <4> HIDE DEF P
        <4> QED  BY <1>1, <1>4
      <3> QED  BY <3>1, <3>2, PathAssumption
    <2>3. Len(P) - i = 1
      BY <1>1, <2>1, <2>2, PathAssumption
    <2>4. j = i + 1
      BY <1>1, <1>6, <2>3
    <2>5. P[i] < P[j] /\ P[i] \in Versions
      BY <1>1, <1>2, <1>4, <2>4
    <2>6. P[i] \in Nat
      BY <2>5, CoordinatorAssumption
    <2> HIDE DEF P
    <2> QED  BY <2>5, <2>6
  <1> QED  BY <1>1, <1>5, <1>6

\* Of a valid state nothing that is done is the next release.
LEMMA NextIsNotDone ==
    ASSUME NEW s \in States, Planned(s.plan), ValidState(s)
    PROVE  NextHop(s) \notin Releases(s.done)
  <1>1. s.done \in Seq(Versions) /\ s.plan \in Plans /\ s.plan.path \in Seq(Versions)
    BY DEF States, Plans
  <1>2. Len(s.done) \in Nat /\ Len(s.plan.path) \in Nat /\ DOMAIN s.done = 1..Len(s.done)
    BY <1>1
  <1>3. ASSUME NEW i \in 1..Len(s.done), s.done[i] = NextHop(s) PROVE FALSE
    <2>1. s.done[i] \in Versions
      BY <1>1, <1>2
    <2>2. Len(s.done) < Len(s.plan.path) /\ NextHop(s) = s.plan.path[Len(s.done) + 1]
      BY <1>3, <2>1, HopFacts, CoordinatorAssumption
    <2>3. s.done[i] = s.plan.path[i]
      BY <1>2 DEF ValidState, PrefixOf
    <2>4. i \in 1..Len(s.plan.path) /\ Len(s.done) + 1 \in 1..Len(s.plan.path) /\ i < Len(s.done) + 1
      BY <1>2, <2>2
    <2> QED  BY <1>1, <1>3, <2>2, <2>3, <2>4, PathRepeatsNothing
  <1> QED  BY <1>2, <1>3 DEF Releases

LEMMA ReleasesOfAppend ==
    ASSUME NEW q \in Seq(Versions), NEW v \in Versions
    PROVE  Releases(Append(q, v)) = Releases(q) \cup {v} /\ Len(Append(q, v)) = Len(q) + 1
  <1>1. Len(q) \in Nat /\ DOMAIN q = 1..Len(q)
    OBVIOUS
  <1>2. /\ Len(Append(q, v)) = Len(q) + 1 /\ DOMAIN Append(q, v) = 1..(Len(q) + 1)
        /\ Append(q, v)[Len(q) + 1] = v /\ \A i \in 1..Len(q) : Append(q, v)[i] = q[i]
    BY <1>1
  <1>3. 1..(Len(q) + 1) = 1..Len(q) \cup {Len(q) + 1}
    BY <1>1
  <1> QED  BY <1>1, <1>2, <1>3 DEF Releases

\* A release that waits for its checkpoint has been deployed, unless the run is
\* still at it, at the cost of one crash; each such crash allows one repetition.
Counted == Underway =>
    /\ IsFiniteSet(Releases(deployed))
    /\ Releases(file.done) \subseteq Releases(deployed)
    /\ Releases(deployed) \subseteq Releases(file.done) \cup {NextHop(file)}
    /\ run.pc = "deployed" => NextHop(file) \in Releases(deployed)
    /\ Len(deployed) <= Cardinality(Releases(deployed)) + faults
    /\ NextHop(file) \in Releases(deployed) /\ run.pc # "deployed" =>
          Len(deployed) + 1 <= Cardinality(Releases(deployed)) + faults

\* A step that neither deploys nor completes a release.
LEMMA CountedElsewhere ==
    ASSUME IInv, Counted, Underway' => Underway /\ NextHop(file') = NextHop(file) /\ file'.done = file.done,
           deployed' = deployed, faults' \in Nat, faults' >= faults,
           run.pc = "deployed" /\ run'.pc # "deployed" => faults' = faults + 1,
           run'.pc = "deployed" => run.pc = "deployed"
    PROVE  Counted'
  <1>1. deployed \in Seq(Versions) /\ faults \in Nat /\ Len(deployed) \in Nat
    BY DEF IInv, TypeOK
  <1> SUFFICES ASSUME Underway'
               PROVE  /\ IsFiniteSet(Releases(deployed))
                      /\ Releases(file'.done) \subseteq Releases(deployed)
                      /\ Releases(deployed) \subseteq Releases(file'.done) \cup {NextHop(file')}
                      /\ run'.pc = "deployed" => NextHop(file') \in Releases(deployed)
                      /\ Len(deployed) <= Cardinality(Releases(deployed)) + faults'
                      /\ NextHop(file') \in Releases(deployed) /\ run'.pc # "deployed" =>
                            Len(deployed) + 1 <= Cardinality(Releases(deployed)) + faults'
    BY DEF Counted, Releases
  <1>2. Underway /\ NextHop(file') = NextHop(file) /\ file'.done = file.done
    OBVIOUS
  <1>3. IsFiniteSet(Releases(deployed)) /\ Cardinality(Releases(deployed)) \in Nat
    BY <1>2, FS_CardinalityType DEF Counted
  <1> QED  BY <1>1, <1>2, <1>3 DEF Counted

LEMMA CountedDeploy == ASSUME IInv, Counted, Deploy PROVE Counted'
  <1> DEFINE n == run.st.hop
             D == Releases(deployed)
  <1>1. /\ file' = file /\ faults' = faults /\ deployed' = Append(deployed, n) /\ run'.pc = "deployed"
        /\ run.pc = "hop"
    BY DEF Deploy, IInv, TypeOK
  <1>2. n \in Versions /\ n = NextHop(file) /\ Underway /\ deployed \in Seq(Versions) /\ faults \in Nat
    BY <1>1, Hopping, AtWork
  <1>3. Releases(deployed') = D \cup {n} /\ Len(deployed') = Len(deployed) + 1 /\ Len(deployed) \in Nat
    BY <1>1, <1>2, ReleasesOfAppend
  <1>4. IsFiniteSet(D) /\ Cardinality(D) \in Nat
    BY <1>2, FS_CardinalityType DEF Counted
  <1>5. /\ IsFiniteSet(D \cup {n})
        /\ Cardinality(D \cup {n}) = IF n \in D THEN Cardinality(D) ELSE Cardinality(D) + 1
    BY <1>4, FS_AddElement
  <1>6. Len(deployed) + 1 <= Cardinality(D \cup {n}) + faults
    BY <1>1, <1>2, <1>3, <1>4, <1>5 DEF Counted
  <1>7. /\ Releases(file.done) \subseteq D
        /\ D \subseteq Releases(file.done) \cup {n}
    BY <1>2 DEF Counted
  <1>8. Releases(deployed)' = D \cup {n} /\ Releases(file.done)' = Releases(file.done)
        /\ NextHop(file)' = n
    BY <1>1, <1>2, <1>3 DEF Releases, NextHop
  <1> HIDE DEF D, n
  <1> QED  BY <1>1, <1>3, <1>5, <1>6, <1>7, <1>8 DEF Counted

LEMMA CountedHopDone == ASSUME IInv, IInv', Counted, HopDone PROVE Counted'
  <1> DEFINE n == run.st.hop
             D == Releases(deployed)
  <1>1. /\ run.pc = "deployed" /\ run'.pc = "next" /\ deployed' = deployed /\ faults' = faults
        /\ file' = AfterHop(run.st)
    BY DEF HopDone, Save, history, IInv, TypeOK
  <1>2. /\ file = run.st /\ n \in Versions /\ n = NextHop(file) /\ Underway /\ run.st \in States
    BY <1>1, Hopping, AtWork
  <1>3. file'.done = Append(file.done, n) /\ file.done \in Seq(Versions)
    BY <1>1, <1>2 DEF AfterHop, States
  <1>4. Releases(file'.done) = Releases(file.done) \cup {n}
    BY <1>2, <1>3, ReleasesOfAppend
  <1>5. /\ IsFiniteSet(D) /\ Releases(file.done) \subseteq D /\ n \in D
        /\ D \subseteq Releases(file.done) \cup {n}
        /\ Len(deployed) <= Cardinality(D) + faults
    BY <1>1, <1>2 DEF Counted
  <1>6. Underway' => NextHop(file') \notin Releases(file'.done)
    <2> SUFFICES ASSUME Underway' PROVE NextHop(file') \notin Releases(file'.done)
      OBVIOUS
    <2>1. file' # NoFile /\ file' \in States
      BY DEF Underway, IInv, TypeOK
    <2>2. Planned(file'.plan) /\ ValidState(file')
      <3>1. DiskOK'
        BY DEF IInv
      <3> QED  BY <2>1, <3>1 DEF DiskOK, ValidState, NextHop, PrefixOf, Planned
    <2> QED  BY <2>1, <2>2, NextIsNotDone
  <1>7. D = Releases(file'.done)
    BY <1>4, <1>5
  <1>8. Releases(deployed)' = D /\ Releases(file.done)' = D /\ NextHop(file)' = NextHop(file')
    BY <1>1, <1>7 DEF Releases, NextHop
  <1> HIDE DEF D
  <1> QED  BY <1>1, <1>5, <1>6, <1>7, <1>8 DEF Counted

LEMMA CountedSnapshot == ASSUME IInv, SnapshotDone PROVE Counted'
  <1>1. /\ deployed' = <<>> /\ file' = [run.st EXCEPT !.snap = "complete"] /\ faults' = faults
        /\ run.pc = "snapshot" /\ run.st.status = "running" /\ run.st.hop = NoRelease
        /\ run'.pc = "next" /\ run.st.snap = "running"
    BY DEF SnapshotDone, Save, IInv, StepOK, TypeOK
  <1>2. run.st.done = <<>> /\ run.st \in States /\ faults \in Nat
    BY <1>1, AtWork DEF ValidState
  <1>3. file'.done = <<>>
    BY <1>1, <1>2 DEF States
  <1>4. Releases(deployed)' = {} /\ Releases(file.done)' = {}
    BY <1>1, <1>3 DEF Releases
  <1>5. IsFiniteSet({}) /\ Cardinality({}) = 0 /\ Len(<<>>) = 0
    BY FS_EmptySet
  <1>6. Len(deployed)' = 0 /\ NextHop(file)' \notin Releases(deployed)'
    BY <1>1, <1>4, <1>5
  <1>7. /\ Releases(file.done)' \subseteq Releases(deployed)'
        /\ Releases(deployed)' \subseteq (Releases(file.done) \cup {NextHop(file)})'
        /\ IsFiniteSet(Releases(deployed)')
    BY <1>4, <1>5
  <1>8. Len(deployed)' <= Cardinality(Releases(deployed)') + faults'
    <2>1. Cardinality(Releases(deployed)') = 0
      BY <1>4, <1>5
    <2> QED  BY <1>1, <1>2, <1>6, <2>1
  <1>9. run'.pc # "deployed"
    BY <1>1
  <1> QED  BY <1>6, <1>7, <1>8, <1>9 DEF Counted

LEMMA CountedStep == IInv /\ Counted /\ [Next]_vars => Counted'
  <1> SUFFICES ASSUME IInv, IInv', Counted, [Next]_vars PROVE Counted'
    BY NextInv
  <1>0. /\ faults \in Nat /\ faults' \in Nat
        /\ run \in [pc : Places, plan : Plans \cup {NoFile}, st : States \cup {NoFile}]
    BY DEF IInv, TypeOK
  <1>1. CASE /\ file' = file /\ deployed' = deployed /\ faults' \in {faults, faults + 1}
             /\ run'.pc # "deployed" /\ (run.pc = "deployed" => faults' = faults + 1)
    BY <1>0, <1>1, CountedElsewhere DEF Underway
  <1>2. CASE UNCHANGED vars
    BY <1>0, <1>2, CountedElsewhere DEF Underway, vars
  <1>3. CASE /\ deployed' = deployed /\ faults' = faults /\ ~Underway'
             /\ run.pc # "deployed" /\ run'.pc # "deployed"
    BY <1>0, <1>3, CountedElsewhere
  <1>4. ASSUME NEW o \in Offers, Start(o) PROVE Counted'
    BY <1>0, <1>1, <1>4 DEF Start, history
  <1>5. CASE StartPath \/ ResumePath \/ RetryCommit \/ Refuse \/ Noop \/ SnapshotUnknown
    BY <1>0, <1>1, <1>5 DEF StartPath, ResumePath, RetryCommit, Begun, Refuse, Noop, SnapshotUnknown, history
  <1>6. CASE SnapshotFails \/ Release \/ Crash \/ RemoveLock
    <2>1. /\ file' = file /\ deployed' = deployed /\ faults' \in {faults, faults + 1}
          /\ run.pc = "deployed" => faults' = faults + 1 /\ run' = Off
      BY <1>0, <1>6 DEF SnapshotFails, Release, Crash, RemoveLock, Fault, history
    <2>2. run'.pc # "deployed"
      BY <1>0, <1>6 DEF SnapshotFails, Release, Crash, RemoveLock, Off
    <2> QED  BY <1>1, <2>1, <2>2
  <1>7. CASE BeginSnapshot
    <2>1. file'.snap = "running"
      BY <1>7, AtWork DEF BeginSnapshot, Save, States
    <2> QED  BY <1>0, <1>3, <1>7, <2>1 DEF BeginSnapshot, Save, Underway, history
  <1>8. CASE DiscardSnapshot
    BY <1>0, <1>3, <1>8 DEF DiscardSnapshot, Underway, history
  <1>9. CASE Finish
    <2>1. file'.status = "complete"
      BY <1>9, GoingOn, AtWork DEF Finish, Save, States
    <2>2. run.pc # "deployed" /\ run'.pc # "deployed" /\ deployed' = deployed /\ faults' = faults
      BY <1>0, <1>9 DEF Finish, CanGoOn, Save
    <2> QED  BY <1>3, <2>1, <2>2 DEF Underway
  <1>10. CASE BeginHop
    <2>1. /\ Underway /\ SamePath(file, run.st.plan) /\ file.done = run.st.done
          /\ run.pc \in {"ready", "next"} /\ run.st \in States
      BY <1>10, GoingOn, AtWork DEF BeginHop
    <2>2. /\ file' = [run.st EXCEPT !.status = "running", !.hop = NextHop(run.st), !.failed = NoRelease]
          /\ run'.pc = "hop" /\ deployed' = deployed /\ faults' = faults
      BY <1>0, <1>10 DEF BeginHop, Save
    <2>3. file'.done = file.done /\ file'.plan = run.st.plan
      BY <2>1, <2>2 DEF States
    <2>4. NextHop(file') = NextHop(file)
      BY <2>1, <2>3 DEF NextHop, SamePath
    <2> QED  BY <1>0, <2>1, <2>2, <2>3, <2>4, CountedElsewhere
  <1>11. CASE HopFails
    <2>1. file = run.st /\ Underway /\ run.st \in States /\ run.pc = "hop"
      BY <1>11, Hopping, AtWork DEF HopFails
    <2>2. /\ file' = [run.st EXCEPT !.status = "failed", !.failed = run.st.hop]
          /\ run'.pc = "ended" /\ deployed' = deployed /\ faults' = faults + 1
      BY <1>0, <1>11 DEF HopFails, Save, AfterFailure, Fault, history
    <2>3. file'.done = file.done /\ file'.plan = file.plan
      BY <2>1, <2>2 DEF States
    <2>4. NextHop(file') = NextHop(file)
      BY <2>3 DEF NextHop
    <2> QED  BY <1>0, <2>1, <2>2, <2>3, <2>4, CountedElsewhere
  <1> QED
    BY <1>2, <1>4, <1>5, <1>6, <1>7, <1>8, <1>9, <1>10, <1>11, CountedDeploy, CountedHopDone,
       CountedSnapshot DEF Next

\* "Executes a persisted release path exactly once": what the file calls done has
\* been deployed since the snapshot, nothing else but the first unfinished release
\* has, and a crash buys one repetition at most.
THEOREM ExactlyOnce == Spec => []DoneIsNotRedone
  <1>1. Init => Counted
    BY DEF Init, Counted, Underway
  <1>2. IInv /\ Counted => DoneIsNotRedone
    BY DEF Counted, DoneIsNotRedone
  <1> QED  BY <1>1, <1>2, CountedStep, Inductive, PTL DEF Spec
-----------------------------------------------------------------------------
(* The journey.                                                            *)

\* What is left of a path of which n releases are done.
LEMMA WhatIsLeft ==
    ASSUME NEW p \in Seq(Versions), NEW n \in Nat
    PROVE  /\ n < Len(p) => /\ SubSeq(p, n + 1, Len(p)) # <<>>
                            /\ Head(SubSeq(p, n + 1, Len(p))) = p[n + 1]
                            /\ Tail(SubSeq(p, n + 1, Len(p))) = SubSeq(p, (n + 1) + 1, Len(p))
           /\ n >= Len(p) => SubSeq(p, n + 1, Len(p)) = <<>>
           /\ SubSeq(p, 1, Len(p)) = p
  <1>0. Len(p) \in Nat
    BY LenProperties
  <1>1. CASE n < Len(p)
    <2>1. n + 1 \in 1..Len(p) /\ Len(p) \in (n + 1)..Len(p) /\ n + 1 \in Int /\ Len(p) \in Int
      BY <1>0, <1>1
    <2>2. /\ Head(SubSeq(p, n + 1, Len(p))) = p[n + 1]
          /\ Tail(SubSeq(p, n + 1, Len(p))) = SubSeq(p, (n + 1) + 1, Len(p))
      BY <2>1, HeadTailOfSubSeq
    <2>3. \A i \in (n + 1)..Len(p) : p[i] \in Versions
      BY <1>0, <2>1, ElementOfSeq
    <2>4. Len(SubSeq(p, n + 1, Len(p))) = Len(p) - (n + 1) + 1
      BY <2>1, <2>3, SubSeqProperties
    <2>5. Len(p) - (n + 1) + 1 # 0
      BY <1>0, <1>1
    <2>6. SubSeq(p, n + 1, Len(p)) # <<>>
      BY <2>4, <2>5, EmptySeq
    <2> QED  BY <1>1, <2>2, <2>6, SubSeqFull
  <1>2. CASE n >= Len(p)
    <2>1. Len(p) < n + 1 /\ n + 1 \in Int /\ Len(p) \in Int
      BY <1>0, <1>2
    <2> QED  BY <1>0, <1>2, <2>1, SubSeqEmpty, SubSeqFull
  <1> QED  BY <1>0, <1>1, <1>2

\* What the recovery file leaves to do, and where it leads back to.
Left == IF Underway THEN SubSeq(file.plan.path, Len(file.done) + 1, Len(file.plan.path)) ELSE <<>>
Home == IF Underway THEN snapshot.of ELSE marker

\* A step that leaves the recovery file alone, or what of it says how far the
\* path is, is not seen.
LEMMA NotSeen ==
    ASSUME marker' = marker, snapshot' = snapshot,
           \/ file' = file
           \/ ~Underway /\ ~Underway'
           \/ Underway /\ Underway' /\ SamePath(file, file'.plan) /\ file'.done = file.done
    PROVE  UNCHANGED Journey!jvars
  <1>1. CASE file' = file
    <2>1. Underway' = Underway
      BY <1>1 DEF Underway
    <2> QED  BY <1>1, <2>1 DEF Journey!jvars
  <1>2. CASE ~Underway /\ ~Underway'
    BY <1>2 DEF Journey!jvars
  <1>3. CASE Underway /\ Underway' /\ SamePath(file, file'.plan) /\ file'.done = file.done
    BY <1>3 DEF Journey!jvars, SamePath
  <1> QED  BY <1>1, <1>2, <1>3

\* A run under way, and how much of its path is left.
LEMMA OnTheWay ==
    ASSUME IInv, Underway
    PROVE  /\ file \in States /\ file.plan.path \in Seq(Versions) /\ file.done \in Seq(Versions)
           /\ Len(file.done) \in Nat /\ Len(file.plan.path) \in Nat
           /\ Len(file.done) <= Len(file.plan.path)
  BY LenProperties DEF IInv, TypeOK, DiskOK, ValidState, PrefixOf, Underway, States, Plans

LEMMA DeployMoves == ASSUME IInv, Deploy PROVE Journey!Move
  <1>1. /\ run.pc = "hop" /\ file = run.st /\ Underway
        /\ run.st.hop = NextHop(run.st) /\ run.st.hop # NoRelease
    BY DEF Deploy, IInv, StepOK, RollbackPoint
  <1>2. marker' = NextHop(file) /\ UNCHANGED <<file, snapshot>>
    BY <1>1 DEF Deploy
  <1>3. Underway' = Underway
    BY <1>2 DEF Underway
  <1>4. Len(file.done) < Len(file.plan.path) /\ NextHop(file) = file.plan.path[Len(file.done) + 1]
    BY <1>1, OnTheWay, HopFacts
  <1>5. Left # <<>> /\ Head(Left) = NextHop(file)
    BY <1>1, <1>4, OnTheWay, WhatIsLeft DEF Left
  <1>6. Left' = Left /\ Home' = Home
    BY <1>1, <1>2, <1>3 DEF Left, Home
  <1> QED  BY <1>2, <1>5, <1>6 DEF Journey!Move, Left, Home

LEMMA HopDoneTicksOff == ASSUME IInv, HopDone PROVE Journey!TickOff
  <1>1. /\ run.pc = "deployed" /\ file = run.st /\ Underway
        /\ run.st.hop = NextHop(run.st) /\ run.st.hop # NoRelease /\ marker = run.st.hop
        /\ run.st.snap = "complete" /\ run.st.status = "running"
    BY DEF HopDone, IInv, StepOK, RollbackPoint
  <1>2. file' = AfterHop(file) /\ UNCHANGED <<marker, snapshot>>
    BY <1>1 DEF HopDone, Save, history
  <1>3. /\ file'.plan = file.plan /\ file'.done = Append(file.done, file.hop)
        /\ file'.snap = "complete" /\ file'.status = "running"
    BY <1>1, <1>2, OnTheWay DEF AfterHop, States
  <1>4. file' # NoFile
    BY <1>1, <1>2, <1>3, OnTheWay, HopDoneInv, CoordinatorAssumption
       DEF IInv, StepOK, PlanOK, HopDone, Save, TypeOK
  <1>5. Underway'
    BY <1>3, <1>4 DEF Underway
  <1>6. Len(file.done) < Len(file.plan.path) /\ NextHop(file) = file.plan.path[Len(file.done) + 1]
    BY <1>1, OnTheWay, HopFacts
  <1>7. Len(file'.done) = Len(file.done) + 1
    BY <1>3, OnTheWay
  <1>8. Left # <<>> /\ Head(Left) = marker /\ Left' = Tail(Left) /\ Home' = Home
    <2> DEFINE p == file.plan.path
               n == Len(file.done)
    <2>1. p \in Seq(Versions) /\ n \in Nat /\ n < Len(p)
      BY <1>1, <1>6, OnTheWay
    <2>2. Left = SubSeq(p, n + 1, Len(p)) /\ Left' = SubSeq(p, (n + 1) + 1, Len(p)) /\ Home' = Home
      BY <1>1, <1>2, <1>3, <1>5, <1>7 DEF Left, Home
    <2>3. marker = p[n + 1]
      BY <1>1, <1>6
    <2> HIDE DEF p, n
    <2> QED  BY <2>1, <2>2, <2>3, WhatIsLeft
  <1> QED  BY <1>2, <1>8 DEF Journey!TickOff, Left, Home

LEMMA SnapshotDeparts == ASSUME IInv, SnapshotDone PROVE Journey!Depart
  <1>1. /\ run.pc = "snapshot" /\ file = run.st /\ run.st.snap = "running"
        /\ run.st.status = "running"
    BY DEF SnapshotDone, IInv, StepOK
  <1>2. /\ file' = [run.st EXCEPT !.snap = "complete"]
        /\ snapshot' = [of |-> marker, clean |-> ~begun] /\ marker' = marker
    BY DEF SnapshotDone, Save
  <1>3. /\ file'.plan = run.plan /\ file'.done = run.st.done /\ file'.snap = "complete"
        /\ file'.status = "running" /\ file' \in States
    BY <1>1, <1>2, AtWork DEF States
  <1>4. run.st.done = <<>>
    BY <1>1, AtWork DEF ValidState
  <1>5. ~Underway /\ Underway'
    BY <1>1, <1>3, CoordinatorAssumption DEF Underway
  <1>6. /\ run.plan.path = Path(run.plan.source, run.plan.target) /\ run.plan.path # NoPath
        /\ run.plan.target \in Versions /\ run.plan.path \in Seq(Versions)
    BY <1>1, AtWork DEF Planned, Plans
  <1>7. run.plan.source = marker
    BY <1>1 DEF IInv, AtSource
  <1>8. Left = <<>> /\ Home = marker /\ Left' = run.plan.path /\ Home' = marker
    <2>1. Len(file'.done) + 1 = 1
      BY <1>3, <1>4, EmptySeq
    <2>2. Left' = SubSeq(run.plan.path, 1, Len(run.plan.path))
      BY <1>3, <1>5, <2>1 DEF Left
    <2>3. Left' = run.plan.path
      BY <1>6, <2>2, SubSeqFull
    <2> QED  BY <1>2, <1>5, <2>3 DEF Left, Home
  <1> QED  BY <1>2, <1>6, <1>7, <1>8 DEF Journey!Depart, Left, Home

LEMMA FinishSettles == ASSUME IInv, Finish PROVE Journey!Settle
  <1>1. /\ run.pc \in {"ready", "next"} /\ Underway /\ NextHop(run.st) = NoRelease
        /\ SamePath(file, run.st.plan) /\ file.done = run.st.done
    BY GoingOn DEF Finish
  <1>2. file' = [run.st EXCEPT !.status = "complete", !.hop = NoRelease, !.failed = NoRelease]
        /\ UNCHANGED <<marker, snapshot>>
    BY DEF Finish, Save
  <1>3. file'.status = "complete"
    BY <1>1, <1>2, AtWork DEF States
  <1>4. ~Underway'
    BY <1>3 DEF Underway
  <1>5. ~ (Len(run.st.done) < Len(run.st.plan.path))
    BY <1>1, AtWork, HopFacts
  <1>6. Len(file.done) >= Len(file.plan.path)
    BY <1>1, <1>5, OnTheWay DEF SamePath
  <1>7. Left = <<>> /\ Left' = <<>> /\ Home' = marker
    BY <1>1, <1>2, <1>4, <1>6, OnTheWay, WhatIsLeft DEF Left, Home
  <1> QED  BY <1>2, <1>7 DEF Journey!Settle, Left, Home

LEMMA OtherSteps ==
    ASSUME IInv, [Next]_vars
    PROVE  \/ Deploy \/ HopDone \/ SnapshotDone \/ Finish
           \/ UNCHANGED Journey!jvars
  <1>1. CASE BeginHop
    <2>1. /\ run.pc \in {"ready", "next"} /\ SamePath(file, run.st.plan)
          /\ file.done = run.st.done /\ run.st.snap = "complete" /\ Underway
      BY <1>1, GoingOn DEF BeginHop
    <2>2. /\ file' = [run.st EXCEPT !.status = "running", !.hop = NextHop(run.st),
                                    !.failed = NoRelease]
          /\ UNCHANGED <<marker, snapshot>>
      BY <1>1 DEF BeginHop, Save
    <2>3. NextHop(run.st) \in Versions \cup {NoRelease}
      BY <2>1, AtWork, HopFacts
    <2>4. /\ file'.plan = run.st.plan /\ file'.done = run.st.done /\ file'.snap = "complete"
          /\ file'.status = "running" /\ file' \in States
      BY <2>1, <2>2, <2>3, AtWork DEF States
    <2>5. Underway'
      BY <2>4, CoordinatorAssumption DEF Underway
    <2> QED  BY <2>1, <2>2, <2>4, <2>5, NotSeen
  <1>2. CASE HopFails
    <2>1. run.pc = "hop" /\ file = run.st /\ run.st.snap = "complete" /\ run.st.hop \in Versions
      BY <1>2, Hopping DEF HopFails
    <2>2. Underway /\ file' = AfterFailure(run.st) /\ UNCHANGED <<marker, snapshot>>
      BY <1>2, <2>1 DEF HopFails, Save, IInv, RollbackPoint, history
    <2>3. /\ file'.plan = file.plan /\ file'.snap = "complete" /\ file'.done = file.done
          /\ file'.status = "failed" /\ file' \in States
      BY <2>1, <2>2, OnTheWay DEF AfterFailure, States
    <2>4. Underway' /\ SamePath(file, file'.plan)
      BY <2>3, CoordinatorAssumption DEF Underway, SamePath
    <2> QED  BY <2>2, <2>3, <2>4, NotSeen
  <1>3. CASE BeginSnapshot
    <2>1. run.pc = "ready" /\ run.st.snap = "none" /\ ~Underway
      BY <1>3 DEF BeginSnapshot, IInv, ReadyOK
    <2>2. /\ file' = [run.st EXCEPT !.snap = "running", !.status = "running"]
          /\ UNCHANGED <<marker, snapshot>>
      BY <1>3 DEF BeginSnapshot, Save, history
    <2>3. file'.snap = "running"
      BY <2>1, <2>2, AtWork DEF States
    <2>4. ~Underway'
      BY <2>3 DEF Underway
    <2> QED  BY <2>1, <2>2, <2>4, NotSeen
  <1>4. CASE DiscardSnapshot
    <2>1. ~Underway /\ ~Underway' /\ UNCHANGED <<marker, snapshot>>
      BY <1>4 DEF DiscardSnapshot, Underway, history
    <2> QED  BY <2>1, NotSeen
  <1>5. CASE UNCHANGED <<marker, file, snapshot>>
    BY <1>5, NotSeen
  <1>6. \/ Deploy \/ HopDone \/ SnapshotDone \/ Finish
        \/ BeginHop \/ HopFails \/ BeginSnapshot \/ DiscardSnapshot
        \/ UNCHANGED <<marker, file, snapshot>>
    BY DEF Next, vars, history, Start, StartPath, ResumePath, RetryCommit, Refuse, Noop,
           SnapshotUnknown, SnapshotFails, Release, Crash, RemoveLock
  <1> QED  BY <1>1, <1>2, <1>3, <1>4, <1>5, <1>6

\* For any releases, planner, offers and number of faults: the coordinator,
\* however its runs crash, fail and are retried, moves an installation as
\* UpdateJourney says, along the planned path, ticking off what is deployed,
\* with the way back kept until the path is complete.
THEOREM ImplementsJourney == Spec => JourneySpec
  <1>1. Init => Journey!Init
    <2> SUFFICES ASSUME Init PROVE Journey!Init
      OBVIOUS
    <2>1. ~Underway /\ marker = FirstVersion
      BY DEF Init, Underway
    <2> QED  BY <2>1 DEF Journey!Init
  <1>2. IInv /\ [Next]_vars => [Journey!Next]_Journey!jvars
    <2> SUFFICES ASSUME IInv, [Next]_vars PROVE Journey!Next \/ UNCHANGED Journey!jvars
      OBVIOUS
    <2> QED  BY OtherSteps, DeployMoves, HopDoneTicksOff, SnapshotDeparts, FinishSettles
                DEF Journey!Next
  <1> QED  BY <1>1, <1>2, Inductive, PTL DEF Spec, JourneySpec, Journey!Spec
=============================================================================
