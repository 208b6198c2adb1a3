------------------------ MODULE DocumentIngestProofs ------------------------
(***************************************************************************)
(* Proofs about DocumentIngest, for any uploads, texts, deletions, slots,  *)
(* tries and faults: the types; that no original is lost; and, for every   *)
(* document whose jobs have been at work one after the other, that its     *)
(* embedded chunks have their points, that a clean-up leaves no orphan,    *)
(* and that the version counts the texts.                                  *)
(***************************************************************************)
EXTENDS DocumentIngest, TLAPS

-----------------------------------------------------------------------------
(* Types.                                                                  *)

\* A job that is queued, being queued or found by the reconciler has its row.
JobsHaveRows ==
    \A u \in Uploads :
        bull[u].st # "none" \/ api[u].pc \in {"enqueue", "stamp"} \/ u \in lost => ing[u] # NoJob
\* A worker works on what BullMQ calls active, which has tries left.
OnlyActive ==
    \A u \in Uploads : /\ work[u].pc # "idle" => bull[u].st = "active"
                       /\ bull[u].st \in {"none", "waiting", "active"} => bull[u].tries < MaxTries
                       /\ bull[u].st \in {"none", "waiting", "active"} => bull[u].stalls \in {0, 1}
\* What a job carries from step to step.
Laden(w) ==
    /\ w.pc \in {"scan", "chunk", "embed", "mark", "clean", "finalize"} => w.text \in Texts
    /\ w.pc \in {"embed", "mark", "clean", "finalize"} => w.row \in Nat \ {0}
    /\ w.swept => w.pc \in {"finalize", "complete"}
Carries == \A u \in Uploads : Laden(work[u])

TInv == TypeOK /\ JobsHaveRows /\ OnlyActive /\ Carries

LEMMA TInvInit == Init => TInv
BY IngestAssumption DEF Init, TInv, TypeOK, JobsHaveRows, OnlyActive, Carries, Laden, Resting, Docs,
   BullState, ApiState, WorkState, DelState

USE DEF Docs

LEMMA QueuedTypes ==
    ASSUME TypeOK, NEW u \in Uploads
    PROVE  /\ Queued(u) \in [Uploads -> BullState]
           /\ \A v \in Uploads :
                /\ Queued(u)[v].tries = bull[v].tries /\ Queued(u)[v].stalls = bull[v].stalls
                /\ \/ Queued(u)[v].st = bull[v].st
                   \/ v = u /\ bull[v].st = "none" /\ Queued(u)[v].st = "waiting"
<1>1. bull \in [Uploads -> BullState]
  BY DEF TypeOK
<1>2. bull[u] \in BullState
  BY <1>1
<1>3. PICK b \in BullState :
        /\ Queued(u) = [bull EXCEPT ![u] = b]
        /\ b.tries = bull[u].tries /\ b.stalls = bull[u].stalls
        /\ (b.st = bull[u].st \/ (bull[u].st = "none" /\ b.st = "waiting"))
  <2>1. CASE bull[u].st = "none"
    <3>1. [bull[u] EXCEPT !.st = "waiting"] \in BullState
      BY <1>2 DEF BullState
    <3>2. Queued(u) = [bull EXCEPT ![u] = [bull[u] EXCEPT !.st = "waiting"]]
      BY <1>1, <2>1 DEF Queued
    <3> QED
      BY <1>2, <2>1, <3>1, <3>2 DEF BullState
  <2>2. CASE bull[u].st # "none"
    <3>1. Queued(u) = bull /\ bull = [bull EXCEPT ![u] = bull[u]]
      BY <1>1, <1>2, <2>2 DEF Queued, BullState
    <3> QED
      BY <1>2, <3>1
  <2> QED
    BY <2>1, <2>2
<1>4. Queued(u) \in [Uploads -> BullState]
  BY <1>1, <1>3
<1>5. Queued(u)[u] = b /\ \A v \in Uploads \ {u} : Queued(u)[v] = bull[v]
  BY <1>1, <1>3
<1>6. ASSUME NEW v \in Uploads
      PROVE  /\ Queued(u)[v].tries = bull[v].tries /\ Queued(u)[v].stalls = bull[v].stalls
             /\ \/ Queued(u)[v].st = bull[v].st
                \/ v = u /\ bull[v].st = "none" /\ Queued(u)[v].st = "waiting"
  <2>1. CASE v = u
    BY <1>3, <1>5, <2>1
  <2>2. CASE v # u
    BY <1>5, <2>2
  <2> QED
    BY <2>1, <2>2
<1> QED
  BY <1>4, <1>6

LEMMA StatusTypes ==
    ASSUME TypeOK, NEW u \in Uploads, ing[u] # NoJob,
           NEW s \in {"queued", "processing", "completed", "failed"}, Status(u, s)
    PROVE  /\ ing' \in [Uploads -> IngestJob \cup {NoJob}]
           /\ \A v \in Uploads : ing[v] # NoJob => ing'[v] # NoJob /\ ing'[v].doc = ing[v].doc
           /\ \A v \in Uploads : ing[v] = NoJob => ing'[v] = NoJob
<1>1. ing[u] \in IngestJob /\ ing \in [Uploads -> IngestJob \cup {NoJob}]
  BY DEF TypeOK
<1>2. [ing[u] EXCEPT !.status = s] \in IngestJob /\ [ing[u] EXCEPT !.status = s].doc = ing[u].doc
  BY <1>1 DEF IngestJob
<1>3. ing' = [ing EXCEPT ![u] = [ing[u] EXCEPT !.status = s]]
  BY <1>1 DEF Status
<1> QED
  BY <1>1, <1>2, <1>3, IngestAssumption

LEMMA ApiToTypes ==
    ASSUME TypeOK, NEW u \in Uploads,
           ApiTo(u, "rows") \/ ApiTo(u, "enqueue") \/ ApiTo(u, "stamp") \/ ApiTo(u, "end")
    PROVE  /\ api' \in [Uploads -> ApiState]
           /\ \A v \in Uploads \ {u} : api'[v] = api[v]
           /\ api'[u].doc = api[u].doc
           /\ \A pc \in {"rows", "enqueue", "stamp", "end"} : ApiTo(u, pc) => api'[u].pc = pc
<1>1. api \in [Uploads -> ApiState] /\ api[u] \in ApiState
  BY DEF TypeOK
<1>2. PICK pc \in {"rows", "enqueue", "stamp", "end"} : ApiTo(u, pc)
  OBVIOUS
<1>3. \A p \in {"rows", "enqueue", "stamp", "end"} : [api[u] EXCEPT !.pc = p] \in ApiState
             /\ [api[u] EXCEPT !.pc = p].doc = api[u].doc /\ [api[u] EXCEPT !.pc = p].pc = p
  BY <1>1 DEF ApiState
<1>4. \A p \in {"rows", "enqueue", "stamp", "end"} :
         ApiTo(u, p) => api' = [api EXCEPT ![u] = [api[u] EXCEPT !.pc = p]]
  BY <1>1 DEF ApiTo
<1>5. \A p \in {"rows", "enqueue", "stamp", "end"} : ApiTo(u, p) => api'[u].pc = p
  BY <1>1, <1>3, <1>4
<1> QED
  BY <1>1, <1>2, <1>3, <1>4, <1>5

LEMMA FaultType == ASSUME TypeOK, Fault PROVE faults' \in 0..MaxFaults
BY IngestAssumption DEF TypeOK, Fault

\* What a step of a request leaves of the invariant.
LEMMA RequestTypes ==
    ASSUME TInv, NEW u \in Uploads, api' \in [Uploads -> ApiState],
           \A v \in Uploads \ {u} : api'[v] = api[v],
           api'[u].pc \in {"enqueue", "stamp"} => ing'[u] # NoJob,
           ing' \in [Uploads -> IngestJob \cup {NoJob}],
           \A v \in Uploads : ing[v] # NoJob => ing'[v] # NoJob,
           doc' \in [Docs -> Document \cup {NoDoc}], blob' \in [Docs -> Texts \cup {NoText}],
           UNCHANGED bull \/ (bull' = Queued(u) /\ ing[u] # NoJob),
           faults' \in 0..MaxFaults, UNCHANGED <<chunks, rows, points, work, del, lost, together>>
    PROVE  TInv'
<1>1. /\ bull' \in [Uploads -> BullState]
      /\ \A v \in Uploads :
           /\ bull'[v].tries = bull[v].tries /\ bull'[v].stalls = bull[v].stalls
           /\ \/ bull'[v].st = bull[v].st
              \/ v = u /\ bull[v].st = "none" /\ bull'[v].st = "waiting" /\ ing[u] # NoJob
  BY QueuedTypes DEF TInv, TypeOK
<1>2. TypeOK'
  BY <1>1 DEF TInv, TypeOK
<1>3. JobsHaveRows'
  BY <1>1 DEF TInv, JobsHaveRows
<1>4. OnlyActive' /\ Carries'
  BY <1>1 DEF TInv, OnlyActive, Carries
<1> QED
  BY <1>2, <1>3, <1>4 DEF TInv

LEMMA UploadTypes == ASSUME TInv, NEW u \in Uploads, Upload(u) PROVE TInv'
<1>0. /\ TypeOK /\ api \in [Uploads -> ApiState] /\ api[u] \in ApiState
      /\ ing \in [Uploads -> IngestJob \cup {NoJob}] /\ doc \in [Docs -> Document \cup {NoDoc}]
      /\ blob \in [Docs -> Texts \cup {NoText}] /\ faults \in 0..MaxFaults
      /\ ApiAt(u, "enqueue") \/ ApiAt(u, "stamp") => ing[u] # NoJob
  BY DEF TInv, TypeOK, JobsHaveRows, ApiAt
<1>1. CASE Find(u)
  <2>1. PICK d \in Docs : api' = [api EXCEPT ![u] = [pc |-> "put", doc |-> d]]
    BY <1>1 DEF Find, Existing
  <2>2. [pc |-> "put", doc |-> d] \in ApiState
    BY DEF ApiState
  <2>3. /\ api' \in [Uploads -> ApiState] /\ \A v \in Uploads \ {u} : api'[v] = api[v]
        /\ api'[u].pc \notin {"enqueue", "stamp"}
    BY <1>0, <2>1, <2>2
  <2> QED
    BY <1>0, <1>1, <2>3, RequestTypes DEF Find, store
<1>2. CASE Put(u)
  <2>1. PICK t \in Texts : blob' = [blob EXCEPT ![api[u].doc] = t] /\ ApiTo(u, "rows")
    BY <1>2, IngestAssumption DEF Put
  <2> QED
    BY <1>0, <1>2, <2>1, ApiToTypes, RequestTypes DEF Put, store
<1>3. CASE CommitFirst(u) \/ CommitAgain(u)
  <2>1. [doc |-> api[u].doc, status |-> "queued"] \in IngestJob /\ [hash |-> NoText, ver |-> 1] \in Document
    BY <1>0 DEF ApiState, IngestJob, Document
  <2>2. NewJob(u) /\ ApiTo(u, "enqueue")
    BY <1>3 DEF CommitFirst, CommitAgain
  <2>3. /\ ing' \in [Uploads -> IngestJob \cup {NoJob}] /\ ing'[u] # NoJob
        /\ \A v \in Uploads : ing[v] # NoJob => ing'[v] # NoJob
    BY <1>0, <2>1, <2>2, IngestAssumption DEF NewJob
  <2>4. doc' \in [Docs -> Document \cup {NoDoc}]
    BY <1>0, <1>3, <2>1 DEF CommitFirst, CommitAgain
  <2> QED
    BY <1>0, <1>3, <2>2, <2>3, <2>4, ApiToTypes, RequestTypes DEF CommitFirst, CommitAgain
<1>4. CASE Conflict(u) \/ CommitGone(u)
  <2>1. blob' \in [Docs -> Texts \cup {NoText}] /\ ApiTo(u, "end")
    BY <1>0, <1>4 DEF Conflict, CommitGone
  <2> QED
    BY <1>0, <1>4, <2>1, ApiToTypes, RequestTypes DEF Conflict, CommitGone, store
<1>5. CASE Enqueue(u)
  BY <1>0, <1>5, ApiToTypes, RequestTypes DEF Enqueue, store
<1>6. CASE EnqueueFails(u)
  <2>1. ApiTo(u, "stamp") /\ ing[u] # NoJob /\ bull' \in {bull, Queued(u)} /\ faults' \in 0..MaxFaults
    BY <1>0, <1>6, FaultType DEF EnqueueFails
  <2> QED
    BY <1>0, <1>6, <2>1, ApiToTypes, RequestTypes DEF EnqueueFails, store
<1>7. CASE StampUnqueued(u)
  <2>1. ApiTo(u, "end") /\ ing[u] # NoJob /\ Status(u, "failed")
    BY <1>0, <1>7 DEF StampUnqueued, Status
  <2>2. /\ ing' \in [Uploads -> IngestJob \cup {NoJob}]
        /\ \A v \in Uploads : ing[v] # NoJob => ing'[v] # NoJob
    BY <1>0, <2>1, StatusTypes
  <2> QED
    BY <1>0, <1>7, <2>1, <2>2, ApiToTypes, RequestTypes DEF StampUnqueued
<1>8. CASE ApiCrash(u)
  <2>1. ApiTo(u, "end") /\ faults' \in 0..MaxFaults
    BY <1>0, <1>8, FaultType DEF ApiCrash
  <2> QED
    BY <1>0, <1>8, <2>1, ApiToTypes, RequestTypes DEF ApiCrash, store
<1> QED
  BY <1>1, <1>2, <1>3, <1>4, <1>5, <1>6, <1>7, <1>8 DEF Upload

-----------------------------------------------------------------------------
PCs == {"idle", "source", "fetch", "scan", "blocked", "chunk", "embed",
        "mark", "clean", "finalize", "complete"}

LEMMA ToTypes ==
    ASSUME TypeOK, NEW u \in Uploads, NEW pc \in PCs, To(u, pc)
    PROVE  /\ work' \in [Uploads -> WorkState]
           /\ \A v \in Uploads \ {u} : work'[v] = work[v]
           /\ work'[u].pc = pc /\ work'[u].text = work[u].text /\ work'[u].row = work[u].row
           /\ work'[u].swept = work[u].swept /\ work'[u].ver = work[u].ver
           /\ work'[u].action = work[u].action
<1>1. work \in [Uploads -> WorkState] /\ work[u] \in WorkState
  BY DEF TypeOK
<1> DEFINE w == [work[u] EXCEPT !.pc = pc]
<1>2. /\ w \in WorkState /\ w.pc = pc /\ w.text = work[u].text /\ w.row = work[u].row
      /\ w.swept = work[u].swept /\ w.ver = work[u].ver /\ w.action = work[u].action
  BY <1>1 DEF WorkState, PCs
<1>3. work' = [work EXCEPT ![u] = w]
  BY <1>1 DEF To
<1> QED
  BY <1>1, <1>2, <1>3

LEMMA RestingTypes == Resting \in WorkState /\ Resting.pc = "idle" /\ Laden(Resting)
BY DEF Laden, Resting, WorkState

LEMMA ThrowTypes ==
    ASSUME TypeOK, OnlyActive, NEW u \in Uploads, bull[u].st = "active", Throw(u)
    PROVE  /\ bull' \in [Uploads -> BullState] /\ work' \in [Uploads -> WorkState]
           /\ \A v \in Uploads \ {u} : bull'[v] = bull[v] /\ work'[v] = work[v]
           /\ work'[u] = Resting /\ bull'[u].st \in {"waiting", "failed"}
           /\ bull'[u].stalls = bull[u].stalls
           /\ bull'[u].st = "waiting" => bull'[u].tries < MaxTries
<1>1. /\ bull \in [Uploads -> BullState] /\ bull[u] \in BullState
      /\ work \in [Uploads -> WorkState] /\ bull[u].tries < MaxTries
  BY DEF TypeOK, OnlyActive
<1>2. PICK st \in {"waiting", "failed"} :
        /\ st = IF Again(u) THEN "waiting" ELSE "failed"
        /\ st = "waiting" => bull[u].tries + 1 < MaxTries
  BY DEF Again
<1> DEFINE b == [bull[u] EXCEPT !.tries = bull[u].tries + 1, !.st = st]
<1>3. bull[u].tries + 1 \in 0..MaxTries
  BY <1>1, IngestAssumption DEF BullState
<1>4. /\ b \in BullState /\ b.st = st /\ b.stalls = bull[u].stalls
      /\ b.tries = bull[u].tries + 1
  BY <1>1, <1>3 DEF BullState
<1>5. bull' = [bull EXCEPT ![u] = b] /\ work' = [work EXCEPT ![u] = Resting]
  BY <1>1, <1>2 DEF Throw
<1> QED
  BY <1>1, <1>2, <1>4, <1>5, RestingTypes

LEMMA ReturnTypes ==
    ASSUME TypeOK, NEW u \in Uploads, Return(u)
    PROVE  /\ bull' \in [Uploads -> BullState] /\ work' \in [Uploads -> WorkState]
           /\ \A v \in Uploads \ {u} : bull'[v] = bull[v] /\ work'[v] = work[v]
           /\ work'[u] = Resting /\ bull'[u].st = "done"
<1>1. /\ bull \in [Uploads -> BullState] /\ bull[u] \in BullState
      /\ work \in [Uploads -> WorkState]
  BY DEF TypeOK
<1> DEFINE b == [bull[u] EXCEPT !.st = "done"]
<1>2. b \in BullState /\ b.st = "done"
  BY <1>1 DEF BullState
<1>3. bull' = [bull EXCEPT ![u] = b] /\ work' = [work EXCEPT ![u] = Resting]
  BY <1>1 DEF Return
<1> QED
  BY <1>1, <1>2, <1>3, RestingTypes

LEMMA StallTypes ==
    ASSUME TypeOK, OnlyActive, NEW u \in Uploads, Stall(u)
    PROVE  /\ bull' \in [Uploads -> BullState] /\ work' \in [Uploads -> WorkState]
           /\ \A v \in Uploads \ {u} : bull'[v] = bull[v] /\ work'[v] = work[v]
           /\ work'[u] = Resting /\ bull'[u].st \in {"waiting", "failed"}
           /\ bull'[u].tries = bull[u].tries
           /\ bull'[u].st = "waiting" => bull'[u].stalls \in {0, 1}
<1>1. /\ bull \in [Uploads -> BullState] /\ bull[u] \in BullState /\ bull[u].st = "active"
      /\ work \in [Uploads -> WorkState] /\ bull[u].stalls \in {0, 1}
  BY DEF TypeOK, OnlyActive, Stall, Active
<1>2. PICK st \in {"waiting", "failed"} :
        st = IF bull[u].st = "active" /\ bull[u].stalls = 0 THEN "waiting" ELSE "failed"
  OBVIOUS
<1> DEFINE b == [bull[u] EXCEPT !.stalls = bull[u].stalls + 1, !.st = st]
<1>3. bull[u].stalls + 1 \in 0..2
  BY <1>1
<1>4. /\ b \in BullState /\ b.st = st /\ b.tries = bull[u].tries
      /\ b.stalls = bull[u].stalls + 1
  BY <1>1, <1>3 DEF BullState
<1>5. bull' = [bull EXCEPT ![u] = b] /\ work' = [work EXCEPT ![u] = Resting]
  BY <1>1, <1>2 DEF Stall
<1> QED
  BY <1>1, <1>2, <1>4, <1>5, RestingTypes

LEMMA MovedTypes ==
    ASSUME TInv, NEW u \in Uploads, bull[u].st = "active",
           work' \in [Uploads -> WorkState], \A v \in Uploads \ {u} : work'[v] = work[v],
           Laden(work'[u]), UNCHANGED <<bull, api, lost, together>>,
           \A v \in Uploads : ing[v] # NoJob => ing'[v] # NoJob
    PROVE  JobsHaveRows' /\ OnlyActive' /\ Carries'
BY DEF TInv, JobsHaveRows, OnlyActive, Carries

LEMMA EndedTypes ==
    ASSUME TInv, NEW u \in Uploads, bull[u].st = "active", Throw(u) \/ Return(u) \/ Stall(u),
           UNCHANGED <<doc, chunks, rows, blob, points, api, del, lost, together>>, faults' \in 0..MaxFaults,
           \/ UNCHANGED ing
           \/ \E s \in {"queued", "processing", "completed", "failed"} : Status(u, s)
    PROVE  TInv'
<1> USE DEF TInv
<1>1. /\ bull' \in [Uploads -> BullState] /\ work' \in [Uploads -> WorkState]
      /\ \A v \in Uploads \ {u} : bull'[v] = bull[v] /\ work'[v] = work[v]
      /\ work'[u] = Resting /\ bull'[u].st \in {"waiting", "failed", "done"}
      /\ bull'[u].st = "waiting" => bull'[u].tries < MaxTries /\ bull'[u].stalls \in {0, 1}
  <2>1. bull[u].tries < MaxTries /\ bull[u].stalls \in {0, 1}
    BY DEF OnlyActive
  <2>2. CASE Throw(u)
    BY <2>1, <2>2, ThrowTypes
  <2>3. CASE Return(u)
    BY <2>3, ReturnTypes
  <2>4. CASE Stall(u)
    BY <2>1, <2>4, StallTypes
  <2> QED
    BY <2>2, <2>3, <2>4
<1>2. /\ ing' \in [Uploads -> IngestJob \cup {NoJob}]
      /\ \A v \in Uploads : ing[v] # NoJob => ing'[v] # NoJob
  <2>1. ing[u] # NoJob
    BY DEF JobsHaveRows
  <2> QED
    BY <2>1, StatusTypes DEF TypeOK
<1>3. TypeOK'
  BY <1>1, <1>2 DEF TypeOK
<1>4. JobsHaveRows'
  BY <1>1, <1>2 DEF JobsHaveRows
<1>5. OnlyActive'
  BY <1>1, RestingTypes DEF OnlyActive
<1>6. Carries'
  BY <1>1, RestingTypes DEF Carries
<1> QED
  BY <1>3, <1>4, <1>5, <1>6

LEMMA PipelineTypes == ASSUME TInv, NEW u \in Uploads, Pipeline(u) PROVE TInv'
<1>0. /\ work[u] \in WorkState /\ bull[u] \in BullState /\ Laden(work[u])
      /\ work[u].pc # "idle" => bull[u].st = "active" /\ ing[u] # NoJob
      /\ bull[u].st # "none" => ing[u] \in IngestJob /\ Of(u) \in Docs
  BY DEF TInv, TypeOK, JobsHaveRows, OnlyActive, Carries, IngestJob, Of
<1>e. ASSUME Refuse(u), work[u].pc # "idle" PROVE TInv'
  BY <1>0, <1>e, EndedTypes DEF Refuse, TInv, TypeOK
\* A step that goes on to pc and leaves the jobs alone.
<1>m. ASSUME NEW pc \in PCs, work[u].pc # "idle", To(u, pc), UNCHANGED <<bull, api, lost, together>>,
             \A v \in Uploads : ing[v] # NoJob => ing'[v] # NoJob,
             pc \in {"embed", "mark", "clean", "finalize"} => work[u].row \in Nat \ {0},
             pc \in {"scan", "chunk", "embed", "mark", "clean", "finalize"} => work[u].text \in Texts,
             work[u].swept => pc \in {"finalize", "complete"}
      PROVE  work' \in [Uploads -> WorkState] /\ JobsHaveRows' /\ OnlyActive' /\ Carries'
  <2>1. /\ work' \in [Uploads -> WorkState] /\ \A v \in Uploads \ {u} : work'[v] = work[v]
        /\ work'[u].pc = pc /\ work'[u].text = work[u].text /\ work'[u].row = work[u].row
        /\ work'[u].swept = work[u].swept
    BY <1>m, ToTypes DEF TInv
  <2>2. Laden(work'[u])
    BY <1>m, <2>1 DEF Laden
  <2> QED
    BY <1>0, <1>m, <2>1, <2>2, MovedTypes
<1>1. CASE Start(u)
  <2>1. bull[u].st = "waiting" /\ work[u].pc = "idle" /\ ~work[u].swept
    BY <1>0, <1>1 DEF Start, Laden
  <2>2. bull' = [bull EXCEPT ![u] = [bull[u] EXCEPT !.st = "active"]]
    BY <1>1 DEF Start, TInv, TypeOK
  <2>3. /\ [bull[u] EXCEPT !.st = "active"] \in BullState
        /\ [bull[u] EXCEPT !.st = "active"].tries = bull[u].tries
        /\ [bull[u] EXCEPT !.st = "active"].stalls = bull[u].stalls
        /\ [bull[u] EXCEPT !.st = "active"].st = "active"
    BY <1>0 DEF BullState
  <2>4. /\ bull' \in [Uploads -> BullState] /\ bull'[u].st = "active"
        /\ bull'[u].tries = bull[u].tries /\ bull'[u].stalls = bull[u].stalls
        /\ \A v \in Uploads \ {u} : bull'[v] = bull[v]
    BY <2>2, <2>3 DEF TInv, TypeOK
  <2>5. To(u, "source") /\ UNCHANGED <<store, blob, points, api, del, lost, faults>>
        /\ together' = together \cup {Of(v) : v \in {w \in Active : Of(w) = Of(u)}}
    BY <1>1 DEF Start
  <2>6. /\ work' \in [Uploads -> WorkState] /\ \A v \in Uploads \ {u} : work'[v] = work[v]
        /\ work'[u].pc = "source" /\ work'[u].swept = work[u].swept
    BY <2>5, ToTypes DEF TInv, PCs
  <2>t. together' \subseteq Docs
    <3>1. together \subseteq Docs /\ Of(u) \in Docs
      BY <1>0, <2>1 DEF TInv, TypeOK
    <3> QED
      BY <2>5, <3>1
  <2>7. TypeOK'
    BY <2>4, <2>5, <2>6, <2>t DEF TInv, TypeOK, store
  <2>8. JobsHaveRows'
    BY <1>0, <2>1, <2>4, <2>5 DEF TInv, JobsHaveRows, store
  <2>9. OnlyActive'
    BY <2>1, <2>4, <2>6 DEF TInv, OnlyActive
  <2>10. Carries'
    <3>1. Laden(work'[u])
      BY <2>1, <2>6 DEF Laden
    <3> QED
      BY <2>6, <3>1 DEF TInv, Carries
  <2> QED
    BY <2>7, <2>8, <2>9, <2>10 DEF TInv
<1>2. CASE CheckSource(u)
  <2>1. work[u].pc # "idle" /\ ~work[u].swept
    BY <1>0, <1>2 DEF CheckSource, At, Laden
  <2>2. CASE Status(u, "processing") /\ To(u, "fetch")
             /\ UNCHANGED <<doc, chunks, rows, blob, points, bull, api, del, lost, together, faults>>
    <3>1. /\ ing' \in [Uploads -> IngestJob \cup {NoJob}]
          /\ \A v \in Uploads : ing[v] # NoJob => ing'[v] # NoJob
      BY <1>0, <2>1, <2>2, StatusTypes DEF TInv
    <3>2. work' \in [Uploads -> WorkState] /\ JobsHaveRows' /\ OnlyActive' /\ Carries'
      BY <1>m, <2>1, <2>2, <3>1 DEF PCs
    <3>3. TypeOK'
      BY <2>2, <3>1, <3>2 DEF TInv, TypeOK
    <3> QED
      BY <3>2, <3>3 DEF TInv
  <2> QED
    BY <1>2, <1>e, <2>1, <2>2 DEF CheckSource
<1>3. CASE Fetch(u)
  <2>1. At(u, "fetch") /\ work[u].pc # "idle" /\ ~work[u].swept
    BY <1>0, <1>3 DEF Fetch, At, Laden
  <2>2. CASE /\ blob[Of(u)] # NoText
             /\ work' = [work EXCEPT ![u].pc = "scan", ![u].text = blob[Of(u)]]
             /\ UNCHANGED <<store, blob, points, bull, api, del, lost, together, faults>>
    <3>1. blob[Of(u)] \in Texts
      BY <1>0, <2>1, <2>2 DEF TInv, TypeOK
    <3> DEFINE w == [work[u] EXCEPT !.pc = "scan", !.text = blob[Of(u)]]
    <3>2. w \in WorkState /\ Laden(w)
      BY <1>0, <2>1, <3>1 DEF WorkState, Laden
    <3>3. work' = [work EXCEPT ![u] = w] /\ work \in [Uploads -> WorkState]
      BY <2>2 DEF TInv, TypeOK
    <3>4. /\ work' \in [Uploads -> WorkState] /\ \A v \in Uploads \ {u} : work'[v] = work[v]
          /\ Laden(work'[u])
      BY <3>2, <3>3
    <3>5. JobsHaveRows' /\ OnlyActive' /\ Carries'
      BY <1>0, <2>1, <2>2, <3>4, MovedTypes DEF store
    <3>6. TypeOK'
      BY <2>2, <3>4 DEF TInv, TypeOK, store
    <3> QED
      BY <3>5, <3>6 DEF TInv
  <2> QED
    BY <1>3, <1>e, <2>1, <2>2 DEF Fetch
<1>4. CASE Purge(u)
  <2>1. /\ work[u].pc = "scan" /\ To(u, "blocked") /\ UNCHANGED <<store, points, bull, api, del, lost, together>>
        /\ blob' \in [Docs -> Texts \cup {NoText}] /\ faults' \in 0..MaxFaults /\ ~work[u].swept
    <3>1. work[u].pc = "scan" /\ To(u, "blocked") /\ UNCHANGED <<store, points, bull, api, del, lost, together>>
      BY <1>4 DEF Purge, At
    <3>2. \/ blob' = [blob EXCEPT ![Of(u)] = NoText]
          \/ UNCHANGED blob
      BY <1>4 DEF Purge
    <3>3. faults' \in 0..MaxFaults
      BY <1>4, FaultType DEF Purge, TInv, TypeOK
    <3> QED
      BY <1>0, <3>1, <3>2, <3>3 DEF TInv, TypeOK, Laden
  <2>2. work' \in [Uploads -> WorkState] /\ JobsHaveRows' /\ OnlyActive' /\ Carries'
    BY <1>m, <2>1 DEF PCs, store
  <2>3. TypeOK'
    BY <2>1, <2>2 DEF TInv, TypeOK, store
  <2> QED
    BY <2>2, <2>3 DEF TInv
<1>5. CASE EndBlocked(u)
  <2>1. work[u].pc # "idle"
    BY <1>5 DEF EndBlocked, At
  <2> QED
    BY <1>0, <1>5, <2>1, EndedTypes DEF EndBlocked, TInv, TypeOK
<1>6. CASE Decide(u)
  <2>1. /\ work[u].pc = "scan" /\ work[u].text \in Texts /\ ~work[u].swept
        /\ work[u].pc # "idle" /\ UNCHANGED <<store, blob, points, bull, api, del, lost, together, faults>>
    BY <1>0, <1>6 DEF Decide, At, Laden
  <2> DEFINE prior == IF Gone(u) THEN [hash |-> NoText, ver |-> 1] ELSE doc[Of(u)]
  <2>2. prior.ver \in Nat \ {0}
    BY <1>0, <2>1 DEF Gone, TInv, TypeOK, Document
  <2>3. PICK act \in {"first", "unchanged", "changed"} : act = Action(prior, work[u].text)
    BY DEF Action
  <2>4. PICK pc \in {"complete", "chunk"} : pc = IF act = "unchanged" THEN "complete" ELSE "chunk"
    OBVIOUS
  <2>5. work' = [work EXCEPT ![u].pc = pc, ![u].action = act, ![u].ver = prior.ver]
    BY <1>6, <2>3, <2>4 DEF Decide
  <2> HIDE DEF prior
  <2> DEFINE w == [work[u] EXCEPT !.pc = pc, !.action = act, !.ver = prior.ver]
  <2>6. w \in WorkState /\ Laden(w)
    BY <1>0, <2>1, <2>2 DEF WorkState, Laden
  <2>7. work' = [work EXCEPT ![u] = w] /\ work \in [Uploads -> WorkState]
    BY <2>5 DEF TInv, TypeOK
  <2>8. /\ work' \in [Uploads -> WorkState] /\ \A v \in Uploads \ {u} : work'[v] = work[v]
        /\ Laden(work'[u])
    BY <2>6, <2>7
  <2>9. JobsHaveRows' /\ OnlyActive' /\ Carries'
    BY <1>0, <2>1, <2>8, MovedTypes DEF store
  <2>10. TypeOK'
    BY <2>1, <2>8 DEF TInv, TypeOK, store
  <2> QED
    BY <2>9, <2>10 DEF TInv
<1>7. CASE PersistChunks(u)
  <2>1. /\ work[u].pc = "chunk" /\ work[u].text \in Texts /\ ~work[u].swept /\ work[u].pc # "idle"
    BY <1>0, <1>7 DEF PersistChunks, At, Laden
  <2>2. CASE /\ rows' = rows + 1
             /\ chunks' = [chunks EXCEPT ![Of(u)] =
                             [row |-> rows + 1, text |-> work[u].text, embedded |-> FALSE]]
             /\ work' = [work EXCEPT ![u].pc = "embed", ![u].row = rows + 1]
             /\ UNCHANGED <<doc, ing, blob, points, bull, api, del, lost, together, faults>>
    <3>1. rows + 1 \in Nat \ {0} /\ rows + 1 \in Nat
      BY DEF TInv, TypeOK
    <3> DEFINE w == [work[u] EXCEPT !.pc = "embed", !.row = rows + 1]
    <3>2. w \in WorkState /\ Laden(w)
      BY <1>0, <2>1, <3>1 DEF WorkState, Laden
    <3>3. work' = [work EXCEPT ![u] = w] /\ work \in [Uploads -> WorkState]
      BY <2>2 DEF TInv, TypeOK
    <3>4. /\ work' \in [Uploads -> WorkState] /\ \A v \in Uploads \ {u} : work'[v] = work[v]
          /\ Laden(work'[u])
      BY <3>2, <3>3
    <3>5. JobsHaveRows' /\ OnlyActive' /\ Carries'
      BY <1>0, <2>1, <2>2, <3>4, MovedTypes
    <3>6. chunks' \in [Docs -> Chunks \cup {NoRows}]
      BY <1>0, <2>1, <2>2, <3>1 DEF TInv, TypeOK, Chunks
    <3>7. TypeOK'
      BY <2>2, <3>1, <3>4, <3>6 DEF TInv, TypeOK
    <3> QED
      BY <3>5, <3>7 DEF TInv
  <2> QED
    BY <1>7, <1>e, <2>1, <2>2 DEF PersistChunks
<1>8. CASE Upsert(u)
  <2>1. /\ work[u].pc = "embed" /\ work[u].row \in Nat \ {0} /\ ~work[u].swept /\ work[u].pc # "idle"
        /\ work[u].text \in Texts
        /\ points' = points \cup {[doc |-> Of(u), row |-> work[u].row]}
        /\ To(u, "mark") /\ UNCHANGED <<store, blob, bull, api, del, lost, together, faults>>
    BY <1>0, <1>8 DEF Upsert, At, Laden
  <2>2. work' \in [Uploads -> WorkState] /\ JobsHaveRows' /\ OnlyActive' /\ Carries'
    BY <1>m, <2>1 DEF PCs, store
  <2>3. points' \subseteq Point
    BY <1>0, <2>1 DEF TInv, TypeOK, Point
  <2>4. TypeOK'
    BY <2>1, <2>2, <2>3 DEF TInv, TypeOK, store
  <2> QED
    BY <2>2, <2>4 DEF TInv
<1>9. CASE Mark(u)
  <2>1. /\ work[u].pc = "mark" /\ work[u].row \in Nat \ {0} /\ ~work[u].swept /\ work[u].pc # "idle"
        /\ work[u].text \in Texts
    BY <1>0, <1>9 DEF Mark, At, Laden
  <2>2. CASE /\ chunks[Of(u)] # NoRows
             /\ chunks' = [chunks EXCEPT ![Of(u)].embedded = TRUE]
             /\ To(u, IF work[u].action = "changed" THEN "clean" ELSE "finalize")
             /\ UNCHANGED <<doc, ing, rows, blob, points, bull, api, del, lost, together, faults>>
    <3>1. PICK pc \in {"clean", "finalize"} : To(u, pc)
      BY <2>2
    <3>2. work' \in [Uploads -> WorkState] /\ JobsHaveRows' /\ OnlyActive' /\ Carries'
      BY <1>m, <2>1, <2>2, <3>1 DEF PCs
    <3>3. chunks[Of(u)] \in Chunks /\ chunks \in [Docs -> Chunks \cup {NoRows}]
      BY <1>0, <2>1, <2>2 DEF TInv, TypeOK
    <3>4. [chunks[Of(u)] EXCEPT !.embedded = TRUE] \in Chunks
      BY <3>3 DEF Chunks
    <3>5. chunks' = [chunks EXCEPT ![Of(u)] = [chunks[Of(u)] EXCEPT !.embedded = TRUE]]
      BY <2>2, <3>3
    <3>6. chunks' \in [Docs -> Chunks \cup {NoRows}]
      BY <3>3, <3>4, <3>5
    <3>7. TypeOK'
      BY <2>2, <3>2, <3>6 DEF TInv, TypeOK
    <3> QED
      BY <3>2, <3>7 DEF TInv
  <2> QED
    BY <1>9, <1>e, <2>1, <2>2 DEF Mark
<1>10. CASE CleanPoints(u)
  <2>1. /\ work[u].pc = "clean" /\ work[u].row \in Nat \ {0} /\ ~work[u].swept /\ work[u].pc # "idle"
        /\ work[u].text \in Texts /\ UNCHANGED <<store, blob, bull, api, del, lost, together>>
    BY <1>0, <1>10 DEF CleanPoints, At, Laden
  <2>2. CASE /\ points' = points \ Stale(u)
             /\ work' = [work EXCEPT ![u].pc = "finalize", ![u].swept = TRUE]
             /\ UNCHANGED faults
    <3> DEFINE w == [work[u] EXCEPT !.pc = "finalize", !.swept = TRUE]
    <3>1. w \in WorkState /\ Laden(w)
      BY <1>0, <2>1 DEF WorkState, Laden
    <3>2. work' = [work EXCEPT ![u] = w] /\ work \in [Uploads -> WorkState]
      BY <2>2 DEF TInv, TypeOK
    <3>3. /\ work' \in [Uploads -> WorkState] /\ \A v \in Uploads \ {u} : work'[v] = work[v]
          /\ Laden(work'[u])
      BY <3>1, <3>2
    <3>4. JobsHaveRows' /\ OnlyActive' /\ Carries'
      BY <1>0, <2>1, <3>3, MovedTypes DEF store
    <3>5. TypeOK'
      BY <2>1, <2>2, <3>3 DEF TInv, TypeOK, store
    <3> QED
      BY <3>4, <3>5 DEF TInv
  <2>3. CASE Fault /\ To(u, "finalize") /\ UNCHANGED points
    <3>1. work' \in [Uploads -> WorkState] /\ JobsHaveRows' /\ OnlyActive' /\ Carries'
      BY <1>m, <2>1, <2>3 DEF PCs, store
    <3>2. TypeOK'
      BY <2>1, <2>3, <3>1, FaultType DEF TInv, TypeOK, store
    <3> QED
      BY <3>1, <3>2 DEF TInv
  <2> QED
    BY <1>10, <2>2, <2>3 DEF CleanPoints
<1>11. CASE Finalize(u)
  <2>1. work[u].pc = "finalize" /\ work[u].text \in Texts /\ work[u].pc # "idle"
    BY <1>0, <1>11 DEF Finalize, At, Laden
  <2>2. CASE /\ To(u, "complete")
             /\ doc' = [doc EXCEPT ![Of(u)] =
                   [hash |-> work[u].text,
                    ver |-> IF work[u].action = "changed" THEN work[u].ver + 1 ELSE work[u].ver]]
             /\ UNCHANGED <<ing, chunks, rows, blob, points, bull, api, del, lost, together, faults>>
    <3>1. work' \in [Uploads -> WorkState] /\ JobsHaveRows' /\ OnlyActive' /\ Carries'
      BY <1>m, <2>1, <2>2 DEF PCs
    <3>2. PICK n \in Nat \ {0} :
            n = IF work[u].action = "changed" THEN work[u].ver + 1 ELSE work[u].ver
      BY <1>0 DEF WorkState
    <3>3. doc' \in [Docs -> Document \cup {NoDoc}]
      BY <1>0, <2>1, <2>2, <3>2 DEF TInv, TypeOK, Document
    <3>4. TypeOK'
      BY <2>2, <3>1, <3>3 DEF TInv, TypeOK
    <3> QED
      BY <3>1, <3>4 DEF TInv
  <2> QED
    BY <1>11, <1>e, <2>1, <2>2 DEF Finalize
<1>12. CASE Complete(u)
  <2>1. work[u].pc # "idle"
    BY <1>12 DEF Complete, At
  <2> QED
    BY <1>0, <1>12, <2>1, EndedTypes DEF Complete, TInv, TypeOK
<1> QED
  BY <1>1, <1>2, <1>3, <1>4, <1>5, <1>6, <1>7, <1>8, <1>9, <1>10, <1>11, <1>12 DEF Pipeline

LEMMA DeleteTypes == ASSUME TInv, NEW x \in Deletions, Delete(x) PROVE TInv'
<1>1. UNCHANGED <<ing, rows, bull, api, work, lost, together>>
  BY DEF Delete, DelRead, DelRows, DelPoints, DelBlob, DelCrash, store
<1>2. JobsHaveRows' /\ OnlyActive' /\ Carries'
  BY <1>1 DEF TInv, JobsHaveRows, OnlyActive, Carries
<1>3. doc' \in [Docs -> Document \cup {NoDoc}] /\ chunks' \in [Docs -> Chunks \cup {NoRows}]
  BY DEF Delete, DelRead, DelRows, DelPoints, DelBlob, DelCrash, store, TInv, TypeOK
<1>4. blob' \in [Docs -> Texts \cup {NoText}] /\ points' \subseteq Point
  BY DEF Delete, DelRead, DelRows, DelPoints, DelBlob, DelCrash, TInv, TypeOK
<1>5. faults' \in 0..MaxFaults
  BY FaultType DEF Delete, DelRead, DelRows, DelPoints, DelBlob, DelCrash, TInv, TypeOK
<1>6. del' \in [Deletions -> DelState]
  <2>1. del \in [Deletions -> DelState] /\ del[x] \in DelState
    BY DEF TInv, TypeOK
  <2>2. ASSUME NEW pc \in {"points", "blob", "end"}, DelTo(x, pc) PROVE del' \in [Deletions -> DelState]
    <3>1. [del[x] EXCEPT !.pc = pc] \in DelState
      BY <2>1 DEF DelState
    <3>2. del' = [del EXCEPT ![x] = [del[x] EXCEPT !.pc = pc]]
      BY <2>1, <2>2 DEF DelTo
    <3> QED
      BY <2>1, <3>1, <3>2
  <2>3. CASE DelRead(x)
    <3>1. PICK d \in Docs : del' = [del EXCEPT ![x] = [pc |-> "rows", doc |-> d]]
      BY <2>3 DEF DelRead, Existing
    <3>2. [pc |-> "rows", doc |-> d] \in DelState
      BY DEF DelState
    <3> QED
      BY <2>1, <3>1, <3>2
  <2>4. CASE DelRows(x)
    <3>1. PICK pc \in {"points", "end"} : DelTo(x, pc)
      BY <2>4 DEF DelRows
    <3> QED
      BY <2>2, <3>1
  <2>5. CASE DelPoints(x)
    BY <2>2, <2>5 DEF DelPoints
  <2>6. CASE DelBlob(x)
    BY <2>2, <2>6 DEF DelBlob
  <2>7. CASE DelCrash(x)
    BY <2>2, <2>7 DEF DelCrash
  <2> QED
    BY <2>3, <2>4, <2>5, <2>6, <2>7 DEF Delete
<1>7. TypeOK'
  BY <1>1, <1>3, <1>4, <1>5, <1>6 DEF TInv, TypeOK
<1> QED
  BY <1>2, <1>7 DEF TInv

LEMMA ReconcilerTypes ==
    ASSUME TInv, Reconcile \/ ReconcilerCrash \/ \E u \in Uploads : Requeue(u) PROVE TInv'
<1>1. CASE Reconcile
  <2>1. lost' \subseteq Uploads /\ \A v \in lost' : ing[v] # NoJob
    BY <1>1 DEF Reconcile, Unqueued
  <2>2. UNCHANGED <<store, blob, points, bull, api, work, del, faults, together>>
    BY <1>1 DEF Reconcile
  <2> QED
    BY <2>1, <2>2 DEF TInv, TypeOK, JobsHaveRows, OnlyActive, Carries, store
<1>2. CASE ReconcilerCrash
  <2>1. lost' = {} /\ UNCHANGED <<store, blob, points, bull, api, work, del, together>>
        /\ faults' \in 0..MaxFaults
    BY <1>2, FaultType DEF ReconcilerCrash, TInv
  <2> QED
    BY <2>1 DEF TInv, TypeOK, JobsHaveRows, OnlyActive, Carries, store
<1>3. ASSUME NEW u \in Uploads, Requeue(u) PROVE TInv'
  <2>1. /\ ing[u] # NoJob /\ lost' \subseteq lost /\ bull' = Queued(u)
        /\ UNCHANGED <<store, blob, points, api, work, del, faults, together>>
    BY <1>3 DEF Requeue, TInv, JobsHaveRows
  <2>2. /\ bull' \in [Uploads -> BullState]
        /\ \A v \in Uploads :
             /\ bull'[v].tries = bull[v].tries /\ bull'[v].stalls = bull[v].stalls
             /\ \/ bull'[v].st = bull[v].st
                \/ v = u /\ bull[v].st = "none" /\ bull'[v].st = "waiting"
    BY <2>1, QueuedTypes DEF TInv
  <2>3. TypeOK'
    BY <2>1, <2>2 DEF TInv, TypeOK, store
  <2>4. JobsHaveRows'
    BY <2>1, <2>2 DEF TInv, JobsHaveRows, store
  <2>5. OnlyActive' /\ Carries'
    BY <2>1, <2>2 DEF TInv, OnlyActive, Carries
  <2> QED
    BY <2>3, <2>4, <2>5 DEF TInv
<1> QED
  BY <1>1, <1>2, <1>3

LEMMA NextTypes == TInv /\ [Next]_vars => TInv'
<1> SUFFICES ASSUME TInv, [Next]_vars PROVE TInv'
  OBVIOUS
<1>1. ASSUME NEW u \in Uploads, Fails(u) \/ Stall(u) PROVE TInv'
  <2>1. /\ bull[u].st = "active" /\ (Throw(u) \/ Stall(u)) /\ faults' \in 0..MaxFaults
        /\ UNCHANGED <<doc, chunks, rows, blob, points, api, del, lost, together>>
        /\ UNCHANGED ing \/ Status(u, "failed")
    BY <1>1, FaultType DEF Fails, Stall, Active, TInv, store
  <2> QED
    BY <2>1, EndedTypes
<1>2. CASE UNCHANGED vars
  BY <1>2 DEF vars, TInv, TypeOK, JobsHaveRows, OnlyActive, Carries
<1> QED
  BY <1>1, <1>2, UploadTypes, PipelineTypes, DeleteTypes, ReconcilerTypes DEF Next

\* Every variable keeps its type, for any uploads, texts, deletions, slots, tries
\* and faults.
THEOREM TypeCorrect == Spec => []TypeOK
<1>1. TInv => TypeOK
  BY DEF TInv
<1> QED
  BY <1>1, TInvInit, NextTypes, PTL DEF Spec
-----------------------------------------------------------------------------
(* A document is minted once: an upload that committed, or whose document was  *)
(* seen by anyone, never commits again, so what was deleted stays deleted.     *)

PastPCs == {"enqueue", "stamp", "end"}
Past(u) == api[u].pc \in PastPCs

MintInv ==
    /\ \A d \in Docs : doc[d] # NoDoc => Past(d)
    /\ \A d \in Docs : doc[d] = NoDoc => chunks[d] = NoRows
    /\ \A u \in Uploads : ing[u] # NoJob => Past(u) /\ Past(Of(u))
    /\ \A x \in Deletions :
          /\ del[x].pc \in {"rows", "points", "blob"} => del[x].doc \in Docs /\ Past(del[x].doc)
          /\ del[x].pc \in {"points", "blob"} => doc[del[x].doc] = NoDoc

\* Uploads only go forward.
LEMMA PastStays == ASSUME TInv, [Next]_vars, NEW d \in Docs, Past(d) PROVE Past(d)'
<1>1. ASSUME NEW u \in Uploads, Upload(u) PROVE Past(d)'
  <2>1. api \in [Uploads -> ApiState] /\ TypeOK
    BY DEF TInv, TypeOK
  <2>2. CASE u = d
    <3>1. \E pc \in {"stamp", "end"} : ApiTo(u, pc)
      BY <1>1, <2>2 DEF Past, PastPCs, Upload, Find, Put, CommitFirst, CommitAgain, Conflict, CommitGone,
         Enqueue, EnqueueFails, StampUnqueued, ApiCrash, ApiAt
    <3> QED
      BY <2>1, <2>2, <3>1, ApiToTypes DEF Past, PastPCs
  <2>3. CASE u # d
    <3>1. \/ \E e \in [pc : {"put"}, doc : Docs] : api' = [api EXCEPT ![u] = e]
          \/ \E pc \in {"rows", "enqueue", "stamp", "end"} : ApiTo(u, pc)
      BY <1>1 DEF Upload, Find, Put, CommitFirst, CommitAgain, Conflict, CommitGone,
         Enqueue, EnqueueFails, StampUnqueued, ApiCrash, Existing
    <3>2. api'[d] = api[d]
      BY <2>1, <2>3, <3>1, ApiToTypes
    <3> QED
      BY <3>2 DEF Past
  <2> QED
    BY <2>2, <2>3
<1>2. CASE UNCHANGED api
  BY <1>2 DEF Past
<1>3. \/ UNCHANGED api
      \/ \E u \in Uploads : Upload(u)
  BY DEF Next, vars, Pipeline, Start, CheckSource, Fetch, Purge, EndBlocked, Decide, PersistChunks,
     Upsert, Mark, CleanPoints, Finalize, Complete, Refuse, Fails, Stall, Requeue, Reconcile,
     ReconcilerCrash, Delete, DelRead, DelRows, DelPoints, DelBlob, DelCrash
<1> QED
  BY <1>1, <1>2, <1>3

\* Rows of documents come from a first commit, change with an ingested version and
\* go with a deletion.
LEMMA DocSteps ==
    ASSUME [Next]_vars
    PROVE  \/ UNCHANGED doc
           \/ \E u \in Uploads : CommitFirst(u)
           \/ \E u \in Uploads : Finalize(u) /\ ~Gone(u)
           \/ \E x \in Deletions : DelRows(x)
<1>1. ASSUME NEW u \in Uploads, Upload(u) PROVE UNCHANGED doc \/ CommitFirst(u)
  BY <1>1 DEF store, Upload, Find, Put, CommitAgain, Conflict, CommitGone,
     Enqueue, EnqueueFails, StampUnqueued, ApiCrash
<1>2. ASSUME NEW u \in Uploads, Pipeline(u)
      PROVE  \/ UNCHANGED doc
             \/ Finalize(u) /\ ~Gone(u)
  BY <1>2 DEF store, Pipeline, Start, CheckSource, Fetch, Purge, EndBlocked, Decide,
     PersistChunks, Upsert, Mark, CleanPoints, Finalize, Complete, Refuse
<1>3. ASSUME NEW x \in Deletions, Delete(x) PROVE UNCHANGED doc \/ DelRows(x)
  BY <1>3 DEF store, Delete, DelRead, DelPoints, DelBlob, DelCrash
<1>4. \/ UNCHANGED doc
      \/ \E u \in Uploads : Upload(u) \/ Pipeline(u)
      \/ \E x \in Deletions : Delete(x)
  BY DEF Next, vars, store, Fails, Stall, Requeue, Reconcile, ReconcilerCrash
<1> QED
  BY <1>1, <1>2, <1>3, <1>4

LEMMA ChunkSteps ==
    ASSUME [Next]_vars
    PROVE  \/ UNCHANGED chunks
           \/ \E u \in Uploads : PersistChunks(u) /\ ~Gone(u)
           \/ \E u \in Uploads : Mark(u) /\ chunks[Of(u)] # NoRows
           \/ \E x \in Deletions : DelRows(x)
<1>1. ASSUME NEW u \in Uploads, Upload(u) PROVE UNCHANGED chunks
  BY <1>1 DEF store, Upload, Find, Put, CommitFirst, CommitAgain, Conflict, CommitGone,
     Enqueue, EnqueueFails, StampUnqueued, ApiCrash
<1>2. ASSUME NEW u \in Uploads, Pipeline(u)
      PROVE  \/ UNCHANGED chunks
             \/ PersistChunks(u) /\ ~Gone(u)
             \/ Mark(u) /\ chunks[Of(u)] # NoRows
  BY <1>2 DEF store, Pipeline, Start, CheckSource, Fetch, Purge, EndBlocked, Decide,
     PersistChunks, Upsert, Mark, CleanPoints, Finalize, Complete, Refuse
<1>3. ASSUME NEW x \in Deletions, Delete(x) PROVE UNCHANGED chunks \/ DelRows(x)
  BY <1>3 DEF store, Delete, DelRead, DelPoints, DelBlob, DelCrash
<1>4. \/ UNCHANGED chunks
      \/ \E u \in Uploads : Upload(u) \/ Pipeline(u)
      \/ \E x \in Deletions : Delete(x)
  BY DEF Next, vars, store, Fails, Stall, Requeue, Reconcile, ReconcilerCrash
<1> QED
  BY <1>1, <1>2, <1>3, <1>4

LEMMA JobSteps ==
    ASSUME [Next]_vars
    PROVE  \/ UNCHANGED ing
           \/ \E u \in Uploads : CommitFirst(u) \/ CommitAgain(u)
           \/ \E u \in Uploads, s \in {"queued", "processing", "completed", "failed"} :
                 /\ Status(u, s)
                 /\ api[u].pc = "stamp" \/ work[u].pc # "idle" \/ bull[u].st = "active"
<1>1. ASSUME NEW u \in Uploads, Upload(u)
      PROVE  \/ UNCHANGED ing
             \/ CommitFirst(u) \/ CommitAgain(u)
             \/ Status(u, "failed") /\ api[u].pc = "stamp"
  BY <1>1 DEF store, Upload, Find, Put, Conflict, CommitGone, Enqueue, EnqueueFails,
     StampUnqueued, ApiCrash, ApiAt, Status
<1>2. ASSUME NEW u \in Uploads, Pipeline(u)
      PROVE  \/ UNCHANGED ing
             \/ \E s \in {"processing", "completed", "failed"} : Status(u, s) /\ work[u].pc # "idle"
  BY <1>2 DEF store, Pipeline, Start, CheckSource, Fetch, Purge, EndBlocked, Decide, PersistChunks,
     Upsert, Mark, CleanPoints, Finalize, Complete, Refuse, At
<1>3. ASSUME NEW u \in Uploads, Fails(u) \/ Stall(u)
      PROVE  UNCHANGED ing \/ (Status(u, "failed") /\ bull[u].st = "active")
  BY <1>3 DEF store, Fails, Stall, Active
<1>4. \/ UNCHANGED ing
      \/ \E u \in Uploads : Upload(u) \/ Pipeline(u) \/ Fails(u) \/ Stall(u)
  BY DEF Next, vars, store, Requeue, Reconcile, ReconcilerCrash, Delete, DelRead, DelRows,
     DelPoints, DelBlob, DelCrash
<1> QED
  BY <1>1, <1>2, <1>3, <1>4

\* What is deleted stays deleted.
LEMMA GoneStays ==
    ASSUME TInv, [Next]_vars, NEW d \in Docs, Past(d), doc[d] = NoDoc PROVE doc'[d] = NoDoc
<1>1. ASSUME NEW u \in Uploads, CommitFirst(u) PROVE doc'[d] = NoDoc
  <2>1. u # d
    BY <1>1 DEF CommitFirst, ApiAt, Past, PastPCs
  <2> QED
    BY <1>1, <2>1 DEF CommitFirst, TInv, TypeOK
<1>2. ASSUME NEW u \in Uploads, Finalize(u), ~Gone(u) PROVE doc'[d] = NoDoc
  <2>1. Of(u) # d
    BY <1>2 DEF Gone
  <2> QED
    BY <1>2, <2>1 DEF Finalize, TInv, TypeOK
<1>3. ASSUME NEW x \in Deletions, DelRows(x) PROVE doc'[d] = NoDoc
  BY <1>3 DEF DelRows, TInv, TypeOK
<1> QED
  BY <1>1, <1>2, <1>3, DocSteps

\* A job keeps its document; a new one belongs to a document that is committed.
LEMMA JobsKeepDocs ==
    ASSUME TInv, MintInv, [Next]_vars, NEW v \in Uploads
    PROVE  /\ ing[v] # NoJob => ing'[v] # NoJob /\ Of(v)' = Of(v)
           /\ ing[v] = NoJob /\ ing'[v] # NoJob => Past(v)' /\ Past(Of(v))'
<1>1. ASSUME NEW u \in Uploads, CommitFirst(u) \/ CommitAgain(u)
      PROVE  /\ ing[v] # NoJob => ing'[v] # NoJob /\ Of(v)' = Of(v)
             /\ ing[v] = NoJob /\ ing'[v] # NoJob => Past(v)' /\ Past(Of(v))'
  <2>1. /\ api[u].pc = "rows" /\ api[u].doc \in Docs /\ ApiTo(u, "enqueue")
        /\ ing' = [ing EXCEPT ![u] = [doc |-> api[u].doc, status |-> "queued"]]
        /\ ing \in [Uploads -> IngestJob \cup {NoJob}]
    BY <1>1 DEF CommitFirst, CommitAgain, ApiAt, NewJob, TInv, TypeOK, ApiState
  <2>2. api'[u].pc = "enqueue"
    BY <2>1, ApiToTypes DEF TInv
  <2>3. api'[api[u].doc].pc \in PastPCs
    <3>1. CASE CommitFirst(u)
      BY <2>2, <3>1 DEF CommitFirst, PastPCs
    <3>2. CASE CommitAgain(u)
      <4>1. Past(api[u].doc)
        BY <2>1, <3>2 DEF CommitAgain, MintInv
      <4>2. \A d \in Docs : Past(d) => Past(d)'
        BY PastStays
      <4> QED
        BY <2>1, <4>1, <4>2 DEF Past
    <3> QED
      BY <1>1, <3>1, <3>2
  <2>4. ing[u] = NoJob
    BY <2>1 DEF MintInv, Past, PastPCs
  <2>5. CASE v = u
    <3>1. ing'[v] = [doc |-> api[u].doc, status |-> "queued"]
      BY <2>1, <2>5
    <3> QED
      BY <2>2, <2>3, <2>4, <2>5, <3>1 DEF Of, Past, PastPCs
  <2>6. CASE v # u
    BY <2>1, <2>6 DEF Of
  <2> QED
    BY <2>5, <2>6
<1>2. ASSUME NEW u \in Uploads, NEW s \in {"queued", "processing", "completed", "failed"}, Status(u, s),
             api[u].pc = "stamp" \/ work[u].pc # "idle" \/ bull[u].st = "active"
      PROVE  (ing[v] # NoJob => ing'[v] # NoJob /\ Of(v)' = Of(v)) /\ (ing[v] = NoJob => ing'[v] = NoJob)
  <2>1. ing[u] # NoJob /\ TypeOK
    BY <1>2 DEF TInv, JobsHaveRows, OnlyActive
  <2> QED
    BY <1>2, <2>1, StatusTypes DEF Of
<1>3. CASE UNCHANGED ing
  BY <1>3 DEF Of
<1> QED
  BY <1>1, <1>2, <1>3, JobSteps

LEMMA MintStep == TInv /\ MintInv /\ [Next]_vars => MintInv'
<1> SUFFICES ASSUME TInv, MintInv, [Next]_vars PROVE MintInv'
  OBVIOUS
<1>1. ASSUME NEW d \in Docs, doc'[d] # NoDoc PROVE Past(d)'
  <2>1. CASE Past(d)
    BY <2>1, PastStays
  <2>2. CASE ~Past(d)
    <3>1. doc[d] = NoDoc /\ doc \in [Docs -> Document \cup {NoDoc}]
      BY <2>2 DEF MintInv, TInv, TypeOK
    <3>2. ASSUME NEW u \in Uploads, CommitFirst(u) PROVE Past(d)'
      <4>1. u = d
        BY <1>1, <3>1, <3>2 DEF CommitFirst
      <4>2. api'[u].pc = "enqueue"
        BY <3>2, ApiToTypes DEF CommitFirst, TInv
      <4> QED
        BY <4>1, <4>2 DEF Past, PastPCs
    <3>3. ASSUME NEW u \in Uploads, Finalize(u), ~Gone(u) PROVE FALSE
      <4>1. Of(u) # d
        BY <3>1, <3>3 DEF Gone
      <4> QED
        BY <1>1, <3>1, <3>3, <4>1 DEF Finalize
    <3>4. ASSUME NEW x \in Deletions, DelRows(x) PROVE FALSE
      BY <1>1, <3>1, <3>4 DEF DelRows
    <3> QED
      BY <1>1, <3>1, <3>2, <3>3, <3>4, DocSteps
  <2> QED
    BY <2>1, <2>2
<1>2. ASSUME NEW d \in Docs, doc'[d] = NoDoc PROVE chunks'[d] = NoRows
  <2>0. chunks \in [Docs -> Chunks \cup {NoRows}] /\ doc \in [Docs -> Document \cup {NoDoc}]
    BY DEF TInv, TypeOK
  <2>1. ASSUME NEW x \in Deletions, DelRows(x) PROVE chunks'[d] = NoRows
    <3>1. CASE del[x].doc = d
      BY <2>0, <2>1, <3>1 DEF DelRows
    <3>2. CASE del[x].doc # d
      BY <1>2, <2>0, <2>1, <3>2 DEF DelRows, MintInv
    <3> QED
      BY <3>1, <3>2
  <2>2. CASE \A x \in Deletions : ~DelRows(x)
    <3>1. doc[d] = NoDoc
      <4>1. ASSUME NEW u \in Uploads, CommitFirst(u) PROVE doc[d] = NoDoc
        BY <1>2, <2>0, <4>1, IngestAssumption DEF CommitFirst, Document
      <4>2. ASSUME NEW u \in Uploads, Finalize(u), ~Gone(u) PROVE doc[d] = NoDoc
        <5>1. CASE Of(u) # d
          BY <1>2, <2>0, <4>2, <5>1 DEF Finalize
        <5>2. CASE Of(u) = d
          <6>1. PICK e : /\ doc' = [doc EXCEPT ![d] = e]
                         /\ e = [hash |-> work[u].text,
                                 ver |-> IF work[u].action = "changed" THEN work[u].ver + 1
                                         ELSE work[u].ver]
            BY <4>2, <5>2 DEF Finalize
          <6>2. e \in Document
            <7>1. work[u] \in WorkState
              BY DEF TInv, TypeOK
            <7>2. PICK n \in Nat \ {0} :
                    n = IF work[u].action = "changed" THEN work[u].ver + 1 ELSE work[u].ver
              BY <7>1 DEF WorkState
            <7> QED
              BY <6>1, <7>1, <7>2 DEF Document, WorkState
          <6> QED
            BY <1>2, <2>0, <6>1, <6>2, IngestAssumption
        <5> QED
          BY <5>1, <5>2
      <4> QED
        BY <1>2, <2>2, <4>1, <4>2, DocSteps
    <3>2. chunks[d] = NoRows
      BY <3>1 DEF MintInv
    <3>3. ASSUME NEW u \in Uploads, PersistChunks(u), ~Gone(u) PROVE chunks'[d] = NoRows
      <4>1. Of(u) # d
        BY <3>1, <3>3 DEF Gone
      <4> QED
        BY <2>0, <3>2, <3>3, <4>1 DEF PersistChunks
    <3>4. ASSUME NEW u \in Uploads, Mark(u), chunks[Of(u)] # NoRows PROVE chunks'[d] = NoRows
      <4>1. Of(u) # d
        BY <3>2, <3>4
      <4> QED
        BY <2>0, <3>2, <3>4, <4>1 DEF Mark, Refuse
    <3> QED
      BY <2>2, <3>2, <3>3, <3>4, ChunkSteps
  <2> QED
    BY <2>1, <2>2
<1>3. ASSUME NEW u \in Uploads, ing'[u] # NoJob PROVE Past(u)' /\ Past(Of(u))'
  <2>1. CASE ing[u] = NoJob
    BY <1>3, <2>1, JobsKeepDocs
  <2>2. CASE ing[u] # NoJob
    <3>1. Past(u) /\ Past(Of(u)) /\ Of(u)' = Of(u) /\ Of(u) \in Docs
      BY <2>2, JobsKeepDocs DEF MintInv, TInv, TypeOK, IngestJob, Of
    <3>2. Past(u)' /\ \A d \in Docs : Past(d) => Past(d)'
      BY <3>1, PastStays
    <3> QED
      BY <3>1, <3>2 DEF Past
  <2> QED
    BY <2>1, <2>2
<1>4. ASSUME NEW x \in Deletions
      PROVE  /\ del'[x].pc \in {"rows", "points", "blob"} =>
                   del'[x].doc \in Docs /\ api'[del'[x].doc].pc \in PastPCs
             /\ del'[x].pc \in {"points", "blob"} => doc'[del'[x].doc] = NoDoc
  <2>0. del \in [Deletions -> DelState] /\ del[x] \in DelState /\ doc \in [Docs -> Document \cup {NoDoc}]
    BY DEF TInv, TypeOK
  <2>p. \A d \in Docs : /\ Past(d) => api'[d].pc \in PastPCs
                        /\ Past(d) /\ doc[d] = NoDoc => doc'[d] = NoDoc
    BY PastStays, GoneStays DEF Past
  <2>1. CASE UNCHANGED del[x]
    BY <2>1, <2>p DEF MintInv, Past
  <2>2. CASE DelRead(x)
    <3>1. PICK d \in Docs : doc[d] # NoDoc /\ del' = [del EXCEPT ![x] = [pc |-> "rows", doc |-> d]]
      BY <2>2 DEF DelRead, Existing
    <3>2. Past(d) /\ del'[x] = [pc |-> "rows", doc |-> d]
      BY <2>0, <3>1 DEF MintInv
    <3> QED
      BY <3>2, <2>p DEF Past
  <2>3. CASE DelRows(x)
    <3>1. del[x].pc = "rows" /\ del[x].doc \in Docs /\ Past(del[x].doc)
      BY <2>3 DEF DelRows, DelAt, MintInv
    <3>2. del'[x].doc = del[x].doc /\ doc'[del[x].doc] = NoDoc
      BY <2>0, <2>3, <3>1 DEF DelRows, DelTo, DelState
    <3> QED
      BY <3>1, <3>2, <2>p DEF Past
  <2>4. CASE DelPoints(x)
    <3>1. del[x].pc = "points" /\ del[x].doc \in Docs /\ Past(del[x].doc) /\ doc[del[x].doc] = NoDoc
      BY <2>4 DEF DelPoints, DelAt, MintInv
    <3>2. del'[x].doc = del[x].doc
      BY <2>0, <2>4 DEF DelPoints, DelTo, DelState
    <3> QED
      BY <3>1, <3>2, <2>p DEF Past
  <2>5. CASE DelBlob(x) \/ DelCrash(x)
    <3>1. del'[x].pc = "end"
      BY <2>0, <2>5 DEF DelBlob, DelCrash, DelTo, DelState
    <3> QED
      BY <3>1
  <2>6. \/ UNCHANGED del[x]
        \/ Delete(x)
    <3>1. \/ UNCHANGED del
          \/ \E y \in Deletions : Delete(y)
      BY DEF Next, vars, Upload, Find, Put, CommitFirst, CommitAgain, Conflict, CommitGone,
         Enqueue, EnqueueFails, StampUnqueued, ApiCrash, Pipeline, Start, CheckSource, Fetch, Purge,
         EndBlocked, Decide, PersistChunks, Upsert, Mark, CleanPoints, Finalize, Complete, Refuse,
         Fails, Stall, Requeue, Reconcile, ReconcilerCrash
    <3>2. ASSUME NEW y \in Deletions, Delete(y), y # x PROVE del'[x] = del[x]
      BY <2>0, <3>2 DEF Delete, DelRead, DelRows, DelPoints, DelBlob, DelCrash, DelTo
    <3> QED
      BY <3>1, <3>2
  <2> QED
    BY <2>1, <2>2, <2>3, <2>4, <2>5, <2>6 DEF Delete
<1> QED
  BY <1>1, <1>2, <1>3, <1>4 DEF MintInv, Past

LEMMA MintInit == Init => MintInv
BY DEF Init, MintInv, Past

LEMMA BlobSteps ==
    ASSUME [Next]_vars
    PROVE  \/ UNCHANGED blob
           \/ \E u \in Uploads : Put(u) \/ Conflict(u) \/ Purge(u)
           \/ \E x \in Deletions : DelBlob(x)
<1>1. ASSUME NEW u \in Uploads, Upload(u) PROVE UNCHANGED blob \/ Put(u) \/ Conflict(u)
  BY <1>1 DEF store, Upload, Find, CommitFirst, CommitAgain, CommitGone,
     Enqueue, EnqueueFails, StampUnqueued, ApiCrash
<1>2. ASSUME NEW u \in Uploads, Pipeline(u)
      PROVE  \/ UNCHANGED blob
             \/ Purge(u)
  BY <1>2 DEF store, Pipeline, Start, CheckSource, Fetch, EndBlocked, Decide,
     PersistChunks, Upsert, Mark, CleanPoints, Finalize, Complete, Refuse
<1>3. ASSUME NEW x \in Deletions, Delete(x) PROVE UNCHANGED blob \/ DelBlob(x)
  BY <1>3 DEF store, Delete, DelRead, DelRows, DelPoints, DelCrash
<1>4. \/ UNCHANGED blob
      \/ \E u \in Uploads : Upload(u) \/ Pipeline(u)
      \/ \E x \in Deletions : Delete(x)
  BY DEF Next, vars, store, Fails, Stall, Requeue, Reconcile, ReconcilerCrash
<1> QED
  BY <1>1, <1>2, <1>3, <1>4

\* No race loses the original of a document, whatever the other uploads and the
\* deletions do: the loser of a race of first uploads cleans up after itself, a
\* deletion removes the original of a document that is gone for ever.
THEOREM OriginalsKept == Spec => OriginalKept
<1> DEFINE Kept == \A d \in Docs : doc'[d] # NoDoc /\ blob[d] # NoText /\ blob'[d] = NoText =>
                      \E u \in Uploads : At(u, "scan") /\ Of(u) = d
<1>1. ASSUME TInv, MintInv, [Next]_vars PROVE Kept
  <2> SUFFICES ASSUME NEW d \in Docs, doc'[d] # NoDoc, blob[d] # NoText, blob'[d] = NoText
               PROVE  \E u \in Uploads : At(u, "scan") /\ Of(u) = d
    OBVIOUS
  <2>0. blob \in [Docs -> Texts \cup {NoText}] /\ NoText \notin Texts
    BY <1>1, IngestAssumption DEF TInv, TypeOK
  <2>1. ASSUME NEW u \in Uploads, Put(u) PROVE FALSE
    BY <2>0, <2>1, IngestAssumption DEF Put
  <2>2. ASSUME NEW u \in Uploads, Conflict(u) PROVE FALSE
    <3>1. api[u].pc = "rows" /\ u = d /\ doc' = doc
      BY <2>0, <2>2 DEF Conflict, ApiAt, LoserKey, store
    <3> QED
      BY <1>1, <3>1 DEF MintInv, Past, PastPCs
  <2>3. ASSUME NEW u \in Uploads, Purge(u) PROVE At(u, "scan") /\ Of(u) = d
    <3>1. blob' = [blob EXCEPT ![Of(u)] = NoText] /\ At(u, "scan")
      BY <2>3 DEF Purge
    <3> QED
      BY <2>0, <3>1
  <2>4. ASSUME NEW x \in Deletions, DelBlob(x) PROVE FALSE
    <3>1. del[x].pc = "blob" /\ del[x].doc = d /\ doc' = doc
      BY <2>0, <2>4 DEF DelBlob, DelAt, store
    <3> QED
      BY <1>1, <3>1 DEF MintInv
  <2> QED
    BY <1>1, <2>1, <2>2, <2>3, <2>4, BlobSteps
<1>2. TInv /\ MintInv /\ [Next]_vars => [Kept]_vars
  BY <1>1
<1> QED
  BY <1>2, TInvInit, MintInit, NextTypes, MintStep, PTL DEF Spec, OriginalKept
-----------------------------------------------------------------------------
(* The jobs of one document, one after the other.                          *)

Alone == \A u, v \in Uploads :
    /\ bull[u].st = "active" /\ bull[v].st = "active"
    /\ Of(u) = Of(v) /\ Of(u) \notin together
    => u = v

\* The documents whose jobs have met are remembered.
LEMMA TogetherGrows == ASSUME [Next]_vars PROVE together \subseteq together'
<1>1. ASSUME NEW u \in Uploads, Upload(u) PROVE UNCHANGED together
  BY <1>1 DEF Upload, Find, Put, CommitFirst, CommitAgain, Conflict, CommitGone,
     Enqueue, EnqueueFails, StampUnqueued, ApiCrash
<1>2. ASSUME NEW u \in Uploads, Pipeline(u) PROVE together \subseteq together'
  BY <1>2 DEF Pipeline, Start, CheckSource, Fetch, Purge, EndBlocked, Decide,
     PersistChunks, Upsert, Mark, CleanPoints, Finalize, Complete, Refuse
<1>3. ASSUME NEW x \in Deletions, Delete(x) PROVE UNCHANGED together
  BY <1>3 DEF Delete, DelRead, DelRows, DelPoints, DelBlob, DelCrash
<1>4. \/ UNCHANGED together
      \/ \E u \in Uploads : Upload(u) \/ Pipeline(u)
      \/ \E x \in Deletions : Delete(x)
  BY DEF Next, vars, Fails, Stall, Requeue, Reconcile, ReconcilerCrash
<1> QED
  BY <1>1, <1>2, <1>3, <1>4

LEMMA ActiveSteps ==
    ASSUME TInv, [Next]_vars, NEW v \in Uploads, bull'[v].st = "active"
    PROVE  bull[v].st = "active" \/ Start(v)
<1>1. ASSUME NEW u \in Uploads, Throw(u) \/ Return(u) \/ Stall(u), bull[u].st = "active"
      PROVE  bull[v].st = "active"
  <2>1. bull'[u].st # "active" /\ \A w \in Uploads \ {u} : bull'[w] = bull[w]
    BY <1>1, ThrowTypes, ReturnTypes, StallTypes DEF TInv
  <2> QED
    BY <2>1
<1>2. ASSUME NEW u \in Uploads, bull' = Queued(u) PROVE bull[v].st = "active"
  BY <1>2, QueuedTypes DEF TInv
<1>3. ASSUME NEW u \in Uploads, Start(u) PROVE bull[v].st = "active" \/ u = v
  BY <1>3 DEF Start, TInv, TypeOK
<1>4. \/ UNCHANGED bull
      \/ \E u \in Uploads : Start(u)
      \/ \E u \in Uploads : bull' = Queued(u)
      \/ \E u \in Uploads : /\ Throw(u) \/ Return(u) \/ Stall(u)
                            /\ work[u].pc # "idle" \/ bull[u].st = "active"
  <2>1. ASSUME NEW u \in Uploads, Upload(u) PROVE UNCHANGED bull \/ bull' = Queued(u)
    BY <2>1 DEF Upload, Find, Put, CommitFirst, CommitAgain, Conflict, CommitGone,
       Enqueue, EnqueueFails, StampUnqueued, ApiCrash
  <2>2. ASSUME NEW u \in Uploads, Pipeline(u)
        PROVE  \/ UNCHANGED bull
               \/ Start(u)
               \/ (Throw(u) \/ Return(u)) /\ work[u].pc # "idle"
    BY <2>2 DEF Pipeline, CheckSource, Fetch, Purge, EndBlocked, Decide, PersistChunks,
       Upsert, Mark, CleanPoints, Finalize, Complete, Refuse, At
  <2>3. ASSUME NEW u \in Uploads, Fails(u) \/ Stall(u)
        PROVE  (Throw(u) \/ Stall(u)) /\ bull[u].st = "active"
    BY <2>3 DEF Fails, Stall, Active
  <2>4. \/ UNCHANGED bull
        \/ \E u \in Uploads : \/ Upload(u) \/ Pipeline(u) \/ Fails(u) \/ Stall(u)
                              \/ bull' = Queued(u)
    BY DEF Next, vars, Requeue, Reconcile, ReconcilerCrash, Delete, DelRead, DelRows, DelPoints,
       DelBlob, DelCrash
  <2> QED
    BY <2>1, <2>2, <2>3, <2>4
<1> QED
  BY <1>1, <1>2, <1>3, <1>4 DEF TInv, OnlyActive

LEMMA AloneStep == ASSUME TInv, MintInv, Alone, [Next]_vars PROVE Alone'
<1> SUFFICES ASSUME NEW u \in Uploads, NEW v \in Uploads, bull'[u].st = "active", bull'[v].st = "active",
                    Of(u)' = Of(v)', Of(u)' \notin together'
             PROVE  u = v
  BY DEF Alone
\* A job that starts beside another one of its document is remembered.
<1>1. ASSUME NEW w \in Uploads, NEW z \in Uploads, Start(w), bull'[z].st = "active",
             Of(w)' = Of(z)', Of(w)' \notin together'
      PROVE  z = w
  <2>1. SUFFICES ASSUME z # w PROVE FALSE
    OBVIOUS
  <2>2. bull'[z] = bull[z]
    BY <1>1, <2>1 DEF Start, TInv, TypeOK
  <2>3. Of(w)' = Of(w) /\ Of(z)' = Of(z)
    BY <1>1 DEF Start, store, Of
  <2>4. Of(z) \in {Of(x) : x \in {y \in Active : Of(y) = Of(w)}}
    BY <1>1, <2>2, <2>3 DEF Active
  <2>5. Of(z) \in together'
    BY <1>1, <2>4 DEF Start
  <2> QED
    BY <1>1, <2>3, <2>5
<1>2. CASE bull[u].st = "active" /\ bull[v].st = "active"
  <2>1. ing[u] # NoJob /\ ing[v] # NoJob
    BY <1>2 DEF TInv, JobsHaveRows
  <2>2. Of(u)' = Of(u) /\ Of(v)' = Of(v)
    BY <2>1, JobsKeepDocs
  <2>3. Of(u) \notin together
    BY <2>2, TogetherGrows
  <2> QED
    BY <1>2, <2>2, <2>3 DEF Alone
<1>3. (bull[u].st = "active" \/ Start(u)) /\ (bull[v].st = "active" \/ Start(v))
  BY ActiveSteps
<1> QED
  BY <1>1, <1>2, <1>3

\* The job that stores works on the chunks that are there, and its point is there
\* before it marks them.
Storing == {"embed", "mark", "clean", "finalize"}
Sound(u) == Of(u) \notin together =>
    /\ work[u].pc \in Storing /\ chunks[Of(u)] # NoRows => chunks[Of(u)].row = work[u].row
    /\ work[u].pc = "mark" /\ chunks[Of(u)] # NoRows => [doc |-> Of(u), row |-> work[u].row] \in points
SoundInv == EmbeddedHasPoint /\ NoOrphans /\ \A u \in Uploads : Sound(u)

LEMMA Busy ==
    ASSUME TInv, MintInv, [Next]_vars, NEW u \in Uploads, work[u].pc # "idle"
    PROVE  Of(u) \in Docs /\ Of(u)' = Of(u) /\ bull[u].st = "active"
BY JobsKeepDocs DEF TInv, TypeOK, JobsHaveRows, OnlyActive, IngestJob, Of

\* What a job does to its own work, or its end.
LEMMA WorkSteps ==
    ASSUME TInv, NEW u \in Uploads, Pipeline(u) \/ Fails(u) \/ Stall(u)
    PROVE  \A v \in Uploads \ {u} : work'[v] = work[v]
<1>1. work \in [Uploads -> WorkState] /\ TypeOK
  BY DEF TInv, TypeOK
<1>2. \/ \E w : work' = [work EXCEPT ![u] = w]
      \/ \E pc : To(u, pc)
      \/ work' = [work EXCEPT ![u].pc = "scan", ![u].text = blob[Of(u)]]
      \/ work' = [work EXCEPT ![u].pc = "embed", ![u].row = rows + 1]
      \/ work' = [work EXCEPT ![u].pc = "finalize", ![u].swept = TRUE]
      \/ \E pc, act, n : work' = [work EXCEPT ![u].pc = pc, ![u].action = act, ![u].ver = n]
  BY DEF Pipeline, Start, CheckSource, Fetch, Purge, EndBlocked, Decide, PersistChunks,
     Upsert, Mark, CleanPoints, Finalize, Complete, Refuse, Fails, Stall, Throw, Return
<1> QED
  BY <1>1, <1>2 DEF To

\* A step of a job that touches neither chunks nor points, and stores nothing.
LEMMA NeutralStep ==
    ASSUME TInv, MintInv, SoundInv, [Next]_vars, NEW u \in Uploads,
           UNCHANGED <<chunks, points>>, \A v \in Uploads \ {u} : work'[v] = work[v],
           work'[u].pc \notin Storing,
           work'[u].swept => work[u].swept /\ work'[u].row = work[u].row
    PROVE  SoundInv'
<1>0. together \subseteq together'
  BY TogetherGrows
<1>1. EmbeddedHasPoint'
  BY <1>0 DEF SoundInv, EmbeddedHasPoint
<1>2. ASSUME NEW v \in Uploads PROVE Sound(v)'
  <2>1. CASE v = u
    BY <2>1 DEF Sound, Storing
  <2>2. CASE v # u /\ work[v].pc = "idle"
    BY <2>2 DEF Sound, Storing
  <2>3. CASE v # u /\ work[v].pc # "idle"
    BY <1>0, <2>3, Busy DEF SoundInv, Sound, Storing
  <2> QED
    BY <2>1, <2>2, <2>3
<1>3. NoOrphans'
  <2> SUFFICES ASSUME NEW v \in Uploads, work'[v].swept, Of(v)' \notin together',
                      NEW p \in points', p.doc = Of(v)'
               PROVE  p.row = work'[v].row
    BY DEF NoOrphans
  <2>1. work[v].swept /\ work'[v].row = work[v].row /\ p \in points
    OBVIOUS
  <2>2. work[v].pc # "idle"
    BY <2>1 DEF TInv, Carries, Laden
  <2>3. Of(v)' = Of(v) /\ Of(v) \notin together
    BY <1>0, <2>2, Busy
  <2> QED
    BY <2>1, <2>3 DEF SoundInv, NoOrphans
<1> QED
  BY <1>1, <1>2, <1>3 DEF SoundInv

LEMMA EndIsNeutral ==
    ASSUME TInv, MintInv, SoundInv, [Next]_vars, NEW u \in Uploads,
           UNCHANGED <<chunks, points>>, Throw(u) \/ Return(u) \/ Stall(u), bull[u].st = "active"
    PROVE  SoundInv'
<1>1. \A v \in Uploads \ {u} : work'[v] = work[v]
  BY ThrowTypes, ReturnTypes, StallTypes DEF TInv
<1>2. work'[u] = Resting
  BY ThrowTypes, ReturnTypes, StallTypes DEF TInv
<1>3. work'[u].pc \notin Storing /\ ~work'[u].swept
  BY <1>2 DEF Resting, Storing
<1> QED
  BY <1>1, <1>3, NeutralStep

\* While one job of a document works, its others rest.
LEMMA OthersRest ==
    ASSUME TInv, Alone, NEW u \in Uploads, work[u].pc # "idle", Of(u) \notin together,
           NEW v \in Uploads \ {u}, Of(v) = Of(u)
    PROVE  work[v].pc = "idle" /\ ~work[v].swept
<1>1. work[v].pc = "idle"
  BY DEF TInv, OnlyActive, Alone
<1> QED
  BY <1>1 DEF TInv, Carries, Laden

LEMMA PipelineSound ==
    ASSUME TInv, MintInv, Alone, SoundInv, [Next]_vars, NEW u \in Uploads, Pipeline(u)
    PROVE  SoundInv'
<1>0. /\ \A v \in Uploads \ {u} : work'[v] = work[v]
      /\ TInv' /\ work[u] \in WorkState /\ Laden(work[u])
      /\ chunks \in [Docs -> Chunks \cup {NoRows}] /\ work \in [Uploads -> WorkState]
  BY WorkSteps, NextTypes DEF TInv, TypeOK, Carries
<1>t. together \subseteq together'
  BY TogetherGrows
<1>r. ASSUME Refuse(u), work[u].pc # "idle" PROVE SoundInv'
  BY <1>r, Busy, EndIsNeutral DEF Refuse
<1>n. ASSUME NEW pc \in PCs \ Storing, work' = [work EXCEPT ![u].pc = pc], UNCHANGED <<chunks, points>>
      PROVE  SoundInv'
  <2>1. To(u, pc) /\ TypeOK
    BY <1>n DEF To, TInv
  <2>2. work'[u].pc = pc /\ work'[u].swept = work[u].swept /\ work'[u].row = work[u].row
    BY <2>1, ToTypes
  <2> QED
    BY <1>0, <1>n, <2>2, NeutralStep
<1>1. CASE Start(u) \/ CheckSource(u) \/ Purge(u)
  <2>1. \/ \E pc \in {"source", "fetch", "blocked"} :
              work' = [work EXCEPT ![u].pc = pc] /\ UNCHANGED <<chunks, points>>
        \/ Refuse(u) /\ work[u].pc # "idle"
    BY <1>1 DEF Start, CheckSource, Purge, To, At, store
  <2>2. \A pc \in {"source", "fetch", "blocked"} : pc \in PCs \ Storing
    BY DEF PCs, Storing
  <2> QED
    BY <1>n, <1>r, <2>1, <2>2
<1>2. CASE Fetch(u)
  <2>1. CASE /\ work' = [work EXCEPT ![u].pc = "scan", ![u].text = blob[Of(u)]]
             /\ UNCHANGED <<store, points>>
    <3>1. work[u].pc = "fetch" /\ ~work[u].swept
      BY <1>0, <1>2 DEF Fetch, At, Laden
    <3>2. work'[u].pc = "scan" /\ work'[u].swept = work[u].swept
      BY <1>0, <2>1 DEF WorkState
    <3>3. UNCHANGED <<chunks, points>> /\ work'[u].pc \notin Storing /\ ~work'[u].swept
      BY <2>1, <3>1, <3>2 DEF Storing, store
    <3> QED
      BY <1>0, <3>3, NeutralStep
  <2> QED
    BY <1>2, <1>r, <2>1 DEF Fetch, At
<1>3. CASE EndBlocked(u) \/ Complete(u)
  <2>1. Return(u) /\ UNCHANGED <<chunks, points>> /\ work[u].pc # "idle"
    BY <1>3 DEF EndBlocked, Complete, At
  <2> QED
    BY <2>1, Busy, EndIsNeutral
<1>4. CASE Decide(u)
  <2> DEFINE prior == IF Gone(u) THEN [hash |-> NoText, ver |-> 1] ELSE doc[Of(u)]
             next == IF Action(prior, work[u].text) = "unchanged" THEN "complete" ELSE "chunk"
  <2>1. /\ work' = [work EXCEPT ![u].pc = next,
                               ![u].action = Action(prior, work[u].text), ![u].ver = prior.ver]
        /\ next \in {"complete", "chunk"}
    BY <1>4 DEF Decide
  <2> HIDE DEF prior, next
  <2>2. work[u].pc = "scan" /\ ~work[u].swept
    BY <1>0, <1>4 DEF Decide, At, Laden
  <2>3. work'[u].pc = next /\ work'[u].swept = work[u].swept
    BY <1>0, <2>1 DEF WorkState
  <2>4. UNCHANGED <<chunks, points>> /\ work'[u].pc \notin Storing /\ ~work'[u].swept
    BY <1>4, <2>1, <2>2, <2>3 DEF Decide, Storing, store
  <2> QED
    BY <1>0, <2>4, NeutralStep
<1>5. CASE Finalize(u)
  <2>1. CASE To(u, "complete") /\ UNCHANGED <<chunks, points>>
    BY <1>n, <2>1 DEF To, PCs, Storing
  <2> QED
    BY <1>5, <1>r, <2>1 DEF Finalize, At
<1>6. ASSUME work[u].pc # "idle", work'[u].pc \in Storing,
             Of(u) \notin together => /\ chunks'[Of(u)] # NoRows => chunks'[Of(u)].row = work'[u].row
                                      /\ work'[u].pc = "mark" =>
                                          [doc |-> Of(u), row |-> work'[u].row] \in points'
                                      /\ work'[u].swept =>
                                          \A p \in points' : p.doc = Of(u) => p.row = work'[u].row,
             \A d \in Docs \ {Of(u)} : chunks'[d] = chunks[d],
             \A p \in Point : p.doc # Of(u) => (p \in points' <=> p \in points),
             EmbeddedHasPoint'
      PROVE  SoundInv'
  <2>1. Of(u)' = Of(u)
    BY <1>6, Busy
  <2>2. Sound(u)'
    BY <1>6, <1>t, <2>1 DEF Sound
  <2>3. ASSUME NEW v \in Uploads \ {u}, Of(v)' \notin together', work'[v].pc # "idle"
        PROVE  /\ work'[v] = work[v] /\ Of(v)' = Of(v) /\ Of(v) \notin together
               /\ Of(v) \in Docs /\ Of(v) # Of(u)
    <3>1. work'[v] = work[v] /\ work[v].pc # "idle"
      BY <1>0, <2>3
    <3>2. Of(v)' = Of(v) /\ Of(v) \in Docs
      BY <3>1, Busy
    <3>3. Of(v) \notin together
      BY <1>t, <2>3, <3>2
    <3>4. Of(v) # Of(u)
      BY <1>6, <3>1, <3>3, OthersRest
    <3> QED
      BY <3>1, <3>2, <3>3, <3>4
  <2>4. ASSUME NEW v \in Uploads \ {u} PROVE Sound(v)'
    <3>1. SUFFICES ASSUME Of(v)' \notin together', work'[v].pc \in Storing, chunks'[Of(v)'] # NoRows
                   PROVE  /\ chunks'[Of(v)'].row = work'[v].row
                          /\ work'[v].pc = "mark" => [doc |-> Of(v)', row |-> work'[v].row] \in points'
      BY DEF Sound, Storing
    <3>2. /\ work'[v] = work[v] /\ Of(v)' = Of(v) /\ Of(v) \notin together
          /\ Of(v) \in Docs /\ Of(v) # Of(u)
      BY <2>3, <3>1 DEF Storing
    <3>3. chunks'[Of(v)] = chunks[Of(v)]
      BY <1>6, <3>2
    <3>4. /\ chunks[Of(v)].row = work[v].row
          /\ work[v].pc = "mark" => [doc |-> Of(v), row |-> work[v].row] \in points
      BY <3>1, <3>2, <3>3 DEF SoundInv, Sound
    <3>5. work[v].pc = "mark" => [doc |-> Of(v), row |-> work[v].row] \in points'
      <4>1. points \subseteq Point
        BY DEF TInv, TypeOK
      <4> QED
        BY <1>6, <3>2, <3>4, <4>1
    <3> QED
      BY <3>2, <3>3, <3>4, <3>5
  <2>5. ASSUME NEW v \in Uploads, work'[v].swept, Of(v)' \notin together', NEW p \in points', p.doc = Of(v)'
        PROVE  p.row = work'[v].row
    <3>1. CASE v = u
      BY <1>6, <1>t, <2>1, <2>5, <3>1
    <3>2. CASE v # u
      <4>1. work'[v].pc # "idle" /\ p \in Point
        BY <1>0, <2>5 DEF TInv, TypeOK, Carries, Laden
      <4>2. /\ work'[v] = work[v] /\ Of(v)' = Of(v) /\ Of(v) \notin together /\ Of(v) # Of(u)
        BY <2>3, <2>5, <3>2, <4>1
      <4>3. p \in points
        BY <1>6, <2>5, <4>1, <4>2
      <4> QED
        BY <2>5, <4>2, <4>3 DEF SoundInv, NoOrphans
    <3> QED
      BY <3>1, <3>2
  <2> QED
    BY <1>6, <2>2, <2>4, <2>5 DEF SoundInv, NoOrphans
<1>7. CASE PersistChunks(u)
  <2>1. work[u].pc = "chunk" /\ ~work[u].swept
    BY <1>0, <1>7 DEF PersistChunks, At, Laden
  <2>2. CASE /\ chunks' = [chunks EXCEPT ![Of(u)] =
                             [row |-> rows + 1, text |-> work[u].text, embedded |-> FALSE]]
             /\ work' = [work EXCEPT ![u].pc = "embed", ![u].row = rows + 1]
             /\ UNCHANGED points
    <3>1. Of(u) \in Docs
      BY <2>1, Busy
    <3>2. work'[u].pc = "embed" /\ work'[u].row = rows + 1 /\ work'[u].swept = work[u].swept
      BY <1>0, <2>2 DEF WorkState
    <3>3. chunks'[Of(u)] = [row |-> rows + 1, text |-> work[u].text, embedded |-> FALSE]
      BY <1>0, <2>2, <3>1
    <3>4. \A d \in Docs \ {Of(u)} : chunks'[d] = chunks[d]
      BY <1>0, <2>2
    <3>5. EmbeddedHasPoint'
      BY <1>t, <2>2, <3>3, <3>4 DEF SoundInv, EmbeddedHasPoint
    <3> QED
      BY <1>6, <2>1, <2>2, <3>2, <3>3, <3>4, <3>5 DEF Storing
  <2> QED
    BY <1>7, <1>r, <2>1, <2>2 DEF PersistChunks
<1>8. CASE Upsert(u)
  <2>1. work[u].pc = "embed" /\ ~work[u].swept /\ To(u, "mark") /\ UNCHANGED chunks /\ TypeOK
        /\ points' = points \cup {[doc |-> Of(u), row |-> work[u].row]}
    BY <1>0, <1>8 DEF Upsert, At, Laden, store, TInv
  <2>2. work'[u].pc = "mark" /\ work'[u].row = work[u].row /\ work'[u].swept = work[u].swept
    BY <2>1, ToTypes DEF PCs
  <2>3. Of(u) \notin together /\ chunks[Of(u)] # NoRows => chunks[Of(u)].row = work[u].row
    BY <2>1 DEF SoundInv, Sound, Storing
  <2>4. EmbeddedHasPoint'
    BY <1>t, <2>1 DEF SoundInv, EmbeddedHasPoint
  <2> QED
    BY <1>6, <2>1, <2>2, <2>3, <2>4 DEF Storing
<1>9. CASE Mark(u)
  <2>1. work[u].pc = "mark" /\ ~work[u].swept
    BY <1>0, <1>9 DEF Mark, At, Laden
  <2>2. CASE /\ chunks[Of(u)] # NoRows
             /\ chunks' = [chunks EXCEPT ![Of(u)].embedded = TRUE]
             /\ To(u, IF work[u].action = "changed" THEN "clean" ELSE "finalize")
             /\ UNCHANGED points
    <3>1. PICK pc \in {"clean", "finalize"} : To(u, pc)
      BY <2>2
    <3>2. work'[u].pc = pc /\ work'[u].row = work[u].row /\ work'[u].swept = work[u].swept
      BY <3>1, ToTypes DEF PCs, TInv
    <3>3. Of(u) \in Docs
      BY <2>1, Busy
    <3>4. /\ Of(u) \notin together => /\ chunks[Of(u)].row = work[u].row
                                      /\ [doc |-> Of(u), row |-> work[u].row] \in points
          /\ chunks[Of(u)] \in Chunks
      BY <1>0, <2>1, <2>2, <3>3 DEF SoundInv, Sound, Storing
    <3>5. chunks'[Of(u)].row = chunks[Of(u)].row /\ \A d \in Docs \ {Of(u)} : chunks'[d] = chunks[d]
      BY <1>0, <2>2, <3>3, <3>4 DEF Chunks
    <3>6. EmbeddedHasPoint'
      BY <1>t, <2>2, <3>4, <3>5 DEF SoundInv, EmbeddedHasPoint
    <3> QED
      BY <1>6, <2>1, <2>2, <3>2, <3>4, <3>5, <3>6 DEF Storing
  <2> QED
    BY <1>9, <1>r, <2>1, <2>2 DEF Mark
<1>10. CASE CleanPoints(u)
  <2>1. work[u].pc = "clean" /\ ~work[u].swept /\ UNCHANGED chunks
    BY <1>0, <1>10 DEF CleanPoints, At, Laden, store
  <2>2. Of(u) \notin together /\ chunks[Of(u)] # NoRows => chunks[Of(u)].row = work[u].row
    BY <2>1 DEF SoundInv, Sound, Storing
  <2>3. CASE points' = points \ Stale(u) /\ work' = [work EXCEPT ![u].pc = "finalize", ![u].swept = TRUE]
    <3>1. work'[u].pc = "finalize" /\ work'[u].row = work[u].row
      BY <1>0, <2>3 DEF WorkState
    <3>2. \A p \in points' : p.doc = Of(u) => p.row = work[u].row
      BY <2>3 DEF Stale
    <3>3. EmbeddedHasPoint'
      <4> SUFFICES ASSUME NEW d \in Docs \ together, chunks[d] # NoRows, chunks[d].embedded
                   PROVE  [doc |-> d, row |-> chunks[d].row] \notin Stale(u)
        BY <1>t, <2>1, <2>3 DEF SoundInv, EmbeddedHasPoint
      <4> QED
        BY <2>2 DEF Stale
    <3>4. \A p \in Point : p.doc # Of(u) => (p \in points' <=> p \in points)
      BY <2>3 DEF Stale
    <3> QED
      BY <1>6, <2>1, <2>2, <3>1, <3>2, <3>3, <3>4 DEF Storing
  <2>4. CASE To(u, "finalize") /\ UNCHANGED points
    <3>1. work'[u].pc = "finalize" /\ work'[u].row = work[u].row /\ work'[u].swept = work[u].swept
      BY <2>4, ToTypes DEF PCs, TInv
    <3>2. EmbeddedHasPoint'
      BY <1>t, <2>1, <2>4 DEF SoundInv, EmbeddedHasPoint
    <3> QED
      BY <1>6, <2>1, <2>2, <2>4, <3>1, <3>2 DEF Storing
  <2> QED
    BY <1>10, <2>3, <2>4 DEF CleanPoints
<1> QED
  BY <1>1, <1>2, <1>3, <1>4, <1>5, <1>7, <1>8, <1>9, <1>10 DEF Pipeline

LEMMA SoundStep == ASSUME TInv, MintInv, Alone, SoundInv, [Next]_vars PROVE SoundInv'
<1>t. together \subseteq together'
  BY TogetherGrows
<1>1. ASSUME NEW u \in Uploads, Fails(u) \/ Stall(u) PROVE SoundInv'
  <2>1. /\ Throw(u) \/ Stall(u)
        /\ bull[u].st = "active" /\ UNCHANGED <<chunks, points>>
    BY <1>1 DEF Fails, Stall, Active, store
  <2> QED
    BY <2>1, EndIsNeutral
<1>2. CASE UNCHANGED <<work, chunks>> /\ points' \subseteq points
           /\ \A p \in points \ points' : doc[p.doc] = NoDoc
  <2>1. EmbeddedHasPoint'
    BY <1>2, <1>t DEF SoundInv, EmbeddedHasPoint, MintInv
  <2>2. ASSUME NEW v \in Uploads PROVE Sound(v)'
    <3>1. CASE work[v].pc = "idle"
      BY <1>2, <3>1 DEF Sound, Storing
    <3>2. CASE work[v].pc # "idle"
      BY <1>2, <1>t, <3>2, Busy DEF SoundInv, Sound, Storing, MintInv
    <3> QED
      BY <3>1, <3>2
  <2>3. ASSUME NEW v \in Uploads, work'[v].swept, Of(v)' \notin together', NEW p \in points',
             p.doc = Of(v)'
        PROVE  p.row = work'[v].row
    <3>1. work[v].swept /\ work[v].pc # "idle" /\ p \in points
      BY <1>2, <2>3 DEF TInv, Carries, Laden
    <3>2. Of(v)' = Of(v) /\ Of(v) \notin together
      BY <1>t, <2>3, <3>1, Busy
    <3> QED
      BY <1>2, <2>3, <3>1, <3>2 DEF SoundInv, NoOrphans
  <2> QED
    BY <2>1, <2>2, <2>3 DEF SoundInv, NoOrphans
<1>3. ASSUME NEW x \in Deletions, DelRows(x) PROVE SoundInv'
  <2>0. chunks \in [Docs -> Chunks \cup {NoRows}] /\ UNCHANGED <<work, points>>
    BY <1>3 DEF DelRows, TInv, TypeOK
  <2>1. \A d \in Docs : chunks'[d] = chunks[d] \/ chunks'[d] = NoRows
    BY <1>3, <2>0 DEF DelRows
  <2>2. EmbeddedHasPoint'
    BY <1>t, <2>0, <2>1 DEF SoundInv, EmbeddedHasPoint
  <2>3. ASSUME NEW v \in Uploads PROVE Sound(v)'
    <3>1. CASE work[v].pc = "idle"
      BY <2>0, <3>1 DEF Sound, Storing
    <3>2. CASE work[v].pc # "idle"
      BY <1>t, <2>0, <2>1, <3>2, Busy DEF SoundInv, Sound, Storing
    <3> QED
      BY <3>1, <3>2
  <2>4. ASSUME NEW v \in Uploads, work'[v].swept, Of(v)' \notin together', NEW p \in points',
             p.doc = Of(v)'
        PROVE  p.row = work'[v].row
    <3>1. work[v].swept /\ work[v].pc # "idle" /\ p \in points
      BY <2>0, <2>4 DEF TInv, Carries, Laden
    <3>2. Of(v)' = Of(v) /\ Of(v) \notin together
      BY <1>t, <2>4, <3>1, Busy
    <3> QED
      BY <2>0, <2>4, <3>1, <3>2 DEF SoundInv, NoOrphans
  <2> QED
    BY <2>2, <2>3, <2>4 DEF SoundInv, NoOrphans
<1>4. ASSUME NEW x \in Deletions, DelPoints(x) PROVE SoundInv'
  <2>1. /\ UNCHANGED <<work, chunks>> /\ points' \subseteq points
        /\ \A p \in points \ points' : p.doc = del[x].doc
    BY <1>4 DEF DelPoints, store
  <2>2. doc[del[x].doc] = NoDoc
    BY <1>4 DEF DelPoints, DelAt, MintInv
  <2> QED
    BY <1>2, <2>1, <2>2
<1>5. \/ \E u \in Uploads : Pipeline(u) \/ Fails(u) \/ Stall(u)
      \/ \E x \in Deletions : DelRows(x) \/ DelPoints(x)
      \/ UNCHANGED <<work, chunks, points>>
  BY DEF Next, vars, store, Upload, Find, Put, CommitFirst, CommitAgain, Conflict, CommitGone,
     Enqueue, EnqueueFails, StampUnqueued, ApiCrash, Requeue, Reconcile, ReconcilerCrash,
     Delete, DelRead, DelBlob, DelCrash
<1> QED
  BY <1>1, <1>2, <1>3, <1>4, <1>5, PipelineSound

\* A search finds every chunk that is marked embedded, for any uploads, texts,
\* deletions, slots, tries and faults, of every document two of whose jobs have not
\* been at work at the same time.
THEOREM NoBlackout == Spec => []EmbeddedHasPoint
<1>1. Init => Alone /\ SoundInv
  BY DEF Init, Alone, SoundInv, Sound, Storing, EmbeddedHasPoint, NoOrphans, Resting
<1>2. TInv /\ MintInv /\ Alone /\ SoundInv /\ [Next]_vars => Alone' /\ SoundInv'
  BY AloneStep, SoundStep
<1>3. SoundInv => EmbeddedHasPoint
  BY DEF SoundInv
<1> QED
  BY <1>1, <1>2, <1>3, TInvInit, MintInit, NextTypes, MintStep, PTL DEF Spec

\* A version that has cleaned up leaves no point of an earlier version or attempt
\* of such a document, however many failed before it and whatever jobs of other
\* documents do meanwhile.
THEOREM CleanUp == Spec => []NoOrphans
<1>1. Init => Alone /\ SoundInv
  BY DEF Init, Alone, SoundInv, Sound, Storing, EmbeddedHasPoint, NoOrphans, Resting
<1>2. TInv /\ MintInv /\ Alone /\ SoundInv /\ [Next]_vars => Alone' /\ SoundInv'
  BY AloneStep, SoundStep
<1>3. SoundInv => NoOrphans
  BY DEF SoundInv
<1> QED
  BY <1>1, <1>2, <1>3, TInvInit, MintInit, NextTypes, MintStep, PTL DEF Spec
-----------------------------------------------------------------------------
(* What a job decided is still so when it writes the version.              *)

Bound == {"chunk", "embed", "mark", "clean", "finalize"}
Decided(u) ==
    work[u].pc \in Bound /\ doc[Of(u)] # NoDoc /\ Of(u) \notin together =>
        /\ work[u].ver = doc[Of(u)].ver
        /\ \/ work[u].action = "first" /\ doc[Of(u)].hash = NoText
           \/ work[u].action = "changed" /\ doc[Of(u)].hash \notin {NoText, work[u].text}
DecidedInv == \A u \in Uploads : Decided(u)

\* Nobody else writes the version of a document a job works on, but a deletion.
LEMMA OwnVersion ==
    ASSUME TInv, MintInv, Alone, [Next]_vars, NEW u \in Uploads, work[u].pc # "idle", ~Finalize(u),
           Of(u) \notin together
    PROVE  doc'[Of(u)] \in {doc[Of(u)], NoDoc}
<1>0. doc \in [Docs -> Document \cup {NoDoc}] /\ Of(u) \in Docs /\ Past(Of(u))
  BY Busy DEF TInv, TypeOK, JobsHaveRows, OnlyActive, MintInv
<1>1. ASSUME NEW w \in Uploads, CommitFirst(w) PROVE doc'[Of(u)] = doc[Of(u)]
  <2>1. w # Of(u)
    BY <1>0, <1>1 DEF CommitFirst, ApiAt, Past, PastPCs
  <2> QED
    BY <1>0, <1>1, <2>1 DEF CommitFirst
<1>2. ASSUME NEW w \in Uploads, Finalize(w), ~Gone(w) PROVE doc'[Of(u)] = doc[Of(u)]
  <2>1. Of(w) # Of(u)
    BY <1>2, OthersRest DEF Finalize, At
  <2> QED
    BY <1>0, <1>2, <2>1 DEF Finalize
<1>3. ASSUME NEW x \in Deletions, DelRows(x) PROVE doc'[Of(u)] \in {doc[Of(u)], NoDoc}
  BY <1>0, <1>3 DEF DelRows
<1> QED
  BY <1>1, <1>2, <1>3, DocSteps

LEMMA DecidedStep == ASSUME TInv, MintInv, Alone, DecidedInv, [Next]_vars PROVE DecidedInv'
<1> SUFFICES ASSUME NEW u \in Uploads, work'[u].pc \in Bound, doc'[Of(u)'] # NoDoc,
                    Of(u)' \notin together'
             PROVE  /\ work'[u].ver = doc'[Of(u)'].ver
                    /\ \/ work'[u].action = "first" /\ doc'[Of(u)'].hash = NoText
                       \/ work'[u].action = "changed" /\ doc'[Of(u)'].hash \notin {NoText, work'[u].text}
  BY DEF DecidedInv, Decided
<1>0. work[u] \in WorkState /\ work \in [Uploads -> WorkState] /\ TypeOK /\ OnlyActive /\ Laden(work[u])
  BY DEF TInv, TypeOK, Carries
<1>1. \/ UNCHANGED work[u]
      \/ Pipeline(u)
      \/ (Fails(u) \/ Stall(u)) /\ bull[u].st = "active"
  <2>1. \/ UNCHANGED work
        \/ \E v \in Uploads : Pipeline(v) \/ ((Fails(v) \/ Stall(v)) /\ bull[v].st = "active")
    BY DEF Next, vars, store, Upload, Find, Put, CommitFirst, CommitAgain, Conflict, CommitGone,
       Enqueue, EnqueueFails, StampUnqueued, ApiCrash, Requeue, Reconcile, ReconcilerCrash,
       Delete, DelRead, DelRows, DelPoints, DelBlob, DelCrash, Fails, Stall, Active
  <2> QED
    BY <2>1, WorkSteps
<1>2. \/ work[u].pc \in Bound /\ UNCHANGED <<work[u].ver, work[u].action, work[u].text>> /\ ~Finalize(u)
      \/ Decide(u)
  <2>1. ASSUME Throw(u) \/ Return(u) \/ Stall(u), bull[u].st = "active" PROVE FALSE
    <3>1. work'[u] = Resting
      BY <1>0, <2>1, ThrowTypes, ReturnTypes, StallTypes
    <3> QED
      BY <3>1 DEF Resting, Bound
  <2>2. ASSUME NEW pc \in PCs, To(u, pc)
        PROVE  UNCHANGED <<work[u].ver, work[u].action, work[u].text>> /\ work'[u].pc = pc
    BY <1>0, <2>2, ToTypes
  <2>3. CASE UNCHANGED work[u]
    <3>1. CASE Finalize(u)
      <4>1. Throw(u) \/ work' = [work EXCEPT ![u].pc = "complete"]
        BY <3>1 DEF Finalize, Refuse, To
      <4>2. work[u].pc = "finalize" /\ bull[u].st = "active"
        BY <1>0, <3>1 DEF Finalize, At, OnlyActive
      <4>3. work' # [work EXCEPT ![u].pc = "complete"]
        BY <1>0, <2>3, <4>2 DEF WorkState
      <4> QED
        BY <2>1, <4>1, <4>2, <4>3
    <3> QED
      BY <2>3, <3>1
  <2>4. CASE Pipeline(u)
    <3>0. work[u].pc # "idle" => bull[u].st = "active"
      BY <1>0 DEF OnlyActive
    <3>1. CASE Start(u) \/ CheckSource(u) \/ Purge(u) \/ Finalize(u)
      <4>1. \/ \E pc \in {"source", "fetch", "blocked", "complete"} : To(u, pc)
            \/ Throw(u) /\ work[u].pc # "idle"
        BY <3>1 DEF Start, CheckSource, Purge, Finalize, Refuse, At
      <4> QED
        BY <2>1, <2>2, <3>0, <4>1 DEF PCs, Bound
    <3>2. CASE Fetch(u)
      <4>1. \/ work' = [work EXCEPT ![u].pc = "scan", ![u].text = blob[Of(u)]]
            \/ Throw(u) /\ work[u].pc # "idle"
        BY <3>2 DEF Fetch, Refuse, At
      <4>2. work' # [work EXCEPT ![u].pc = "scan", ![u].text = blob[Of(u)]]
        BY <1>0 DEF WorkState, Bound
      <4> QED
        BY <2>1, <3>0, <4>1, <4>2
    <3>3. CASE EndBlocked(u) \/ Complete(u)
      BY <2>1, <3>0, <3>3 DEF EndBlocked, Complete, At
    <3>4. CASE PersistChunks(u)
      <4>1. \/ work' = [work EXCEPT ![u].pc = "embed", ![u].row = rows + 1]
            \/ Throw(u)
        BY <3>4 DEF PersistChunks, Refuse
      <4>2. work[u].pc = "chunk" /\ ~Finalize(u)
        BY <3>4 DEF PersistChunks, Finalize, At
      <4>3. CASE work' = [work EXCEPT ![u].pc = "embed", ![u].row = rows + 1]
        BY <1>0, <4>2, <4>3 DEF WorkState, Bound
      <4> QED
        BY <2>1, <3>0, <4>1, <4>2, <4>3
    <3>5. CASE Upsert(u) \/ Mark(u) \/ CleanPoints(u)
      <4>1. \/ \E pc \in {"mark", "clean", "finalize"} : To(u, pc)
            \/ work' = [work EXCEPT ![u].pc = "finalize", ![u].swept = TRUE]
            \/ Throw(u)
        BY <3>5 DEF Upsert, Mark, CleanPoints, Refuse
      <4>2. work[u].pc \in {"embed", "mark", "clean"} /\ ~Finalize(u)
        BY <3>5 DEF Upsert, Mark, CleanPoints, Finalize, At
      <4>3. CASE \E pc \in {"mark", "clean", "finalize"} : To(u, pc)
        BY <2>2, <4>2, <4>3 DEF PCs, Bound
      <4>4. CASE work' = [work EXCEPT ![u].pc = "finalize", ![u].swept = TRUE]
        BY <1>0, <4>2, <4>4 DEF WorkState, Bound
      <4> QED
        BY <2>1, <3>0, <4>1, <4>2, <4>3, <4>4
    <3> QED
      BY <2>4, <3>1, <3>2, <3>3, <3>4, <3>5 DEF Pipeline
  <2>5. CASE (Fails(u) \/ Stall(u)) /\ bull[u].st = "active"
    BY <2>1, <2>5 DEF Fails
  <2> QED
    BY <1>1, <2>3, <2>4, <2>5
<1>3. CASE /\ work[u].pc \in Bound /\ ~Finalize(u)
           /\ UNCHANGED <<work[u].ver, work[u].action, work[u].text>>
  <2>1. work[u].pc # "idle"
    BY <1>3 DEF Bound
  <2>2. Of(u)' = Of(u) /\ Of(u) \notin together
    BY <2>1, Busy, TogetherGrows
  <2>3. doc'[Of(u)] = doc[Of(u)] /\ doc[Of(u)] # NoDoc
    BY <1>3, <2>1, <2>2, OwnVersion
  <2> QED
    BY <1>3, <2>2, <2>3 DEF DecidedInv, Decided
<1>4. CASE Decide(u)
  <2>1. work[u].pc = "scan" /\ work[u].text \in Texts /\ UNCHANGED <<doc, ing>>
    BY <1>0, <1>4 DEF Decide, At, store, Laden
  <2>2. Of(u)' = Of(u) /\ doc[Of(u)] # NoDoc
    BY <2>1 DEF Of
  <2> DEFINE act == Action(doc[Of(u)], work[u].text)
             goes == IF act = "unchanged" THEN "complete" ELSE "chunk"
  <2>3. work' = [work EXCEPT ![u].pc = goes, ![u].action = act, ![u].ver = doc[Of(u)].ver]
    BY <1>4, <2>2 DEF Decide, Gone
  <2>4. work'[u].pc = goes /\ work'[u].action = act /\ work'[u].ver = doc[Of(u)].ver
        /\ work'[u].text = work[u].text
    BY <1>0, <2>3 DEF WorkState
  <2>5. act # "unchanged"
    BY <2>4 DEF Bound
  <2>6. \/ act = "first" /\ doc[Of(u)].hash = NoText
        \/ act = "changed" /\ doc[Of(u)].hash \notin {NoText, work[u].text}
    BY <2>5 DEF Action
  <2> QED
    BY <2>1, <2>2, <2>4, <2>6
<1> QED
  BY <1>2, <1>3, <1>4

\* The version of a document two of whose jobs have not been at work at the same time
\* counts its texts, although attempts are repeated after a failure anywhere.
THEOREM VersionsCountTexts == Spec => VersionCounts
<1> DEFINE Counts == \A d \in Docs \ together : doc[d] # NoDoc /\ doc'[d] # NoDoc =>
                        doc'[d].ver = IF doc[d].hash \in {NoText, doc'[d].hash}
                                      THEN doc[d].ver ELSE doc[d].ver + 1
<1>1. Init => Alone /\ DecidedInv
  BY DEF Init, Alone, DecidedInv, Decided, Bound, Resting
<1>2. ASSUME TInv, MintInv, Alone, DecidedInv, [Next]_vars PROVE Counts
  <2> SUFFICES ASSUME NEW d \in Docs \ together, doc[d] # NoDoc, doc'[d] # NoDoc
               PROVE  doc'[d].ver = IF doc[d].hash \in {NoText, doc'[d].hash}
                                    THEN doc[d].ver ELSE doc[d].ver + 1
    OBVIOUS
  <2>1. doc \in [Docs -> Document \cup {NoDoc}]
    BY <1>2 DEF TInv, TypeOK
  <2>2. CASE doc'[d] = doc[d]
    BY <2>2
  <2>3. ASSUME NEW u \in Uploads, CommitFirst(u) PROVE doc'[d] = doc[d]
    BY <2>1, <2>3 DEF CommitFirst, Existing
  <2>4. ASSUME NEW x \in Deletions, DelRows(x) PROVE doc'[d] = doc[d]
    BY <2>1, <2>4 DEF DelRows
  <2>5. ASSUME NEW u \in Uploads, Finalize(u), ~Gone(u), doc'[d] # doc[d]
        PROVE  doc'[d].ver = IF doc[d].hash \in {NoText, doc'[d].hash}
                             THEN doc[d].ver ELSE doc[d].ver + 1
    <3>1. Of(u) = d /\ work[u].pc = "finalize"
      BY <2>1, <2>5 DEF Finalize, At
    <3>2. doc'[d] = [hash |-> work[u].text,
                     ver |-> IF work[u].action = "changed" THEN work[u].ver + 1 ELSE work[u].ver]
      BY <2>1, <2>5, <3>1 DEF Finalize
    <3>3. /\ work[u].ver = doc[d].ver
          /\ \/ work[u].action = "first" /\ doc[d].hash = NoText
             \/ work[u].action = "changed" /\ doc[d].hash \notin {NoText, work[u].text}
      BY <1>2, <3>1 DEF DecidedInv, Decided, Bound
    <3> QED
      BY <3>2, <3>3
  <2> QED
    BY <1>2, <2>2, <2>3, <2>4, <2>5, DocSteps
<1>3. TInv /\ MintInv /\ Alone /\ DecidedInv /\ [Next]_vars => Alone' /\ DecidedInv' /\ [Counts]_vars
  BY <1>2, AloneStep, DecidedStep
<1> QED
  BY <1>1, <1>3, TInvInit, MintInit, NextTypes, MintStep, PTL DEF Spec, VersionCounts
=============================================================================
