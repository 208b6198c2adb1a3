---------------------------- MODULE DocumentIngest ----------------------------
(***************************************************************************)
(* Uploads of one file name on their way to chunks and vectors.            *)
(*                                                                         *)
(*   - POST /ingest finds the document of that name or mints one, stores   *)
(*     the original, commits the rows of the document and of the job, and  *)
(*     then queues the job (apps/api/src/routes/ingest.ts);                *)
(*   - the worker takes queued jobs and runs the pipeline, step by step,   *)
(*     each step a transaction or a call of its own; a job that throws is  *)
(*     tried again (apps/worker/src/pipeline.ts);                          *)
(*   - the ingest-reconciler queues jobs whose queueing was lost;          *)
(*   - DELETE /documents/:id removes the rows, then points, then blobs.    *)
(*                                                                         *)
(* Every step may fail, the API and the worker may crash between any two,  *)
(* and any number of uploads and deletions interleave.                     *)
(*                                                                         *)
(* Left out: the episode of a document (MemoryGraph has the removals),     *)
(* client-side embedding, size limits, artifacts, a worker that goes on    *)
(* after BullMQ took its job away.                                         *)
(***************************************************************************)
EXTENDS Naturals, FiniteSets

CONSTANTS
    Uploads,    \* requests to upload the file; each makes one job at most
    Texts,      \* what a file can say
    Sensitive,  \* the texts the DLP gate blocks
    TextOf,     \* what each upload may say
    Deletions,  \* requests to delete the document
    Slots,      \* WORKER_CONCURRENCY
    MaxTries,   \* attempts of a job
    MaxFaults,  \* bound: failed calls and crashes
    NoDoc, NoText, NoJob, NoRows

\* A document is named by the upload that minted its identifiers.
Docs == Uploads

Document == [hash : Texts \cup {NoText}, ver : Nat \ {0}]
IngestJob == [doc : Docs, status : {"queued", "processing", "completed", "failed"}]

\* The chunks of one version, which are always replaced together; row stands
\* for their identifiers.
Chunks == [row : Nat \ {0}, text : Texts, embedded : BOOLEAN]
Point == [doc : Docs, row : Nat \ {0}]

ASSUME IngestAssumption ==
    /\ Sensitive \subseteq Texts /\ TextOf \in [Uploads -> SUBSET Texts]
    /\ Slots \in Nat \ {0} /\ MaxTries \in Nat \ {0} /\ MaxFaults \in Nat
    /\ NoDoc \notin Document /\ NoText \notin Texts
    /\ NoJob \notin IngestJob /\ NoRows \notin Chunks

VARIABLES
    doc,     \* document (with its source), by identifier
    ing,     \* ingest_job, by the upload that made it
    chunks,  \* chunk: the rows of each document
    rows,    \* the row identifiers given so far
    blob,    \* MinIO: the original under the key of each document
    points,  \* Qdrant
    bull,    \* BullMQ: the queued job of each ingest_job
    api,     \* the handlers of the uploads
    work,    \* the pipeline of each job that is being worked on
    del,     \* the handlers of the deletions
    lost,    \* the jobs a run of the reconciler found and has still to queue
    faults,
    together \* history variable: the documents two of whose jobs have ever been
             \* at work at the same time (the code keeps no such record)

vars == <<doc, ing, chunks, rows, blob, points, bull, api, work, del, lost, faults,
          together>>
store == <<doc, ing, chunks, rows>>
-----------------------------------------------------------------------------
Resting == [pc |-> "idle", text |-> NoText, action |-> "first", ver |-> 1,
            row |-> 0, swept |-> FALSE]

Init == /\ doc = [d \in Docs |-> NoDoc] /\ ing = [u \in Uploads |-> NoJob]
        /\ chunks = [d \in Docs |-> NoRows] /\ rows = 0
        /\ blob = [d \in Docs |-> NoText] /\ points = {}
        /\ bull = [u \in Uploads |-> [st |-> "none", tries |-> 0, stalls |-> 0]]
        /\ api = [u \in Uploads |-> [pc |-> "new", doc |-> u]]
        /\ work = [u \in Uploads |-> Resting]
        /\ del = [x \in Deletions |-> [pc |-> "new", doc |-> NoDoc]]
        /\ lost = {} /\ faults = 0 /\ together = {}

Fault == faults < MaxFaults /\ faults' = faults + 1
Existing == {d \in Docs : doc[d] # NoDoc}
-----------------------------------------------------------------------------
(* POST /ingest.                                                           *)

ApiAt(u, pc) == api[u].pc = pc
ApiTo(u, pc) == api' = [api EXCEPT ![u].pc = pc]

\* The document of that name, or a new one (there is never more than one).
Find(u) ==
    /\ ApiAt(u, "new")
    /\ \E d \in IF Existing = {} THEN {u} ELSE Existing :
         api' = [api EXCEPT ![u] = [pc |-> "put", doc |-> d]]
    /\ UNCHANGED <<store, blob, points, bull, work, del, lost, together, faults>>

\* The original is stored before any row says so, over the one before it.
Put(u) ==
    /\ ApiAt(u, "put") /\ ApiTo(u, "rows")
    /\ \E t \in TextOf[u] : blob' = [blob EXCEPT ![api[u].doc] = t]
    /\ UNCHANGED <<store, points, bull, work, del, lost, together, faults>>

NewJob(u) == ing' = [ing EXCEPT ![u] = [doc |-> api[u].doc, status |-> "queued"]]

CommitFirst(u) ==
    /\ ApiAt(u, "rows") /\ api[u].doc = u /\ Existing = {}
    /\ doc' = [doc EXCEPT ![u] = [hash |-> NoText, ver |-> 1]]
    /\ NewJob(u) /\ ApiTo(u, "enqueue")
    /\ UNCHANGED <<chunks, rows, blob, points, bull, work, del, lost, together, faults>>
CommitAgain(u) ==
    /\ ApiAt(u, "rows") /\ api[u].doc # u /\ doc[api[u].doc] # NoDoc
    /\ NewJob(u) /\ ApiTo(u, "enqueue")
    /\ UNCHANGED <<doc, chunks, rows, blob, points, bull, work, del, lost, together, faults>>

\* Mutant of LoserKey: the conflict cleans up after the document that won.
LoserKeyShared(u) == CHOOSE d \in Existing : TRUE

\* What the loser of a race of first uploads removes: its own original.
LoserKey(u) == api[u].doc
Conflict(u) ==
    /\ ApiAt(u, "rows") /\ api[u].doc = u /\ Existing # {}
    /\ blob' = [blob EXCEPT ![LoserKey(u)] = NoText]
    /\ ApiTo(u, "end")
    /\ UNCHANGED <<store, points, bull, work, del, lost, together, faults>>

\* The document was deleted meanwhile: the update of its title throws.
CommitGone(u) ==
    /\ ApiAt(u, "rows") /\ api[u].doc # u /\ doc[api[u].doc] = NoDoc
    /\ ApiTo(u, "end")
    /\ UNCHANGED <<store, blob, points, bull, work, del, lost, together, faults>>

\* The queue collapses jobs of the same identifier, whatever became of them.
Queued(u) == [bull EXCEPT ![u].st = IF @ = "none" THEN "waiting" ELSE @]
Enqueue(u) ==
    /\ ApiAt(u, "enqueue") /\ ApiTo(u, "end")
    /\ bull' = Queued(u)
    /\ UNCHANGED <<store, blob, points, work, del, lost, together, faults>>

\* The queue is not reached, or its answer is not; the row is stamped failed.
EnqueueFails(u) ==
    /\ ApiAt(u, "enqueue") /\ ApiTo(u, "stamp") /\ Fault
    /\ bull' \in {bull, Queued(u)}
    /\ UNCHANGED <<store, blob, points, work, del, lost, together>>
StampUnqueued(u) ==
    /\ ApiAt(u, "stamp") /\ ApiTo(u, "end")
    /\ ing' = [ing EXCEPT ![u].status = "failed"]
    /\ UNCHANGED <<doc, chunks, rows, blob, points, bull, work, del, lost, together, faults>>

\* A call fails, or the process dies.
ApiCrash(u) ==
    /\ api[u].pc \in {"put", "rows", "enqueue", "stamp"} /\ ApiTo(u, "end") /\ Fault
    /\ UNCHANGED <<store, blob, points, bull, work, del, lost, together>>
-----------------------------------------------------------------------------
(* The pipeline.                                                           *)

At(u, pc) == work[u].pc = pc
Of(u) == ing[u].doc
Gone(u) == doc[Of(u)] = NoDoc
Active == {u \in Uploads : bull[u].st = "active"}

To(u, pc) == work' = [work EXCEPT ![u].pc = pc]
Status(u, s) == ing' = [ing EXCEPT ![u].status = s]

\* The processor returns, and the job is done with.
Return(u) == /\ bull' = [bull EXCEPT ![u].st = "done"]
             /\ work' = [work EXCEPT ![u] = Resting]

\* The processor throws: BullMQ tries again, up to MaxTries times.
Again(u) == bull[u].tries + 1 < MaxTries
Throw(u) ==
    /\ work' = [work EXCEPT ![u] = Resting]
    /\ bull' = [bull EXCEPT ![u].tries = @ + 1,
                            ![u].st = IF Again(u) THEN "waiting" ELSE "failed"]

\* A step that meets what it cannot work with.
Refuse(u) == /\ Status(u, "failed") /\ Throw(u)
             /\ UNCHANGED <<doc, chunks, rows, blob, points, api, del, lost, together, faults>>

Start(u) ==
    /\ bull[u].st = "waiting" /\ Cardinality(Active) < Slots
    /\ bull' = [bull EXCEPT ![u].st = "active"]
    /\ To(u, "source")
    /\ together' = together \cup {Of(v) : v \in {w \in Active : Of(w) = Of(u)}}
    /\ UNCHANGED <<store, blob, points, api, del, lost, faults>>

CheckSource(u) ==
    /\ At(u, "source")
    /\ \/ Gone(u) /\ Refuse(u)
       \/ /\ ~Gone(u) /\ Status(u, "processing") /\ To(u, "fetch")
          /\ UNCHANGED <<doc, chunks, rows, blob, points, bull, api, del, lost, together, faults>>

\* The original as it is by now, whichever upload put it there.
Fetch(u) ==
    /\ At(u, "fetch")
    /\ \/ blob[Of(u)] = NoText /\ Refuse(u)
       \/ /\ blob[Of(u)] # NoText
          /\ work' = [work EXCEPT ![u].pc = "scan", ![u].text = blob[Of(u)]]
          /\ UNCHANGED <<store, blob, points, bull, api, del, lost, together, faults>>

\* The DLP gate blocks, as it does when its scanner fails: the original is
\* purged, perhaps in vain, and the job ends without another attempt.
Purge(u) ==
    /\ At(u, "scan") /\ To(u, "blocked")
    /\ \/ /\ work[u].text \in Sensitive
          /\ \/ blob' = [blob EXCEPT ![Of(u)] = NoText] /\ UNCHANGED faults
             \/ Fault /\ UNCHANGED blob
       \/ /\ work[u].text \notin Sensitive /\ Fault
          /\ blob' = [blob EXCEPT ![Of(u)] = NoText]
    /\ UNCHANGED <<store, points, bull, api, del, lost, together>>
EndBlocked(u) ==
    /\ At(u, "blocked") /\ Status(u, "failed") /\ Return(u)
    /\ UNCHANGED <<doc, chunks, rows, blob, points, api, del, lost, together, faults>>

\* Mutant of Action: a text that is known is ingested again.
ActionAlways(prior, text) == IF prior.hash = NoText THEN "first" ELSE "changed"

\* decideIngestAction
Action(prior, text) == IF prior.hash = NoText THEN "first"
                       ELSE IF prior.hash = text THEN "unchanged" ELSE "changed"

Decide(u) ==
    /\ At(u, "scan") /\ work[u].text \notin Sensitive
    /\ LET prior == IF Gone(u) THEN [hash |-> NoText, ver |-> 1] ELSE doc[Of(u)]
           action == Action(prior, work[u].text) IN
       work' = [work EXCEPT ![u].pc = IF action = "unchanged" THEN "complete" ELSE "chunk",
                            ![u].action = action, ![u].ver = prior.ver]
    /\ UNCHANGED <<store, blob, points, bull, api, del, lost, together, faults>>

\* persistChunks: the rows of the document are replaced by new ones, which need
\* the document.
PersistChunks(u) ==
    /\ At(u, "chunk")
    /\ \/ Gone(u) /\ Refuse(u)
       \/ /\ ~Gone(u)
          /\ rows' = rows + 1
          /\ chunks' = [chunks EXCEPT ![Of(u)] =
                          [row |-> rows + 1, text |-> work[u].text, embedded |-> FALSE]]
          /\ work' = [work EXCEPT ![u].pc = "embed", ![u].row = rows + 1]
          /\ UNCHANGED <<doc, ing, blob, points, bull, api, del, lost, together, faults>>

\* embedAndUpsert: vectors first, then the status of their rows.
Upsert(u) ==
    /\ At(u, "embed") /\ To(u, "mark")
    /\ points' = points \cup {[doc |-> Of(u), row |-> work[u].row]}
    /\ UNCHANGED <<store, blob, bull, api, del, lost, together, faults>>
Mark(u) ==
    /\ At(u, "mark")
    /\ LET own == chunks[Of(u)] # NoRows /\ chunks[Of(u)].row = work[u].row IN
       \/ ~own /\ Refuse(u)
       \/ /\ own
          /\ chunks' = [chunks EXCEPT ![Of(u)].embedded = TRUE]
          /\ To(u, IF work[u].action = "changed" THEN "clean" ELSE "finalize")
          /\ UNCHANGED <<doc, ing, rows, blob, points, bull, api, del, lost, together, faults>>

\* Mutants of Stale: the points of later rows only, all points.
StaleNewer(u) == {p \in points : p.doc = Of(u) /\ p.row > work[u].row}
StaleAll(u) == {p \in points : p.doc = Of(u)}

\* Every point of the document but those just written.
Stale(u) == {p \in points : p.doc = Of(u) /\ p.row # work[u].row}
CleanPoints(u) ==
    /\ At(u, "clean")
    /\ \/ /\ points' = points \ Stale(u)
          /\ work' = [work EXCEPT ![u].pc = "finalize", ![u].swept = TRUE]
          /\ UNCHANGED faults
       \/ Fault /\ To(u, "finalize") /\ UNCHANGED points
    /\ UNCHANGED <<store, blob, bull, api, del, lost, together>>

\* finalizeDocumentVersion
Finalize(u) ==
    /\ At(u, "finalize")
    /\ \/ Gone(u) /\ Refuse(u)
       \/ /\ ~Gone(u) /\ To(u, "complete")
          /\ doc' = [doc EXCEPT ![Of(u)] =
                [hash |-> work[u].text,
                 ver |-> IF work[u].action = "changed" THEN work[u].ver + 1 ELSE work[u].ver]]
          /\ UNCHANGED <<ing, chunks, rows, blob, points, bull, api, del, lost, together, faults>>
Complete(u) ==
    /\ At(u, "complete") /\ Status(u, "completed") /\ Return(u)
    /\ UNCHANGED <<doc, chunks, rows, blob, points, api, del, lost, together, faults>>

\* A call of the pipeline fails that is not forgiven; so may the statement that
\* records it.
Fails(u) ==
    /\ u \in Active /\ ~At(u, "clean") /\ Throw(u) /\ Fault
    /\ UNCHANGED ing \/ Status(u, "failed")
    /\ UNCHANGED <<doc, chunks, rows, blob, points, api, del, lost, together>>

\* The worker dies.  BullMQ gives a stalled job to the next worker once, and
\* then up, without the pipeline's handler.
Stall(u) ==
    /\ u \in Active /\ Fault
    /\ work' = [work EXCEPT ![u] = Resting]
    /\ bull' = [bull EXCEPT ![u].stalls = @ + 1,
                            ![u].st = IF @ = "active" /\ bull[u].stalls = 0
                                      THEN "waiting" ELSE "failed"]
    /\ UNCHANGED <<store, blob, points, api, del, lost, together>>
-----------------------------------------------------------------------------
(* The reconciler and the deletion.                                        *)

\* Mutant of Unqueued: the rows the API stamped failed, not those it left queued.
UnqueuedNew == {u \in Uploads : ing[u] # NoJob /\ ing[u].status = "failed" /\ ~Gone(u)}

\* Rows that say queued and whose job can be made again from its document.
Unqueued == {u \in Uploads : ing[u] # NoJob /\ ing[u].status = "queued" /\ ~Gone(u)}
Reconcile ==
    /\ lost = {} /\ Unqueued # {}
    /\ lost' = Unqueued
    /\ UNCHANGED <<store, blob, points, bull, api, work, del, faults, together>>
Requeue(u) ==
    /\ u \in lost
    /\ lost' = lost \ {u}
    /\ bull' = Queued(u)
    /\ UNCHANGED <<store, blob, points, api, work, del, faults, together>>
ReconcilerCrash ==
    /\ lost # {} /\ lost' = {} /\ Fault
    /\ UNCHANGED <<store, blob, points, bull, api, work, del, together>>

DelAt(x, pc) == del[x].pc = pc
DelTo(x, pc) == del' = [del EXCEPT ![x].pc = pc]

DelRead(x) ==
    /\ DelAt(x, "new")
    /\ \E d \in Existing : del' = [del EXCEPT ![x] = [pc |-> "rows", doc |-> d]]
    /\ UNCHANGED <<store, blob, points, bull, api, work, lost, together, faults>>

\* The source goes, and by cascade the document and its chunks.
DelRows(x) ==
    /\ DelAt(x, "rows")
    /\ DelTo(x, IF doc[del[x].doc] = NoDoc THEN "end" ELSE "points")
    /\ doc' = [doc EXCEPT ![del[x].doc] = NoDoc]
    /\ chunks' = [chunks EXCEPT ![del[x].doc] = NoRows]
    /\ UNCHANGED <<ing, rows, blob, points, bull, api, work, lost, together, faults>>
DelPoints(x) ==
    /\ DelAt(x, "points") /\ DelTo(x, "blob")
    /\ \/ points' = {p \in points : p.doc # del[x].doc} /\ UNCHANGED faults
       \/ Fault /\ UNCHANGED points
    /\ UNCHANGED <<store, blob, bull, api, work, lost, together>>
DelBlob(x) ==
    /\ DelAt(x, "blob") /\ DelTo(x, "end")
    /\ blob' = [blob EXCEPT ![del[x].doc] = NoText]
    /\ UNCHANGED <<store, points, bull, api, work, lost, together, faults>>

\* A blob that is not removed, or a process that dies on the way.
DelCrash(x) ==
    /\ del[x].pc \in {"rows", "points", "blob"} /\ DelTo(x, "end") /\ Fault
    /\ UNCHANGED <<store, blob, points, bull, api, work, lost, together>>
-----------------------------------------------------------------------------
Upload(u) == \/ Find(u) \/ Put(u) \/ CommitFirst(u) \/ CommitAgain(u) \/ Conflict(u)
             \/ CommitGone(u) \/ Enqueue(u) \/ EnqueueFails(u) \/ StampUnqueued(u)
             \/ ApiCrash(u)

Pipeline(u) == \/ Start(u) \/ CheckSource(u) \/ Fetch(u) \/ Purge(u) \/ EndBlocked(u)
               \/ Decide(u) \/ PersistChunks(u) \/ Upsert(u) \/ Mark(u)
               \/ CleanPoints(u) \/ Finalize(u) \/ Complete(u)

Delete(x) == DelRead(x) \/ DelRows(x) \/ DelPoints(x) \/ DelBlob(x) \/ DelCrash(x)

Next == \/ \E u \in Uploads : Upload(u) \/ Pipeline(u) \/ Fails(u) \/ Stall(u) \/ Requeue(u)
        \/ Reconcile \/ ReconcilerCrash
        \/ \E x \in Deletions : Delete(x)

Spec == Init /\ [][Next]_vars

\* Workers take jobs and go on with them, and the reconciler runs on its
\* schedule; no request is obliged to arrive or to be finished.
FairSpec == /\ Spec
            /\ \A u \in Uploads : WF_vars(Pipeline(u)) /\ WF_vars(Requeue(u))
            /\ WF_vars(Reconcile)
-----------------------------------------------------------------------------
ApiState == [pc : {"new", "put", "rows", "enqueue", "stamp", "end"}, doc : Docs]
BullState == [st : {"none", "waiting", "active", "done", "failed"},
              tries : 0..MaxTries, stalls : 0..2]
WorkState == [pc : {"idle", "source", "fetch", "scan", "blocked", "chunk", "embed",
                    "mark", "clean", "finalize", "complete"},
              text : Texts \cup {NoText}, action : {"first", "unchanged", "changed"},
              ver : Nat \ {0}, row : Nat, swept : BOOLEAN]
DelState == [pc : {"new", "rows", "points", "blob", "end"}, doc : Docs \cup {NoDoc}]

\* The type invariant.
TypeOK ==
    /\ doc \in [Docs -> Document \cup {NoDoc}] /\ ing \in [Uploads -> IngestJob \cup {NoJob}]
    /\ chunks \in [Docs -> Chunks \cup {NoRows}] /\ rows \in Nat
    /\ blob \in [Docs -> Texts \cup {NoText}] /\ points \subseteq Point
    /\ bull \in [Uploads -> BullState] /\ api \in [Uploads -> ApiState]
    /\ work \in [Uploads -> WorkState] /\ del \in [Deletions -> DelState]
    /\ lost \subseteq Uploads /\ faults \in 0..MaxFaults /\ together \subseteq Docs

\* Semantic search finds every chunk that is marked embedded, whatever earlier
\* attempts, uploads, clean-ups and jobs of other documents did: its point is
\* there ("no search blackout").  For documents no two of whose jobs have been at
\* work at the same time; of two that are, the older drops what the younger wrote.
EmbeddedHasPoint ==
    \A d \in Docs \ together : chunks[d] # NoRows /\ chunks[d].embedded =>
        [doc |-> d, row |-> chunks[d].row] \in points

\* "A failed-then-retried re-ingest leaves no orphans": once a new version has
\* cleaned up, no point of any earlier version or attempt is left, again while
\* the jobs of the document have been at work one after the other.
NoOrphans ==
    \A u \in Uploads : work[u].swept /\ Of(u) \notin together =>
        \A p \in points : p.doc = Of(u) => p.row = work[u].row

\* "A failed ingest must re-process on retry, not be skipped": search has the text
\* of the version stamp, unless a job of the document is under way or has failed.
SearchIsStamped ==
    \A d \in Docs : doc[d] # NoDoc /\ chunks[d] # NoRows /\ chunks[d].text # doc[d].hash =>
        \E u \in Uploads : /\ ing[u] # NoJob /\ Of(u) = d
                           /\ \/ bull[u].st \in {"waiting", "active", "failed"}
                              \/ ing[u].status = "failed"

\* The version counts the texts a document has had: it moves by one with every
\* change of the content, and only then, although jobs are repeated after a
\* crash between their last writes.  Two jobs of one document at work at the same
\* time may read the same version, so this is about jobs one after the other.
VersionCounts ==
    [][\A d \in Docs \ together : doc[d] # NoDoc /\ doc'[d] # NoDoc =>
          doc'[d].ver = IF doc[d].hash \in {NoText, doc'[d].hash}
                        THEN doc[d].ver ELSE doc[d].ver + 1]_vars

\* The original of a document is never lost to a race: it goes with its document
\* or is purged by the gate, which a scanner that fails closes too.
OriginalKept ==
    [][\A d \in Docs : doc'[d] # NoDoc /\ blob[d] # NoText /\ blob'[d] = NoText =>
          \E u \in Uploads : At(u, "scan") /\ Of(u) = d]_vars

\* Nobody waits for a job for ever: unless its document goes, or BullMQ gave up
\* (a worker died on it twice, or its failure could not be recorded), a job ends
\* completed or failed, wherever the API died between the row and the queue.
\* (A row of a job never goes, so this is said of all rows at once.)
Ended(u) == /\ ing[u] # NoJob
            /\ ing[u].status \in {"completed", "failed"} \/ Gone(u) \/ bull[u].st = "failed"
JobEnds == <>[](\A u \in Uploads : ing[u] # NoJob => Ended(u))
=============================================================================
