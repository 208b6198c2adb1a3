--------------------------- MODULE KnowledgeWrites ---------------------------
(***************************************************************************)
(* The classified write path of the API (saveKnowledge and updateKnowledge *)
(* in apps/api/src/services/knowledge.ts) with what shares its tables: the *)
(* deletion of a memory and the import of archives.                        *)
(*                                                                         *)
(* A handler runs in stages between which every other handler may run:     *)
(* it looks for a receipt of its key (no lock), reads the row it updates   *)
(* (no lock), has the content validated by a model (seconds pass), and     *)
(* then commits one transaction under the owner's advisory lock, which     *)
(* looks for the receipt and the row again.  Transactions are atomic here: *)
(* those of the write path exclude each other by the lock, and the others  *)
(* are fenced from them by row conditions and unique indexes, which are    *)
(* modelled.  The API may crash, or its answer may be lost, at any point.  *)
(*                                                                         *)
(* Left out: authentication and row-level security (one owner), the other  *)
(* fields of a classification (a term stands for its catalog names, a link *)
(* for its memory-target relationships), aliases, quarantined imports, and *)
(* the graph and vector status columns, which MemoryGraph models.          *)
(***************************************************************************)
EXTENDS Naturals, FiniteSets

CONSTANTS
    Clients,      \* concurrent requests being handled
    Keys,         \* idempotency keys
    Memories,     \* record identifiers
    Contents,     \* assertion texts
    Terms,        \* catalog names
    Requests,     \* the requests clients send and retry, chosen by the instance
    LegacyRows,   \* records from before the contract: revision 1, unclassified
    Witnessed,    \* the legacy records whose snapshot the migration may have captured
    LegacyContent,\* what the legacy records say
    Backups,      \* signed archive records of memories this database lacks
    NoRow, NoClass, NoDep, NoMemory, NoContent, NoRequest, Keep

Class == [term : Terms, link : Memories \cup {NoMemory}]

\* A relationship to another memory, bound to the revision the target had when
\* the relationship was first committed (what its author had seen before that is
\* not part of a request).  "said" is the target's text at that commit: it is not
\* stored by the code, and kept here to say what the binding is for.
\* Dependencies read from an archive carry NoContent.
Dep == [target : Memories, rev : Nat \ {0}, said : Contents \cup {NoContent}]

Row == [rev : Nat \ {0}, content : Contents,
        cls : Class \cup {NoClass}, dep : Dep \cup {NoDep}]

\* One row of memory_revision; "by" is the key of the request that wrote it
\* (not stored by the code; NoRequest for snapshots and imports).
Intents == {"create", "correction", "evidence", "legacy_snapshot"}
Revision == [id : Memories, rev : Nat \ {0}, content : Contents,
             cls : Class \cup {NoClass}, intent : Intents,
             by : Keys \cup {NoRequest}]

Link == [id : Memories, rev : Nat \ {0}, target : Memories,
         targetRev : Nat \ {0}, said : Contents \cup {NoContent}]

Request == [op : {"create", "update"}, key : Keys, id : Memories \cup {NoMemory},
            expected : Nat, content : Contents \cup {Keep},
            cls : Class \cup {Keep}, intent : Intents, resolve : BOOLEAN]

\* A receipt: the request a key belongs to and the recorded answer.
Receipt == [req : Requests, id : Memories, rev : Nat \ {0}, content : Contents]
Unused == [req |-> NoRequest]

\* An archive record: the row, its history, the catalog names it needs.
Archive == [id : Memories, row : Row, history : SUBSET Revision,
            catalog : SUBSET Terms]

CreateOK(q) == /\ q.op = "create"
               /\ q.content # Keep /\ q.cls # Keep /\ q.intent = "create"
UpdateOK(q) == /\ q.op = "update" /\ q.id \in Memories /\ q.expected # 0
               /\ q.intent \in {"correction", "evidence"}

ASSUME SentinelAssumption ==
    /\ NoRow \notin Row /\ NoClass \notin Class /\ NoDep \notin Dep
    /\ NoMemory \notin Memories /\ NoContent \notin Contents
    /\ NoRequest \notin Requests /\ NoRequest \notin Keys
    /\ Keep \notin Contents /\ Keep \notin Class

ASSUME RequestAssumption ==
    /\ Requests \subseteq Request
    /\ \A q \in Requests : CreateOK(q) \/ UpdateOK(q)

ASSUME LegacyAssumption ==
    /\ LegacyRows \subseteq Memories /\ Witnessed \subseteq LegacyRows
    /\ LegacyContent \in [LegacyRows -> Contents]

\* What a signature vouches for: the export wrote the record from a database
\* kept by this same write path.
ASSUME BackupAssumption ==
    /\ Backups \subseteq Archive
    /\ \A b \in Backups :
         /\ b.id \notin LegacyRows
         /\ b.row.cls \in Class /\ b.row.cls.term \in b.catalog
         /\ b.row.dep # NoDep => b.row.dep.said = NoContent
         /\ \A v \in b.history : v.id = b.id /\ v.rev <= b.row.rev /\ v.by = NoRequest
         /\ \A r \in 1..b.row.rev : \E v \in b.history : v.rev = r
         /\ \A v, w \in b.history : v.rev = w.rev => v = w
         /\ \A v \in b.history : v.rev = b.row.rev =>
              v.content = b.row.content /\ v.cls = b.row.cls
         /\ \A v \in b.history : v.intent = "evidence" =>
              \E w \in b.history : w.rev + 1 = v.rev /\ w.content = v.content

VARIABLES
    mem,        \* memory: the current row of each record
    hist,       \* memory_revision: append-only, one row per (record, revision)
    links,      \* relationship: derived links between memories
    receipts,   \* memory_write_receipt: append-only, one row per key
    catalog,    \* knowledge_term: append-only
    h,          \* per client, the handler of its request
    told        \* every answer that has reached a client

vars == <<mem, hist, links, receipts, catalog, h, told>>
-----------------------------------------------------------------------------
Idle == [pc |-> "idle", req |-> NoRequest, cand |-> NoContent]

Legacy(m) == [rev |-> 1, content |-> LegacyContent[m], cls |-> NoClass, dep |-> NoDep]

Snapshot(m, row, intent, key) ==
    [id |-> m, rev |-> row.rev, content |-> row.content, cls |-> row.cls,
     intent |-> intent, by |-> key]

Init == /\ mem = [m \in Memories |-> IF m \in LegacyRows THEN Legacy(m) ELSE NoRow]
        /\ \E W \in SUBSET Witnessed :
             hist = {Snapshot(m, Legacy(m), "legacy_snapshot", NoRequest) : m \in W}
        /\ links = {}
        /\ receipts = [k \in Keys |-> Unused]
        /\ catalog = {}
        /\ h = [c \in Clients |-> Idle]
        /\ told = {}

Recorded(m, r) == \E v \in hist : v.id = m /\ v.rev = r

\* randomUUID: an identifier that never named a record anywhere.
Fresh(m) == /\ mem[m] = NoRow /\ m \notin LegacyRows
            /\ \A v \in hist : v.id # m
            /\ \A b \in Backups : b.id # m

\* The row an update by q makes of row p.
Edited(q, p) == [rev |-> p.rev + 1,
                 content |-> IF q.content = Keep THEN p.content ELSE q.content,
                 cls |-> IF q.cls = Keep THEN p.cls ELSE q.cls,
                 dep |-> p.dep]
Created(q) == [rev |-> 1, content |-> q.content, cls |-> q.cls, dep |-> NoDep]

\* persistClaim: what a classified row depends on.  A dependency of the same
\* link already recorded is kept; a new one binds the target's revision now.
Dependency(rows, row) ==
    LET to == row.cls.link IN
    IF to = NoMemory THEN NoDep
    ELSE IF row.dep # NoDep /\ row.dep.target = to THEN row.dep
    ELSE IF rows[to] = NoRow THEN NoDep
    ELSE [target |-> to, rev |-> rows[to].rev, said |-> rows[to].content]

\* The derived link of a row: none unless the target is still at the revision
\* the dependency names.
LinkOf(rows, m, row) ==
    LET d == Dependency(rows, row) IN
    {[id |-> m, rev |-> row.rev, target |-> t, targetRev |-> d.rev, said |-> d.said] :
        t \in {u \in Memories : d # NoDep /\ d.target = u /\ rows[u] # NoRow
                                /\ rows[u].rev = d.rev}}

TargetReadable(rows, row) == row.cls.link # NoMemory => Dependency(rows, row) # NoDep

\* Writing the row of m with its derived evidence, in one transaction.
Project(m, row) ==
    LET rows == [mem EXCEPT ![m] = row] IN
    /\ mem' = [mem EXCEPT ![m] = [row EXCEPT !.dep = Dependency(rows, row)]]
    /\ links' = {l \in links : l.id # m \/ l.rev # row.rev} \cup LinkOf(rows, m, row)

\* Mutant of Writable: no unique index on (memory_id, revision).
WritableTwice(q, m, row) ==
    /\ row.cls # NoClass
    /\ row.cls.term \in catalog \/ q.resolve
    /\ TargetReadable([mem EXCEPT ![m] = row], row)

\* What the write transaction checks of the row it is about to write.
Writable(q, m, row) ==
    /\ row.cls # NoClass
    /\ row.cls.term \in catalog \/ q.resolve
    /\ TargetReadable([mem EXCEPT ![m] = row], row)
    /\ ~ Recorded(m, row.rev)
-----------------------------------------------------------------------------
(* The handler of client c.                                                *)

Stage(c, pc) == h[c].pc = pc
Goto(c, pc) == h' = [h EXCEPT ![c].pc = pc]
Answer(q, m, row) == [req |-> q, id |-> m, rev |-> row.rev, content |-> row.content]
Tell(c, a) == /\ told' = told \cup {a}
              /\ h' = [h EXCEPT ![c] = Idle]

\* A request arrives and its key has no receipt; with a receipt, see Replay.
Begin(c, q) ==
    /\ Stage(c, "idle") /\ receipts[q.key] = Unused
    /\ h' = [h EXCEPT ![c] = IF q.op = "create"
                THEN [pc |-> "validate", req |-> q, cand |-> q.content]
                ELSE [pc |-> "read", req |-> q, cand |-> NoContent]]
    /\ UNCHANGED <<mem, hist, links, receipts, catalog, told>>

\* The key has a receipt: the recorded answer for the same request; for any
\* other request a 409 that changes nothing.
Replay(c, q) ==
    /\ Stage(c, "idle") /\ receipts[q.key].req = q
    /\ Tell(c, receipts[q.key])
    /\ UNCHANGED <<mem, hist, links, receipts, catalog>>

\* updateKnowledge reads the current row outside any lock: 404, 409 or 422 end
\* the request; else the content the update would leave goes to validation.
Readable(q) == /\ mem[q.id] # NoRow
               /\ mem[q.id].rev = q.expected
               /\ Edited(q, mem[q.id]).cls # NoClass
ReadCurrent(c) ==
    /\ Stage(c, "read")
    /\ LET q == h[c].req IN
       h' = [h EXCEPT ![c] = IF Readable(q)
               THEN [pc |-> "validate", req |-> q, cand |-> Edited(q, mem[q.id]).content]
               ELSE Idle]
    /\ UNCHANGED <<mem, hist, links, receipts, catalog, told>>

\* The privacy scan and the model accept the candidate, or refuse it, or are
\* unavailable: either of the last two ends the request.
Validate(c) ==
    /\ Stage(c, "validate")
    /\ \/ Goto(c, "apply")
       \/ h' = [h EXCEPT ![c] = Idle]
    /\ UNCHANGED <<mem, hist, links, receipts, catalog, told>>

\* withReceipt finds, under the lock, that the key was answered meanwhile.
ApplyReplay(c) ==
    /\ Stage(c, "apply") /\ receipts[h[c].req.key].req = h[c].req
    /\ Goto(c, "reply")
    /\ UNCHANGED <<mem, hist, links, receipts, catalog, told>>

\* Mutant of FirstUse: the receipt is not looked for again under the lock.
FirstUseUnchecked(c) == h[c].req # NoRequest

FirstUse(c) == receipts[h[c].req.key] = Unused

\* The rows a write commits: the record, its evidence, the new history rows,
\* the catalog name it resolved and the receipt.
Commit(c, m, row, snapshots) ==
    LET q == h[c].req IN
    /\ Project(m, row)
    /\ hist' = hist \cup snapshots \cup {Snapshot(m, row, q.intent, q.key)}
    /\ catalog' = catalog \cup {row.cls.term}
    /\ receipts' = [receipts EXCEPT ![q.key] = Answer(q, m, row)]
    /\ Goto(c, "reply")
    /\ UNCHANGED told

ApplyCreate(c, m) ==
    /\ Stage(c, "apply") /\ h[c].req.op = "create" /\ FirstUse(c)
    /\ Fresh(m) /\ Writable(h[c].req, m, Created(h[c].req))
    /\ Commit(c, m, Created(h[c].req), {})

\* Mutants: the row that is read again may have moved on; evidence may carry
\* any text.
CurrentUnversioned(q) == mem[q.id] # NoRow
KeepsIntentNever(q) == q.intent \in Intents

\* Mutant of Preserved: the row before the edit is not kept.
PreservedNever(m, p) == {v \in hist : v.id = m /\ v.rev = p.rev}

\* A row from before the contract that history does not have goes there first.
Preserved(m, p) == IF Recorded(m, p.rev) THEN {}
                   ELSE {Snapshot(m, p, "legacy_snapshot", NoRequest)}

\* The row is read again under the lock and must still be at the expected
\* revision; evidence and reclassification may not change the assertion.
Current(q) == mem[q.id] # NoRow /\ mem[q.id].rev = q.expected
KeepsIntent(q) == q.intent = "evidence" => q.content \in {Keep, mem[q.id].content}
Editable(q) == /\ Current(q) /\ KeepsIntent(q)
               /\ Writable(q, q.id, Edited(q, mem[q.id]))
ApplyUpdate(c) ==
    LET q == h[c].req
        p == mem[q.id] IN
    /\ Stage(c, "apply") /\ q.op = "update" /\ FirstUse(c)
    /\ Editable(q)
    /\ Commit(c, q.id, Edited(q, p), Preserved(q.id, p))

\* Every other outcome of the transaction: the key belongs to another request,
\* the row is gone or has moved on, a check fails.  Nothing is written.
Refusable(q) == \/ receipts[q.key] # Unused /\ receipts[q.key].req # q
                \/ /\ receipts[q.key] = Unused
                   /\ IF q.op = "create"
                      THEN \A m \in Memories : ~ Writable(q, m, Created(q))
                      ELSE ~ Editable(q)
ApplyRefused(c) ==
    /\ Stage(c, "apply") /\ Refusable(h[c].req)
    /\ h' = [h EXCEPT ![c] = Idle]
    /\ UNCHANGED <<mem, hist, links, receipts, catalog, told>>

\* The answer arrives.
Reply(c) ==
    /\ Stage(c, "reply")
    /\ Tell(c, receipts[h[c].req.key])
    /\ UNCHANGED <<mem, hist, links, receipts, catalog>>

\* The API process dies or the connection does: the client knows nothing.
Crash(c) ==
    /\ h[c] # Idle
    /\ h' = [h EXCEPT ![c] = Idle]
    /\ UNCHANGED <<mem, hist, links, receipts, catalog, told>>
-----------------------------------------------------------------------------
(* Deletion and import.                                                    *)

\* The row goes; history, receipts and derived evidence have no foreign key to
\* it and stay (nobody may delete from the first two).
DeleteMemory(m) ==
    /\ mem[m] # NoRow
    /\ mem' = [mem EXCEPT ![m] = NoRow]
    /\ UNCHANGED <<hist, links, receipts, catalog, h, told>>

\* A signed record of an absent memory: catalog names, row, evidence and
\* history, or nothing when a history row already exists.
ImportRecord(b) ==
    /\ mem[b.id] = NoRow
    /\ \A v \in b.history : ~ Recorded(b.id, v.rev)
    /\ Project(b.id, b.row)
    /\ hist' = hist \cup b.history
    /\ catalog' = catalog \cup b.catalog
    /\ UNCHANGED <<receipts, h, told>>

\* A format-1 record of an absent memory whose witness snapshot matches: the
\* unclassified row comes back at revision 1.  No history row is written and
\* none is looked at but the witness.
ImportLegacy(m) ==
    /\ mem[m] = NoRow
    /\ \E v \in hist : v.id = m /\ v.intent = "legacy_snapshot"
                       /\ v.content = LegacyContent[m]
    /\ mem' = [mem EXCEPT ![m] = Legacy(m)]
    /\ UNCHANGED <<hist, links, receipts, catalog, h, told>>

Next == \/ \E c \in Clients :
             \/ \E q \in Requests : Begin(c, q) \/ Replay(c, q)
             \/ ReadCurrent(c) \/ Validate(c) \/ ApplyReplay(c)
             \/ \E m \in Memories : ApplyCreate(c, m)
             \/ ApplyUpdate(c) \/ ApplyRefused(c) \/ Reply(c) \/ Crash(c)
        \/ \E m \in Memories : DeleteMemory(m)
        \/ \E b \in Backups : ImportRecord(b)
        \/ \E m \in LegacyRows : ImportLegacy(m)

Spec == Init /\ [][Next]_vars
-----------------------------------------------------------------------------
Handler == [pc : {"idle", "read", "validate", "apply", "reply"},
            req : Requests \cup {NoRequest}, cand : Contents \cup {NoContent}]

\* The type invariant.
TypeOK == /\ mem \in [Memories -> Row \cup {NoRow}]
          /\ hist \subseteq Revision
          /\ links \subseteq Link
          /\ receipts \in [Keys -> Receipt \cup {Unused}]
          /\ catalog \subseteq Terms
          /\ h \in [Clients -> Handler]
          /\ told \subseteq Receipt

\* A client that retries a key, from any process and after any crash or lost
\* answer, is never told two different things: the receipt is looked for again
\* under the lock, in the transaction that writes (withReceipt).
OneAnswerPerKey == \A a, b \in told : a.req.key = b.req.key => a = b

\* A key takes effect at most once: every history row a request wrote is the
\* one its receipt names, and that receipt exists (withReceipt commits both).
EffectOncePerKey ==
    \A v \in hist : v.by # NoRequest =>
        /\ receipts[v.by] # Unused
        /\ receipts[v.by].id = v.id /\ receipts[v.by].rev = v.rev

\* Revision r of m is known to say x: by a row, by history, by an answer, or
\* as a record from before the contract.
Says(m, r, x) ==
    \/ mem[m] # NoRow /\ mem[m].rev = r /\ mem[m].content = x
    \/ \E v \in hist : v.id = m /\ v.rev = r /\ v.content = x
    \/ \E k \in Keys : /\ receipts[k] # Unused
                       /\ receipts[k].id = m /\ receipts[k].rev = r
                       /\ receipts[k].content = x
    \/ m \in LegacyRows /\ r = 1 /\ x = LegacyContent[m]

\* A revision number never stands for two texts, not even across deletion and
\* restoration.  The graph and vector projections rely on it: their keys and
\* their guards name a memory and a revision, never the text.
RevisionSaysOneThing ==
    \A m \in Memories, x, y \in Contents :
        \A r \in {v.rev : v \in hist} \cup {mem[n].rev : n \in {o \in Memories : mem[o] # NoRow}}
                \cup {receipts[k].rev : k \in {i \in Keys : receipts[i] # Unused}} \cup {1} :
            Says(m, r, x) /\ Says(m, r, y) => x = y

\* The revisions endpoint can show how a classified record came to be: every
\* revision up to the current one is in history, and the last is the row.
HistoryComplete ==
    \A m \in Memories : mem[m] # NoRow /\ mem[m].cls # NoClass =>
        /\ \A r \in 1..mem[m].rev : Recorded(m, r)
        /\ \E v \in hist : /\ v.id = m /\ v.rev = mem[m].rev
                           /\ v.content = mem[m].content /\ v.cls = mem[m].cls

\* Additional evidence and reclassification never replace the assertion: the
\* revision they make says what the revision before it said.
EvidenceKeepsContent ==
    \A v \in hist : v.intent = "evidence" =>
        \E w \in hist : w.id = v.id /\ w.rev + 1 = v.rev /\ w.content = v.content

\* Mutant of Shown: the target's revision is not compared.
ShownUnversioned == {l \in links : /\ mem[l.id] # NoRow /\ mem[l.id].rev = l.rev
                                   /\ mem[l.target] # NoRow}

\* What the relationships endpoint shows of m: links of its current revision
\* whose target is at the recorded revision.
Shown == {l \in links : /\ mem[l.id] # NoRow /\ mem[l.id].rev = l.rev
                        /\ mem[l.target] # NoRow /\ mem[l.target].rev = l.targetRev}

\* A relationship is shown only while its target says what it said when the
\* relationship was first committed: corrections and deletion of the target since
\* then invalidate it, and later revisions of its source that keep it do not bind
\* it anew (persistClaim).  A correction before the commit is not noticed by the code.
LinksPinned == \A l \in Shown :
                 l.said # NoContent => mem[l.target].content = l.said

\* The text a write stores is the text its handler had validated, although it
\* is computed again from a row that was read again (updateKnowledge).
Stores(c) == h[c].pc = "apply" /\ h'[c].pc = "reply" /\ receipts' # receipts
ValidatedIsStored ==
    [][\A c \in Clients : Stores(c) =>
          receipts'[h[c].req.key].content = h[c].cand]_vars

\* The next revision of a readable record is free in history, so a well-formed
\* update of the current revision can be accepted.
NextRevisionFree ==
    \A m \in Memories : mem[m] # NoRow => ~ Recorded(m, mem[m].rev + 1)

\* The write path implements what it promises its clients.
Ledger == INSTANCE KnowledgeLedger WITH
    accepted <- receipts,
    log <- {[id |-> v.id, rev |-> v.rev, content |-> v.content] : v \in hist},
    head <- [m \in Memories |-> IF mem[m] = NoRow THEN 0 ELSE mem[m].rev]
LedgerSpec == Ledger!Spec
=============================================================================
