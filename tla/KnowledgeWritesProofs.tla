------------------------ MODULE KnowledgeWritesProofs ------------------------
(***************************************************************************)
(* What KnowledgeWrites guarantees for every number of handlers, requests, *)
(* records and archives.  The first part is about the rows a write builds, *)
(* the second is the type invariant, the third the inductive invariant:    *)
(* history has one row per revision, and rows, receipts and answers only   *)
(* ever repeat what history says.                                          *)
(***************************************************************************)
EXTENDS KnowledgeWrites, TLAPS

Rows == [Memories -> Row \cup {NoRow}]

-----------------------------------------------------------------------------
(* The rows a write builds.                                                *)

\* What a row depends on is a dependency on one of the stored rows, or none.
LEMMA DependencyType ==
    ASSUME NEW rows \in Rows, NEW row \in Row, row.cls \in Class
    PROVE  Dependency(rows, row) \in Dep \cup {NoDep}
<1>1. CASE row.cls.link = NoMemory
  BY <1>1 DEF Dependency
<1>2. CASE row.cls.link # NoMemory /\ row.dep # NoDep /\ row.dep.target = row.cls.link
  BY <1>2 DEF Dependency, Row
<1>3. CASE row.cls.link # NoMemory /\ ~(row.dep # NoDep /\ row.dep.target = row.cls.link)
  <2>1. row.cls.link \in Memories
    BY <1>3 DEF Class
  <2>2. rows[row.cls.link] # NoRow => rows[row.cls.link] \in Row
    BY <2>1 DEF Rows
  <2>. QED
    BY <1>3, <2>1, <2>2 DEF Dependency, Dep, Row
<1>. QED
  BY <1>1, <1>2, <1>3

\* The derived links of a row are links of that record at that revision.
LEMMA LinkOfType ==
    ASSUME NEW rows \in Rows, NEW row \in Row, row.cls \in Class, NEW m \in Memories
    PROVE  LinkOf(rows, m, row) \subseteq Link
<1>1. Dependency(rows, row) \in Dep \cup {NoDep}
  BY DependencyType
<1>2. ASSUME Dependency(rows, row) \in Dep
      PROVE  LinkOf(rows, m, row) \subseteq Link
  BY <1>2 DEF LinkOf, Link, Dep, Row
<1>3. ASSUME Dependency(rows, row) = NoDep
      PROVE  LinkOf(rows, m, row) \subseteq Link
  BY <1>3 DEF LinkOf
<1>. QED
  BY <1>1, <1>2, <1>3

\* Writing a row changes that record only, and the row only in what it depends on.
LEMMA ProjectEffect ==
    ASSUME TypeOK, NEW m \in Memories, NEW row \in Row, row.cls \in Class,
           Project(m, row)
    PROVE  /\ mem' \in Rows
           /\ links' \subseteq Link
           /\ \A n \in Memories : n # m => mem'[n] = mem[n]
           /\ mem'[m] \in Row
           /\ mem'[m].rev = row.rev /\ mem'[m].content = row.content
           /\ mem'[m].cls = row.cls
<1> DEFINE rows == [mem EXCEPT ![m] = row]
           d == Dependency(rows, row)
<1>1. mem \in Rows
  BY DEF TypeOK, Rows
<1>2. rows \in Rows
  BY <1>1 DEF Rows
<1>3. d \in Dep \cup {NoDep}
  BY <1>2, DependencyType
<1>4. [row EXCEPT !.dep = d] \in Row
  BY <1>3 DEF Row
<1>5. LinkOf(rows, m, row) \subseteq Link
  BY <1>2, LinkOfType
<1>6. mem' = [mem EXCEPT ![m] = [row EXCEPT !.dep = d]]
  BY DEF Project
<1>7. links' \subseteq Link
  BY <1>5 DEF Project, TypeOK
<1>8. mem' \in Rows /\ mem'[m] = [row EXCEPT !.dep = d]
  BY <1>1, <1>4, <1>6 DEF Rows
<1>9. \A n \in Memories : n # m => mem'[n] = mem[n]
  BY <1>1, <1>6 DEF Rows
<1>. QED
  BY <1>4, <1>7, <1>8, <1>9 DEF Row

\* The row an acceptable update makes of a stored row is a row.
LEMMA EditedType ==
    ASSUME NEW q \in Requests, q.op = "update", NEW p \in Row
    PROVE  /\ Edited(q, p) \in Row
           /\ Edited(q, p).rev = p.rev + 1
           /\ Edited(q, p).content = IF q.content = Keep THEN p.content ELSE q.content
<1>1. q \in Request
  BY RequestAssumption
<1>. QED
  BY <1>1 DEF Edited, Request, Row

LEMMA CreatedType ==
    ASSUME NEW q \in Requests, q.op = "create"
    PROVE  /\ Created(q) \in Row /\ Created(q).rev = 1
           /\ Created(q).content = q.content /\ Created(q).cls \in Class
<1>1. q \in Request /\ CreateOK(q)
  BY RequestAssumption DEF CreateOK, UpdateOK
<1>. QED
  BY <1>1 DEF Created, CreateOK, Request, Row

\* A snapshot of a row is a history row.
LEMMA SnapshotType ==
    ASSUME NEW m \in Memories, NEW row \in Row, NEW i \in Intents,
           NEW k \in Keys \cup {NoRequest}
    PROVE  /\ Snapshot(m, row, i, k) \in Revision
           /\ Snapshot(m, row, i, k).id = m
           /\ Snapshot(m, row, i, k).rev = row.rev
           /\ Snapshot(m, row, i, k).content = row.content
           /\ Snapshot(m, row, i, k).cls = row.cls
           /\ Snapshot(m, row, i, k).by = k
BY DEF Snapshot, Revision, Row

LEMMA LegacyType ==
    ASSUME NEW m \in LegacyRows
    PROVE  /\ m \in Memories /\ Legacy(m) \in Row /\ Legacy(m).rev = 1
           /\ Legacy(m).content = LegacyContent[m] /\ Legacy(m).cls = NoClass
BY LegacyAssumption DEF Legacy, Row
-----------------------------------------------------------------------------
(* The type invariant.                                                     *)

LEMMA InitType == Init => TypeOK
<1> SUFFICES ASSUME Init PROVE TypeOK
  OBVIOUS
<1>1. mem \in [Memories -> Row \cup {NoRow}]
  BY LegacyType DEF Init
<1>2. hist \subseteq Revision
  BY LegacyType, LegacyAssumption, SnapshotType DEF Init, Intents
<1>3. h \in [Clients -> Handler]
  BY DEF Init, Idle, Handler
<1>. QED
  BY <1>1, <1>2, <1>3 DEF Init, TypeOK

\* A commit writes rows of the right types, whatever row it writes.
LEMMA CommitType ==
    ASSUME TypeOK, NEW c \in Clients, NEW m \in Memories, NEW row \in Row,
           NEW snaps \in SUBSET Revision, row.cls \in Class,
           h[c].req \in Requests, Commit(c, m, row, snaps)
    PROVE  TypeOK'
<1> DEFINE q == h[c].req
<1>1. q \in Request /\ q.intent \in Intents /\ q.key \in Keys
  BY RequestAssumption DEF Request
<1>2. mem' \in [Memories -> Row \cup {NoRow}] /\ links' \subseteq Link
  BY ProjectEffect DEF Commit, Rows
<1>3. Snapshot(m, row, q.intent, q.key) \in Revision
  BY <1>1, SnapshotType
<1>4. hist' \subseteq Revision
  BY <1>3 DEF Commit, TypeOK
<1>5. row.cls.term \in Terms
  BY DEF Class
<1>6. catalog' \subseteq Terms
  BY <1>5 DEF Commit, TypeOK
<1>7. Answer(q, m, row) \in Receipt
  BY DEF Answer, Receipt, Row
<1>8. receipts' \in [Keys -> Receipt \cup {Unused}]
  BY <1>1, <1>7 DEF Commit, TypeOK
<1>9. h' \in [Clients -> Handler]
  BY DEF Commit, Goto, TypeOK, Handler
<1>10. told' \subseteq Receipt
  BY DEF Commit, TypeOK
<1>. QED
  BY <1>2, <1>4, <1>6, <1>8, <1>9, <1>10 DEF TypeOK

\* A handler past "idle" holds a request, reads a row only for an update, and
\* replies only when the receipt of its request is there.
Busy == \A c \in Clients :
          h[c].pc # "idle" => /\ h[c].req \in Requests
                              /\ h[c].pc = "read" => h[c].req.op = "update"
                              /\ h[c].pc = "reply" => receipts[h[c].req.key].req = h[c].req

LEMMA TellType ==
    ASSUME TypeOK, NEW c \in Clients, NEW a \in Receipt, Tell(c, a),
           UNCHANGED <<mem, hist, links, receipts, catalog>>
    PROVE  TypeOK'
<1>1. told' \subseteq Receipt
  BY DEF Tell, TypeOK
<1>2. h' \in [Clients -> Handler]
  BY DEF Tell, TypeOK, Idle, Handler
<1>. QED
  BY <1>1, <1>2 DEF TypeOK

LEMMA HandlerStepType ==
    ASSUME TypeOK, h' \in [Clients -> Handler],
           UNCHANGED <<mem, hist, links, receipts, catalog, told>>
    PROVE  TypeOK'
BY DEF TypeOK

LEMMA BusyInit == Init => Busy
BY DEF Init, Busy, Idle

\* A commit uses a key that had no receipt, so it disturbs no other reply.
LEMMA CommitBusy ==
    ASSUME TypeOK, Busy, NEW c \in Clients, h[c].pc = "apply", FirstUse(c),
           NEW m \in Memories, NEW row, NEW snaps, Commit(c, m, row, snaps)
    PROVE  Busy'
<1> DEFINE q == h[c].req
<1>1. q \in Requests /\ q.key \in Keys
  BY RequestAssumption DEF Busy, Request
<1>2. receipts' = [receipts EXCEPT ![q.key] = Answer(q, m, row)]
      /\ h' = [h EXCEPT ![c].pc = "reply"]
  BY DEF Commit, Goto
<1>3. ASSUME NEW e \in Clients, h'[e].pc # "idle"
      PROVE  /\ h'[e].req \in Requests
             /\ h'[e].pc = "read" => h'[e].req.op = "update"
             /\ h'[e].pc = "reply" => receipts'[h'[e].req.key].req = h'[e].req
  <2>1. CASE e = c
    BY <2>1, <1>1, <1>2 DEF TypeOK, Handler, Answer
  <2>2. CASE e # c
    <3>1. h'[e] = h[e]
      BY <2>2, <1>2 DEF TypeOK
    <3>2. h[e].req \in Requests /\ h[e].req.key \in Keys
      BY <3>1, <1>3, RequestAssumption DEF Busy, Request
    <3>3. h[e].pc = "reply" => h[e].req.key # q.key
      BY <3>2, SentinelAssumption DEF FirstUse, Unused, Busy
    <3>. QED
      BY <3>1, <3>2, <3>3, <1>2, <1>3 DEF Busy, TypeOK
  <2>. QED
    BY <2>1, <2>2
<1>. QED
  BY <1>3 DEF Busy

LEMMA NextBusy == TypeOK /\ Busy /\ [Next]_vars => Busy'
<1> SUFFICES ASSUME TypeOK, Busy, [Next]_vars PROVE Busy'
  OBVIOUS
<1> USE DEF Busy, TypeOK, Handler
<1>1. ASSUME NEW c \in Clients, NEW q \in Requests, Begin(c, q) PROVE Busy'
  BY <1>1, RequestAssumption DEF Begin, Request
<1>2. ASSUME NEW c \in Clients, NEW q \in Requests, Replay(c, q) PROVE Busy'
  BY <1>2 DEF Replay, Tell, Idle
<1>3. ASSUME NEW c \in Clients, ReadCurrent(c) PROVE Busy'
  BY <1>3 DEF ReadCurrent, Stage, Idle
<1>4. ASSUME NEW c \in Clients, Validate(c) PROVE Busy'
  BY <1>4 DEF Validate, Stage, Goto, Idle
<1>5. ASSUME NEW c \in Clients, ApplyReplay(c) PROVE Busy'
  BY <1>5 DEF ApplyReplay, Stage, Goto
<1>6. ASSUME NEW c \in Clients, NEW m \in Memories, ApplyCreate(c, m) PROVE Busy'
  BY <1>6, CommitBusy DEF ApplyCreate, Stage
<1>7. ASSUME NEW c \in Clients, ApplyUpdate(c) PROVE Busy'
  <2>1. h[c].req.id \in Memories
    BY <1>7, RequestAssumption DEF ApplyUpdate, Stage, CreateOK, UpdateOK
  <2>. QED
    BY <1>7, <2>1, CommitBusy DEF ApplyUpdate, Stage
<1>8. ASSUME NEW c \in Clients, ApplyRefused(c) \/ Crash(c) PROVE Busy'
  BY <1>8 DEF ApplyRefused, Crash, Idle
<1>9. ASSUME NEW c \in Clients, Reply(c) PROVE Busy'
  BY <1>9 DEF Reply, Tell, Idle
<1>10. ASSUME UNCHANGED <<h, receipts>> PROVE Busy'
  BY <1>10
<1>. QED
  BY <1>1, <1>2, <1>3, <1>4, <1>5, <1>6, <1>7, <1>8, <1>9, <1>10
  DEF Next, vars, DeleteMemory, ImportRecord, ImportLegacy

LEMMA NextType == TypeOK /\ Busy /\ [Next]_vars => TypeOK'
<1> SUFFICES ASSUME TypeOK, Busy, [Next]_vars PROVE TypeOK'
  OBVIOUS
<1>1. ASSUME NEW c \in Clients, NEW q \in Requests, Begin(c, q) PROVE TypeOK'
  <2>1. q \in Request /\ (q.op = "create" => q.content \in Contents)
    BY RequestAssumption DEF Request, CreateOK, UpdateOK
  <2>2. h' \in [Clients -> Handler]
    BY <1>1, <2>1 DEF Begin, TypeOK, Handler
  <2>. QED
    BY <1>1, <2>2, HandlerStepType DEF Begin
<1>2. ASSUME NEW c \in Clients, NEW q \in Requests, Replay(c, q) PROVE TypeOK'
  <2>1. q.key \in Keys
    BY RequestAssumption DEF Request
  <2>2. receipts[q.key] \in Receipt
    BY <1>2, <2>1, SentinelAssumption DEF Replay, TypeOK, Unused
  <2>. QED
    BY <1>2, <2>2, TellType DEF Replay
<1>3. ASSUME NEW c \in Clients, ReadCurrent(c) PROVE TypeOK'
  <2> DEFINE q == h[c].req
  <2>1. q \in Requests /\ q.op = "update"
    BY <1>3 DEF ReadCurrent, Stage, Busy
  <2>2. ASSUME Readable(q)
        PROVE  Edited(q, mem[q.id]).content \in Contents
    <3>1. q \in Request
      BY <2>1, RequestAssumption
    <3>2. mem[q.id] \in Row
      BY <2>2, <3>1, <2>1, RequestAssumption DEF Readable, TypeOK, CreateOK, UpdateOK
    <3>. QED
      BY <3>1, <3>2 DEF Edited, Request, Row
  <2>3. h' \in [Clients -> Handler]
    BY <1>3, <2>1, <2>2 DEF ReadCurrent, TypeOK, Handler, Idle
  <2>. QED
    BY <1>3, <2>3, HandlerStepType DEF ReadCurrent
<1>4. ASSUME NEW c \in Clients, Validate(c) PROVE TypeOK'
  <2>1. h' \in [Clients -> Handler]
    BY <1>4 DEF Validate, Goto, TypeOK, Handler, Idle
  <2>. QED
    BY <1>4, <2>1, HandlerStepType DEF Validate
<1>5. ASSUME NEW c \in Clients, ApplyReplay(c) PROVE TypeOK'
  <2>1. h' \in [Clients -> Handler]
    BY <1>5 DEF ApplyReplay, Goto, TypeOK, Handler
  <2>. QED
    BY <1>5, <2>1, HandlerStepType DEF ApplyReplay
<1>6. ASSUME NEW c \in Clients, NEW m \in Memories, ApplyCreate(c, m) PROVE TypeOK'
  <2>1. h[c].req \in Requests /\ h[c].req.op = "create"
    BY <1>6 DEF ApplyCreate, Stage, Busy
  <2>. QED
    BY <1>6, <2>1, CreatedType, CommitType DEF ApplyCreate
<1>7. ASSUME NEW c \in Clients, ApplyUpdate(c) PROVE TypeOK'
  <2> DEFINE q == h[c].req
             p == mem[q.id]
             snap == Snapshot(q.id, p, "legacy_snapshot", NoRequest)
  <2>1. q \in Requests /\ q.op = "update"
    BY <1>7 DEF ApplyUpdate, Stage, Busy
  <2>2. q.id \in Memories
    BY <2>1, RequestAssumption DEF CreateOK, UpdateOK
  <2>3. p \in Row
    BY <1>7, <2>2 DEF ApplyUpdate, Editable, Current, TypeOK
  <2>4. Edited(q, p) \in Row
    BY <2>1, <2>3, EditedType
  <2>5. Edited(q, p).cls \in Class
    BY <1>7, <2>4 DEF ApplyUpdate, Editable, Writable, Row
  <2>6. snap \in Revision
    BY <2>2, <2>3, SnapshotType DEF Intents
  <2>7. PICK snaps \in SUBSET Revision : Commit(c, q.id, Edited(q, p), snaps)
    BY <1>7, <2>6 DEF ApplyUpdate, Preserved
  <2>. QED
    BY <2>1, <2>2, <2>4, <2>5, <2>7, CommitType
<1>8. ASSUME NEW c \in Clients, ApplyRefused(c) \/ Crash(c) PROVE TypeOK'
  <2>1. h' \in [Clients -> Handler]
    BY <1>8 DEF ApplyRefused, Crash, TypeOK, Handler, Idle
  <2>. QED
    BY <1>8, <2>1, HandlerStepType DEF ApplyRefused, Crash
<1>13. ASSUME NEW c \in Clients, Reply(c) PROVE TypeOK'
  <2>1. h[c].req.key \in Keys
    BY <1>13, RequestAssumption DEF Reply, Stage, Busy, Request
  <2>2. receipts[h[c].req.key] \in Receipt \cup {Unused}
    BY <2>1 DEF TypeOK
  <2>3. receipts[h[c].req.key] \in Receipt
    BY <1>13, <2>2, SentinelAssumption DEF Reply, Stage, Busy, Unused
  <2>. QED
    BY <1>13, <2>3, TellType DEF Reply
<1>9. ASSUME NEW m \in Memories, DeleteMemory(m) PROVE TypeOK'
  BY <1>9 DEF DeleteMemory, TypeOK
<1>10. ASSUME NEW b \in Backups, ImportRecord(b) PROVE TypeOK'
  <2>1. b.id \in Memories /\ b.row \in Row /\ b.row.cls \in Class
        /\ b.history \subseteq Revision /\ b.catalog \subseteq Terms
    BY BackupAssumption DEF Archive
  <2>2. mem' \in [Memories -> Row \cup {NoRow}] /\ links' \subseteq Link
    BY <1>10, <2>1, ProjectEffect DEF ImportRecord, Rows
  <2>. QED
    BY <1>10, <2>1, <2>2 DEF ImportRecord, TypeOK
<1>11. ASSUME NEW m \in LegacyRows, ImportLegacy(m) PROVE TypeOK'
  BY <1>11, LegacyType DEF ImportLegacy, TypeOK
<1>12. ASSUME UNCHANGED vars PROVE TypeOK'
  BY <1>12 DEF vars, TypeOK
<1>. QED
  BY <1>1, <1>2, <1>3, <1>4, <1>5, <1>6, <1>7, <1>8, <1>9, <1>10, <1>11, <1>12, <1>13
  DEF Next
-----------------------------------------------------------------------------
(* The inductive invariant.                                                *)

\* History has one row per revision, never contradicts a legacy record, and
\* evidence repeats the text before it.
HistFunctional == \A v, w \in hist : v.id = w.id /\ v.rev = w.rev => v = w
LegacySaid == \A v \in hist : v.id \in LegacyRows /\ v.rev = 1 =>
                                v.content = LegacyContent[v.id]
HistInv == HistFunctional /\ LegacySaid /\ EvidenceKeepsContent

\* A row is an untouched legacy record, or history has it and all before it.
InHistory(m) == \E v \in hist : /\ v.id = m /\ v.rev = mem[m].rev
                                /\ v.content = mem[m].content /\ v.cls = mem[m].cls
Untouched(m) == m \in LegacyRows /\ mem[m] = Legacy(m)
RowOK(m) == \/ Untouched(m)
            \/ /\ mem[m].cls \in Class /\ InHistory(m)
               /\ \A r \in 1..mem[m].rev : Recorded(m, r)
RowsInv == \A m \in Memories : mem[m] # NoRow => RowOK(m)

\* Receipts and history rows written by requests name each other.
ReceiptsInv ==
    /\ \A k \in Keys : receipts[k] # Unused =>
         /\ receipts[k].req.key = k
         /\ \E v \in hist : /\ v.id = receipts[k].id /\ v.rev = receipts[k].rev
                             /\ v.content = receipts[k].content /\ v.by = k
    /\ EffectOncePerKey

\* What a client was told is what the receipt says.
ToldInv == \A a \in told : a.req.key \in Keys /\ receipts[a.req.key] = a

\* A candidate under validation is the text the request brings, or the text of
\* the revision the request expects.
Known(m, r, x) == \/ \E v \in hist : v.id = m /\ v.rev = r /\ v.content = x
                  \/ m \in LegacyRows /\ r = 1 /\ x = LegacyContent[m]
CandidateOK(c) ==
    h[c].pc \in {"validate", "apply"} =>
        IF h[c].req.content = Keep
        THEN Known(h[c].req.id, h[c].req.expected, h[c].cand)
        ELSE h[c].cand = h[c].req.content
CandidateInv == \A c \in Clients : CandidateOK(c)

IInv == /\ TypeOK /\ Busy
        /\ HistInv /\ RowsInv /\ ReceiptsInv /\ ToldInv /\ CandidateInv

LEMMA InitIInv == Init => IInv
<1> SUFFICES ASSUME Init PROVE IInv
  OBVIOUS
<1>1. TypeOK /\ Busy
  BY InitType, BusyInit
<1>2. HistInv
  <2>1. \A v \in hist : \E m \in LegacyRows :
           v = Snapshot(m, Legacy(m), "legacy_snapshot", NoRequest)
    BY LegacyAssumption DEF Init
  <2>2. \A m \in LegacyRows :
          LET v == Snapshot(m, Legacy(m), "legacy_snapshot", NoRequest)
          IN  v.id = m /\ v.rev = 1 /\ v.content = LegacyContent[m]
              /\ v.intent = "legacy_snapshot"
    BY DEF Snapshot, Legacy
  <2>. QED
    BY <2>1, <2>2 DEF HistInv, HistFunctional, LegacySaid, EvidenceKeepsContent
<1>3. RowsInv
  BY LegacyType DEF Init, RowsInv, RowOK, Untouched
<1>4. ReceiptsInv
  <2>1. \A v \in hist : v.by = NoRequest
    BY DEF Init, Snapshot
  <2>2. \A k \in Keys : receipts[k] = Unused
    BY DEF Init
  <2>. QED
    BY <2>1, <2>2 DEF ReceiptsInv, EffectOncePerKey
<1>5. ToldInv /\ CandidateInv
  BY DEF Init, ToldInv, CandidateInv, CandidateOK, Idle
<1>. QED
  BY <1>1, <1>2, <1>3, <1>4, <1>5 DEF IInv

\* The history rows a transaction adds: about one record, for revisions nobody
\* recorded, one each.
AppendOK(m, new) ==
    /\ \A v \in new : v.id = m /\ ~ Recorded(m, v.rev)
    /\ \A v, w \in new : v.rev = w.rev => v = w
    /\ \A v \in new : m \in LegacyRows /\ v.rev = 1 => v.content = LegacyContent[m]
    /\ \A v \in new : v.intent = "evidence" =>
         \E w \in hist \cup new : w.id = m /\ w.rev + 1 = v.rev /\ w.content = v.content

LEMMA AppendHist ==
    ASSUME HistInv, NEW m \in Memories, NEW new, AppendOK(m, new),
           hist' = hist \cup new
    PROVE  HistInv'
<1>1. HistFunctional'
  BY DEF HistInv, HistFunctional, AppendOK, Recorded
<1>2. LegacySaid'
  BY DEF HistInv, LegacySaid, AppendOK
<1>3. EvidenceKeepsContent'
  <2> SUFFICES ASSUME NEW v \in hist', v.intent = "evidence"
               PROVE  \E w \in hist' : w.id = v.id /\ w.rev + 1 = v.rev
                                       /\ w.content = v.content
    BY DEF EvidenceKeepsContent
  <2>1. CASE v \in hist
    BY <2>1 DEF HistInv, EvidenceKeepsContent
  <2>2. CASE v \in new
    BY <2>2 DEF AppendOK
  <2>. QED
    BY <2>1, <2>2
<1>. QED
  BY <1>1, <1>2, <1>3 DEF HistInv

\* Rows that stay keep their place in a history that grows.
LEMMA RowsKept ==
    ASSUME RowsInv, hist \subseteq hist', NEW m \in Memories,
           \A n \in Memories : n # m => mem'[n] = mem[n],
           mem'[m] # NoRow => RowOK(m)'
    PROVE  RowsInv'
<1> SUFFICES ASSUME NEW n \in Memories, mem'[n] # NoRow PROVE RowOK(n)'
  BY DEF RowsInv
<1>1. CASE n = m
  BY <1>1
<1>2. CASE n # m
  <2>1. mem'[n] = mem[n] /\ RowOK(n)
    BY <1>2 DEF RowsInv
  <2>2. CASE Untouched(n)
    BY <2>1, <2>2 DEF RowOK, Untouched, Legacy
  <2>3. CASE ~ Untouched(n)
    <3>1. mem[n].cls \in Class /\ InHistory(n) /\ \A r \in 1..mem[n].rev : Recorded(n, r)
      BY <2>1, <2>3 DEF RowOK
    <3>2. InHistory(n)'
      BY <2>1, <3>1 DEF InHistory
    <3>3. \A r \in 1..mem'[n].rev : Recorded(n, r)'
      BY <2>1, <3>1 DEF Recorded
    <3>. QED
      BY <2>1, <3>1, <3>2, <3>3 DEF RowOK
  <2>. QED
    BY <2>2, <2>3
<1>. QED
  BY <1>1, <1>2
\* A commit that appends properly keeps the invariant.
CommitOK(c, m, row, snaps) ==
    LET q == h[c].req IN
    /\ AppendOK(m, snaps \cup {Snapshot(m, row, q.intent, q.key)})
    /\ \A v \in snaps : v.by = NoRequest
    /\ \A r \in 1..row.rev : \/ Recorded(m, r)
                             \/ \E v \in snaps : v.rev = r
                             \/ r = row.rev

LEMMA CommitIInv ==
    ASSUME IInv, NEW c \in Clients, h[c].pc = "apply", FirstUse(c),
           NEW m \in Memories, NEW row \in Row, row.cls \in Class,
           NEW snaps \in SUBSET Revision,
           CommitOK(c, m, row, snaps), Commit(c, m, row, snaps)
    PROVE  IInv'
<1> DEFINE q == h[c].req
           written == Snapshot(m, row, q.intent, q.key)
           new == snaps \cup {written}
<1>1. TypeOK /\ Busy
  BY DEF IInv
<1>2. q \in Requests /\ q.key \in Keys /\ q.intent \in Intents
  BY <1>1, RequestAssumption DEF Busy, Request
<1>3. written.id = m /\ written.rev = row.rev /\ written.content = row.content
      /\ written.cls = row.cls /\ written.by = q.key
  BY DEF Snapshot
<1>4. TypeOK' /\ Busy'
  BY <1>1, <1>2, CommitType, CommitBusy
<1>5. hist' = hist \cup new /\ hist \subseteq hist' /\ written \in hist'
  BY DEF Commit
<1>6. HistInv'
  BY <1>5, AppendHist DEF IInv, CommitOK
<1>7. RowsInv'
  <2>1. /\ \A n \in Memories : n # m => mem'[n] = mem[n]
        /\ mem'[m].rev = row.rev /\ mem'[m].content = row.content /\ mem'[m].cls = row.cls
    BY <1>1, ProjectEffect DEF Commit
  <2>2. InHistory(m)'
    BY <2>1, <1>3, <1>5 DEF InHistory
  <2>3. \A r \in 1..mem'[m].rev : Recorded(m, r)'
    <3> SUFFICES ASSUME NEW r \in 1..row.rev PROVE Recorded(m, r)'
      BY <2>1
    <3>1. CASE Recorded(m, r)
      BY <3>1, <1>5 DEF Recorded
    <3>2. CASE \E v \in snaps : v.rev = r
      BY <3>2, <1>5 DEF Recorded, CommitOK, AppendOK
    <3>3. CASE r = row.rev
      BY <3>3, <1>3, <1>5 DEF Recorded
    <3>. QED
      BY <3>1, <3>2, <3>3 DEF CommitOK
  <2>4. RowOK(m)'
    BY <2>1, <2>2, <2>3 DEF RowOK
  <2>. QED
    BY <2>1, <2>4, <1>5, RowsKept DEF IInv
<1>8. /\ receipts' = [receipts EXCEPT ![q.key] = Answer(q, m, row)]
      /\ receipts[q.key] = Unused
      /\ receipts'[q.key] = Answer(q, m, row)
      /\ \A k \in Keys : k # q.key => receipts'[k] = receipts[k]
  BY <1>1, <1>2 DEF Commit, FirstUse, TypeOK
<1>9. ReceiptsInv'
  <2>1. ASSUME NEW k \in Keys, receipts'[k] # Unused
        PROVE  /\ receipts'[k].req.key = k
               /\ \E v \in hist' : /\ v.id = receipts'[k].id /\ v.rev = receipts'[k].rev
                                    /\ v.content = receipts'[k].content /\ v.by = k
    <3>1. CASE k = q.key
      BY <3>1, <1>3, <1>5, <1>8 DEF Answer
    <3>2. CASE k # q.key
      BY <3>2, <2>1, <1>5, <1>8 DEF IInv, ReceiptsInv
    <3>. QED
      BY <3>1, <3>2
  <2>2. ASSUME NEW v \in hist', v.by # NoRequest
        PROVE  /\ receipts'[v.by] # Unused
               /\ receipts'[v.by].id = v.id /\ receipts'[v.by].rev = v.rev
    <3>1. CASE v \in hist
      <4>1. receipts[v.by] # Unused /\ v.by \in Keys
            /\ receipts[v.by].id = v.id /\ receipts[v.by].rev = v.rev
        BY <3>1, <2>2, <1>1 DEF IInv, ReceiptsInv, EffectOncePerKey, TypeOK, Revision
      <4>. QED
        BY <4>1, <1>8
    <3>2. CASE v = written
      <4>1. Answer(q, m, row) # Unused
        BY <1>2, SentinelAssumption DEF Answer, Unused
      <4>. QED
        BY <3>2, <4>1, <1>3, <1>8 DEF Answer
    <3>. QED
      BY <3>1, <3>2, <2>2, <1>5 DEF CommitOK
  <2>. QED
    BY <2>1, <2>2 DEF ReceiptsInv, EffectOncePerKey
<1>10. ToldInv'
  <2>1. told' = told
    BY DEF Commit
  <2>2. ASSUME NEW a \in told
        PROVE  a.req.key \in Keys /\ receipts'[a.req.key] = a
    <3>1. a \in Receipt /\ receipts[a.req.key] = a /\ a.req.key \in Keys
      BY <1>1 DEF IInv, ToldInv, TypeOK
    <3>2. a # Unused
      BY <3>1, SentinelAssumption DEF Receipt, Unused
    <3>. QED
      BY <3>1, <3>2, <1>8
  <2>. QED
    BY <2>1, <2>2 DEF ToldInv
<1>11. CandidateInv'
  <2> SUFFICES ASSUME NEW e \in Clients, h'[e].pc \in {"validate", "apply"}
               PROVE  CandidateOK(e)'
    BY DEF CandidateInv, CandidateOK
  <2>1. e # c /\ h'[e] = h[e]
    BY <1>1 DEF Commit, Goto, TypeOK, Handler
  <2>. QED
    BY <2>1, <1>5 DEF IInv, CandidateInv, CandidateOK, Known
<1>. QED
  BY <1>4, <1>6, <1>7, <1>9, <1>10, <1>11 DEF IInv

\* A step of a handler alone keeps what is said of the database.
LEMMA HandlerStepIInv ==
    ASSUME IInv, TypeOK', Busy', CandidateInv',
           UNCHANGED <<mem, hist, links, receipts, catalog, told>>
    PROVE  IInv'
<1>1. HistInv'
  BY DEF IInv, HistInv, HistFunctional, LegacySaid, EvidenceKeepsContent
<1>2. RowsInv'
  BY DEF IInv, RowsInv, RowOK, Untouched, InHistory, Recorded, Legacy
<1>3. ReceiptsInv' /\ ToldInv'
  BY DEF IInv, ReceiptsInv, EffectOncePerKey, ToldInv
<1>. QED
  BY <1>1, <1>2, <1>3 DEF IInv

\* Telling the recorded answer keeps it.
LEMMA TellIInv ==
    ASSUME IInv, TypeOK', Busy', NEW c \in Clients, NEW k \in Keys,
           receipts[k] # Unused, Tell(c, receipts[k]),
           UNCHANGED <<mem, hist, links, receipts, catalog>>
    PROVE  IInv'
<1>1. HistInv'
  BY DEF IInv, HistInv, HistFunctional, LegacySaid, EvidenceKeepsContent
<1>2. RowsInv'
  BY DEF IInv, RowsInv, RowOK, Untouched, InHistory, Recorded, Legacy
<1>3. ReceiptsInv'
  BY DEF IInv, ReceiptsInv, EffectOncePerKey
<1>4. ToldInv'
  BY DEF IInv, ToldInv, Tell, ReceiptsInv
<1>5. CandidateInv'
  BY DEF IInv, CandidateInv, CandidateOK, Known, Tell, TypeOK, Handler, Idle
<1>. QED
  BY <1>1, <1>2, <1>3, <1>4, <1>5 DEF IInv

\* A change of rows alone keeps the rest.
LEMMA RowStepIInv ==
    ASSUME IInv, TypeOK', RowsInv', UNCHANGED <<hist, receipts, h, told>>
    PROVE  IInv'
<1>1. HistInv'
  BY DEF IInv, HistInv, HistFunctional, LegacySaid, EvidenceKeepsContent
<1>2. ReceiptsInv' /\ ToldInv' /\ CandidateInv' /\ Busy'
  BY DEF IInv, ReceiptsInv, EffectOncePerKey, ToldInv, CandidateInv, CandidateOK, Known, Busy
<1>. QED
  BY <1>1, <1>2 DEF IInv
\* What is known of a revision is one text, and a row says a known one.
LEMMA KnownFunctional ==
    ASSUME IInv, NEW m, NEW r, NEW x, NEW y, Known(m, r, x), Known(m, r, y)
    PROVE  x = y
BY DEF IInv, HistInv, HistFunctional, LegacySaid, Known

LEMMA RowKnown ==
    ASSUME IInv, NEW m \in Memories, mem[m] # NoRow
    PROVE  Known(m, mem[m].rev, mem[m].content)
<1>1. CASE Untouched(m)
  BY <1>1 DEF Untouched, Legacy, Known
<1>2. CASE InHistory(m)
  BY <1>2 DEF InHistory, Known
<1>. QED
  BY <1>1, <1>2 DEF IInv, RowsInv, RowOK

LEMMA CreateAppends ==
    ASSUME IInv, NEW c \in Clients, NEW m \in Memories, ApplyCreate(c, m)
    PROVE  CommitOK(c, m, Created(h[c].req), {})
<1> DEFINE q == h[c].req
           written == Snapshot(m, Created(q), q.intent, q.key)
<1>1. q \in Requests /\ q.op = "create"
  BY DEF ApplyCreate, Stage, IInv, Busy
<1>2. CreateOK(q)
  BY <1>1, RequestAssumption DEF CreateOK, UpdateOK
<1>3. written.id = m /\ written.rev = 1 /\ written.intent = "create"
  BY <1>2 DEF Snapshot, Created, CreateOK
<1>4. m \notin LegacyRows /\ ~ Recorded(m, 1)
  BY DEF ApplyCreate, Fresh, Recorded
<1>5. AppendOK(m, {written})
  BY <1>3, <1>4 DEF AppendOK
<1>6. Created(q).rev = 1
  BY DEF Created
<1>. QED
  BY <1>5, <1>6 DEF CommitOK

LEMMA UpdateAppends ==
    ASSUME IInv, NEW c \in Clients, ApplyUpdate(c)
    PROVE  LET q == h[c].req
               p == mem[q.id]
               snaps == IF Recorded(q.id, p.rev) THEN {}
                        ELSE {Snapshot(q.id, p, "legacy_snapshot", NoRequest)}
           IN  /\ q \in Requests /\ q.op = "update" /\ q.id \in Memories
               /\ Edited(q, p) \in Row /\ Edited(q, p).cls \in Class
               /\ snaps \in SUBSET Revision
               /\ CommitOK(c, q.id, Edited(q, p), snaps)
<1> DEFINE q == h[c].req
           m == q.id
           p == mem[m]
           row == Edited(q, p)
           snap == Snapshot(m, p, "legacy_snapshot", NoRequest)
           snaps == IF Recorded(m, p.rev) THEN {} ELSE {snap}
           written == Snapshot(m, row, q.intent, q.key)
           new == snaps \cup {written}
<1>1. q \in Requests /\ q.op = "update"
  BY DEF ApplyUpdate, Stage, IInv, Busy
<1>2. m \in Memories /\ q \in Request
  BY <1>1, RequestAssumption DEF CreateOK, UpdateOK
<1>3. p # NoRow /\ p \in Row /\ p.rev \in Nat \ {0}
  BY <1>2 DEF ApplyUpdate, Editable, Current, IInv, TypeOK, Row
<1>4. row \in Row /\ row.rev = p.rev + 1
      /\ row.content = IF q.content = Keep THEN p.content ELSE q.content
  BY <1>1, <1>3, EditedType
<1>5. row.cls \in Class /\ ~ Recorded(m, row.rev)
  BY <1>4 DEF ApplyUpdate, Editable, Writable, Row
<1>6. snap \in Revision /\ snap.id = m /\ snap.rev = p.rev /\ snap.content = p.content
      /\ snap.by = NoRequest /\ snap.intent = "legacy_snapshot"
  BY <1>2, <1>3, SnapshotType DEF Intents, Snapshot
<1>7. written.id = m /\ written.rev = row.rev /\ written.content = row.content
      /\ written.intent = q.intent
  BY DEF Snapshot
<1>8. RowOK(m) /\ HistInv /\ Known(m, p.rev, p.content)
  BY <1>2, <1>3, RowKnown DEF IInv, RowsInv
<1>9. \E w \in hist \cup new : w.id = m /\ w.rev = p.rev /\ w.content = p.content
  <2>1. CASE Recorded(m, p.rev)
    <3>1. PICK w \in hist : w.id = m /\ w.rev = p.rev
      BY <2>1 DEF Recorded
    <3>2. Known(m, p.rev, w.content)
      BY <3>1 DEF Known
    <3>. QED
      BY <3>1, <3>2, <1>8, KnownFunctional
  <2>2. CASE ~ Recorded(m, p.rev)
    BY <2>2, <1>6
  <2>. QED
    BY <2>1, <2>2
<1>10. AppendOK(m, new)
  <2>1. \A v \in new : v.id = m /\ ~ Recorded(m, v.rev)
    BY <1>5, <1>6, <1>7
  <2>2. \A v, w \in new : v.rev = w.rev => v = w
    BY <1>3, <1>4, <1>6, <1>7
  <2>3. ASSUME NEW v \in new, m \in LegacyRows, v.rev = 1
        PROVE  v.content = LegacyContent[m]
    <3>1. v = snap /\ p.rev = 1
      BY <2>3, <1>3, <1>4, <1>6, <1>7
    <3>2. Known(m, 1, LegacyContent[m])
      BY <2>3 DEF Known
    <3>. QED
      BY <3>1, <3>2, <1>6, <1>8, KnownFunctional
  <2>4. ASSUME NEW v \in new, v.intent = "evidence"
        PROVE  \E w \in hist \cup new : w.id = m /\ w.rev + 1 = v.rev /\ w.content = v.content
    <3>1. v = written /\ q.intent = "evidence"
      BY <2>4, <1>6, <1>7
    <3>2. row.content = p.content
      BY <3>1, <1>4 DEF ApplyUpdate, Editable, KeepsIntent
    <3>. QED
      BY <3>1, <3>2, <1>4, <1>7, <1>9
  <2>. QED
    BY <2>1, <2>2, <2>3, <2>4 DEF AppendOK
<1>11. ASSUME NEW r \in 1..row.rev
       PROVE  Recorded(m, r) \/ (\E v \in snaps : v.rev = r) \/ r = row.rev
  <2>1. r = row.rev \/ r \in 1..p.rev
    BY <1>3, <1>4, <1>11
  <2>2. CASE Untouched(m)
    BY <2>1, <2>2, <1>6 DEF Untouched, Legacy
  <2>3. CASE ~ Untouched(m)
    BY <2>1, <2>3, <1>8 DEF RowOK
  <2>. QED
    BY <2>2, <2>3
<1>12. snaps \in SUBSET Revision /\ \A v \in snaps : v.by = NoRequest
  BY <1>6
<1>. QED
  BY <1>1, <1>2, <1>4, <1>5, <1>10, <1>11, <1>12 DEF CommitOK

\* An imported record keeps the invariant: its history contradicts nothing.
LEMMA ImportIInv ==
    ASSUME IInv, TypeOK', NEW b \in Backups, ImportRecord(b)
    PROVE  IInv'
<1>1. b.id \in Memories /\ b.row \in Row /\ b.row.cls \in Class
      /\ b.row.rev \in Nat \ {0} /\ b.id \notin LegacyRows
  BY BackupAssumption DEF Archive, Row
<1>2. hist' = hist \cup b.history /\ hist \subseteq hist'
  BY DEF ImportRecord
<1>3. AppendOK(b.id, b.history)
  BY <1>1, BackupAssumption DEF AppendOK, ImportRecord
<1>4. HistInv'
  BY <1>1, <1>2, <1>3, AppendHist DEF IInv
<1>5. RowsInv'
  <2>1. /\ \A n \in Memories : n # b.id => mem'[n] = mem[n]
        /\ mem'[b.id].rev = b.row.rev /\ mem'[b.id].content = b.row.content
        /\ mem'[b.id].cls = b.row.cls
    BY <1>1, ProjectEffect DEF ImportRecord, IInv
  <2>2. PICK v \in b.history : v.rev = b.row.rev
    BY <1>1, BackupAssumption
  <2>3. v.id = b.id /\ v.content = b.row.content /\ v.cls = b.row.cls
    BY <2>2, BackupAssumption
  <2>4. InHistory(b.id)'
    BY <1>2, <2>1, <2>2, <2>3 DEF InHistory
  <2>5. \A r \in 1..mem'[b.id].rev : Recorded(b.id, r)'
    BY <1>2, <2>1, BackupAssumption DEF Recorded
  <2>6. RowOK(b.id)'
    BY <1>1, <2>1, <2>4, <2>5 DEF RowOK
  <2>. QED
    BY <1>1, <1>2, <2>1, <2>6, RowsKept DEF IInv
<1>6. UNCHANGED <<receipts, h, told>>
  BY DEF ImportRecord
<1>7. ReceiptsInv'
  BY <1>2, <1>6, BackupAssumption DEF IInv, ReceiptsInv, EffectOncePerKey
<1>8. ToldInv' /\ Busy'
  BY <1>6 DEF IInv, ToldInv, Busy
<1>9. CandidateInv'
  BY <1>2, <1>6 DEF IInv, CandidateInv, CandidateOK, Known
<1>. QED
  BY <1>4, <1>5, <1>7, <1>8, <1>9 DEF IInv
LEMMA NextIInv == IInv /\ [Next]_vars => IInv'
<1> SUFFICES ASSUME IInv, [Next]_vars PROVE IInv'
  OBVIOUS
<1>1. TypeOK /\ Busy /\ TypeOK' /\ Busy'
  BY NextType, NextBusy DEF IInv
<1>2. \A c \in Clients : h[c] \in Handler
  BY <1>1 DEF TypeOK
<1>3. ASSUME NEW c \in Clients, NEW q \in Requests, Begin(c, q) PROVE IInv'
  <2>1. q.op = "create" => q.content # Keep
    BY RequestAssumption DEF CreateOK, UpdateOK
  <2>2. CandidateInv'
    BY <1>1, <1>3, <2>1 DEF Begin, IInv, CandidateInv, CandidateOK, Known, TypeOK
  <2>. QED
    BY <1>1, <1>3, <2>2, HandlerStepIInv DEF Begin
<1>4. ASSUME NEW c \in Clients, NEW q \in Requests, Replay(c, q) PROVE IInv'
  <2>1. q.key \in Keys /\ receipts[q.key] # Unused
    BY <1>4, RequestAssumption, SentinelAssumption DEF Replay, Request, Unused
  <2>. QED
    BY <1>1, <1>4, <2>1, TellIInv DEF Replay
<1>5. ASSUME NEW c \in Clients, ReadCurrent(c) PROVE IInv'
  <2> DEFINE q == h[c].req
  <2>1. q \in Requests /\ q.op = "update" /\ q.id \in Memories
    BY <1>1, <1>5, RequestAssumption DEF ReadCurrent, Stage, Busy, CreateOK, UpdateOK
  <2>2. ASSUME Readable(q)
        PROVE  IF q.content = Keep THEN Known(q.id, q.expected, Edited(q, mem[q.id]).content)
                                   ELSE Edited(q, mem[q.id]).content = q.content
    BY <2>1, <2>2, RowKnown DEF Readable, Edited
  <2>3. CandidateInv'
    BY <1>1, <1>5, <2>2 DEF ReadCurrent, Idle, IInv, CandidateInv, CandidateOK, Known, TypeOK
  <2>. QED
    BY <1>1, <1>5, <2>3, HandlerStepIInv DEF ReadCurrent
<1>6. ASSUME NEW c \in Clients, Validate(c) PROVE IInv'
  <2>1. CandidateInv'
    BY <1>1, <1>2, <1>6 DEF Validate, Stage, Goto, Idle, IInv, CandidateInv, CandidateOK,
                           Known, TypeOK, Handler
  <2>. QED
    BY <1>1, <1>6, <2>1, HandlerStepIInv DEF Validate
<1>7. ASSUME NEW c \in Clients, ApplyReplay(c) PROVE IInv'
  <2>1. CandidateInv'
    BY <1>1, <1>2, <1>7 DEF ApplyReplay, Goto, IInv, CandidateInv, CandidateOK, Known,
                           TypeOK, Handler
  <2>. QED
    BY <1>1, <1>7, <2>1, HandlerStepIInv DEF ApplyReplay
<1>8. ASSUME NEW c \in Clients, NEW m \in Memories, ApplyCreate(c, m) PROVE IInv'
  <2>1. h[c].req \in Requests /\ h[c].req.op = "create"
    BY <1>1, <1>8 DEF ApplyCreate, Stage, Busy
  <2>2. Created(h[c].req) \in Row /\ Created(h[c].req).cls \in Class
    BY <2>1, CreatedType
  <2>. QED
    BY <1>8, <2>2, CreateAppends, CommitIInv DEF ApplyCreate, Stage
<1>9. ASSUME NEW c \in Clients, ApplyUpdate(c) PROVE IInv'
  BY <1>9, UpdateAppends, CommitIInv DEF ApplyUpdate, Preserved, Stage
<1>10. ASSUME NEW c \in Clients, ApplyRefused(c) \/ Crash(c) PROVE IInv'
  <2>1. CandidateInv'
    BY <1>1, <1>2, <1>10 DEF ApplyRefused, Crash, Idle, IInv, CandidateInv, CandidateOK,
                            Known, TypeOK
  <2>. QED
    BY <1>1, <1>10, <2>1, HandlerStepIInv DEF ApplyRefused, Crash
<1>11. ASSUME NEW c \in Clients, Reply(c) PROVE IInv'
  <2>1. h[c].req.key \in Keys /\ receipts[h[c].req.key] # Unused
    BY <1>1, <1>11, RequestAssumption, SentinelAssumption
    DEF Reply, Stage, Busy, Request, Unused
  <2>. QED
    BY <1>1, <1>11, <2>1, TellIInv DEF Reply
<1>12. ASSUME NEW m \in Memories, DeleteMemory(m) PROVE IInv'
  <2>1. RowsInv'
    BY <1>1, <1>12, RowsKept DEF DeleteMemory, IInv, TypeOK
  <2>. QED
    BY <1>1, <1>12, <2>1, RowStepIInv DEF DeleteMemory
<1>13. ASSUME NEW b \in Backups, ImportRecord(b) PROVE IInv'
  BY <1>1, <1>13, ImportIInv
<1>14. ASSUME NEW m \in LegacyRows, ImportLegacy(m) PROVE IInv'
  <2>1. m \in Memories /\ mem'[m] = Legacy(m)
        /\ \A n \in Memories : n # m => mem'[n] = mem[n]
    BY <1>1, <1>14, LegacyType DEF ImportLegacy, TypeOK
  <2>2. RowOK(m)'
    BY <2>1 DEF RowOK, Untouched, Legacy
  <2>3. RowsInv'
    BY <1>14, <2>1, <2>2, RowsKept DEF ImportLegacy, IInv
  <2>. QED
    BY <1>1, <1>14, <2>3, RowStepIInv DEF ImportLegacy
<1>15. ASSUME UNCHANGED vars PROVE IInv'
  BY <1>1, <1>15, HandlerStepIInv DEF vars, IInv, CandidateInv, CandidateOK, Known
<1>. QED
  BY <1>3, <1>4, <1>5, <1>6, <1>7, <1>8, <1>9, <1>10, <1>11, <1>12, <1>13, <1>14, <1>15
  DEF Next

LEMMA Invariance == Spec => []IInv
BY InitIInv, NextIInv, PTL DEF Spec

-----------------------------------------------------------------------------
(* The theorems.                                                           *)

\* Every reachable state of the write path is well typed.
THEOREM TypeCorrect == Spec => []TypeOK
BY Invariance, PTL DEF IInv

\* However many handlers race and however often they crash, one key is never
\* answered in two ways (the receipt that withReceipt commits with the write).
THEOREM Idempotent == Spec => []OneAnswerPerKey
<1>1. IInv => OneAnswerPerKey
  BY DEF IInv, ToldInv, OneAnswerPerKey
<1>. QED
  BY <1>1, Invariance, PTL

\* A key never writes two history rows (withReceipt).
THEOREM ExactlyOnce == Spec => []EffectOncePerKey
<1>1. IInv => EffectOncePerKey
  BY DEF IInv, ReceiptsInv
<1>. QED
  BY <1>1, Invariance, PTL

\* A revision number stands for one text, across edits, deletion and import.
THEOREM OneText == Spec => []RevisionSaysOneThing
<1>1. ASSUME IInv, NEW m \in Memories, NEW r, NEW x, Says(m, r, x)
      PROVE  Known(m, r, x)
  <2>1. CASE mem[m] # NoRow /\ mem[m].rev = r /\ mem[m].content = x
    BY <1>1, <2>1, RowKnown
  <2>2. CASE \E v \in hist : v.id = m /\ v.rev = r /\ v.content = x
    BY <2>2 DEF Known
  <2>3. CASE \E k \in Keys : /\ receipts[k] # Unused
                            /\ receipts[k].id = m /\ receipts[k].rev = r
                            /\ receipts[k].content = x
    BY <1>1, <2>3 DEF IInv, ReceiptsInv, Known
  <2>4. CASE m \in LegacyRows /\ r = 1 /\ x = LegacyContent[m]
    BY <2>4 DEF Known
  <2>. QED
    BY <1>1, <2>1, <2>2, <2>3, <2>4 DEF Says
<1>2. IInv => RevisionSaysOneThing
  BY <1>1, KnownFunctional DEF RevisionSaysOneThing
<1>. QED
  BY <1>2, Invariance, PTL

\* The history of a classified record is complete and ends with the row.
THEOREM CompleteHistory == Spec => []HistoryComplete
<1>1. IInv => HistoryComplete
  <2> SUFFICES ASSUME IInv, NEW m \in Memories, mem[m] # NoRow, mem[m].cls # NoClass
               PROVE  /\ \A r \in 1..mem[m].rev : Recorded(m, r)
                      /\ InHistory(m)
    BY DEF HistoryComplete, InHistory
  <2>1. ~ Untouched(m)
    BY DEF Untouched, Legacy
  <2>. QED
    BY <2>1 DEF IInv, RowsInv, RowOK
<1>. QED
  BY <1>1, Invariance, PTL

\* Evidence and reclassification never replace the assertion.
THEOREM EvidenceIsNotCorrection == Spec => []EvidenceKeepsContent
<1>1. IInv => EvidenceKeepsContent
  BY DEF IInv, HistInv
<1>. QED
  BY <1>1, Invariance, PTL

\* What a write stores is what its handler had validated before the lock.
THEOREM StoresWhatWasValidated == Spec => ValidatedIsStored
<1>1. IInv /\ [Next]_vars =>
        [\A c \in Clients : Stores(c) =>
            receipts'[h[c].req.key].content = h[c].cand]_vars
  <2> SUFFICES ASSUME IInv, Next, NEW c \in Clients, Stores(c)
               PROVE  receipts'[h[c].req.key].content = h[c].cand
    OBVIOUS
  <2> DEFINE q == h[c].req
  <2>1. /\ TypeOK /\ q \in Requests /\ q.key \in Keys /\ CandidateOK(c)
        /\ h[c].pc = "apply"
    BY RequestAssumption DEF IInv, Busy, CandidateInv, Stores, Request
  <2>2. (\E m \in Memories : ApplyCreate(c, m)) \/ ApplyUpdate(c)
    BY <2>1 DEF Next, Stores, Begin, Replay, Tell, ReadCurrent, Validate, ApplyReplay,
                ApplyCreate, ApplyUpdate, Commit, Goto, ApplyRefused, Reply, Crash,
                DeleteMemory, ImportRecord, ImportLegacy, Stage, TypeOK, Handler
  <2>3. ASSUME NEW m \in Memories, ApplyCreate(c, m)
        PROVE  receipts'[q.key].content = h[c].cand
    <3>1. q.op = "create" /\ q.content # Keep
      BY <2>1, <2>3, RequestAssumption DEF ApplyCreate, CreateOK, UpdateOK
    <3>. QED
      BY <2>1, <2>3, <3>1 DEF ApplyCreate, Commit, Answer, Created, CandidateOK, TypeOK
  <2>4. ASSUME ApplyUpdate(c)
        PROVE  receipts'[q.key].content = h[c].cand
    <3>1. q.op = "update" /\ q.id \in Memories
      BY <2>4, UpdateAppends
    <3>2. mem[q.id] # NoRow /\ mem[q.id].rev = q.expected
      BY <2>4 DEF ApplyUpdate, Editable, Current
    <3>3. q.content = Keep => h[c].cand = mem[q.id].content
      BY <2>1, <3>1, <3>2, RowKnown, KnownFunctional DEF CandidateOK
    <3>. QED
      BY <2>1, <2>4, <3>3 DEF ApplyUpdate, Commit, Answer, Edited, CandidateOK, TypeOK
  <2>. QED
    BY <2>2, <2>3, <2>4
<1>. QED
  BY <1>1, Invariance, PTL DEF Spec, ValidatedIsStored
-----------------------------------------------------------------------------
(* Relationships between memories.                                         *)

\* Known, for a history that is named: the history after a step knows more.
KnownIn(hs, m, r, x) == \/ \E v \in hs : v.id = m /\ v.rev = r /\ v.content = x
                        \/ m \in LegacyRows /\ r = 1 /\ x = LegacyContent[m]

\* A dependency made in this database names a text its target had then.
DependsOnKnown(hs, d) ==
    d # NoDep /\ d.said # NoContent => KnownIn(hs, d.target, d.rev, d.said)
LinksKnown(hs, ls) ==
    \A l \in ls : l.said # NoContent => KnownIn(hs, l.target, l.targetRev, l.said)
DepsInv == /\ \A m \in Memories : mem[m] # NoRow => DependsOnKnown(hist, mem[m].dep)
           /\ LinksKnown(hist, links)

LEMMA KnownGrows ==
    ASSUME NEW hs, NEW gs, hs \subseteq gs, NEW n, NEW r, NEW x, KnownIn(hs, n, r, x)
    PROVE  KnownIn(gs, n, r, x)
BY DEF KnownIn

LEMMA ProjectDeps ==
    ASSUME IInv, DepsInv, NEW m \in Memories, NEW row \in Row, row.cls \in Class,
           Project(m, row), hist \subseteq hist',
           KnownIn(hist', m, row.rev, row.content), DependsOnKnown(hist', row.dep)
    PROVE  DepsInv'
<1> DEFINE rows == [mem EXCEPT ![m] = row]
           d == Dependency(rows, row)
<1>1. mem \in Rows /\ rows \in Rows
  BY DEF IInv, TypeOK, Rows
<1>2. d \in Dep \cup {NoDep}
  BY <1>1, DependencyType
<1>3. \A n, r, x : KnownIn(hist, n, r, x) => KnownIn(hist', n, r, x)
  BY KnownGrows
<1>4. ASSUME NEW t \in Memories, rows[t] # NoRow
      PROVE  KnownIn(hist', t, rows[t].rev, rows[t].content)
  <2>1. CASE t = m
    BY <2>1, <1>1 DEF Rows
  <2>2. CASE t # m
    <3>1. rows[t] = mem[t]
      BY <2>2, <1>1 DEF Rows
    <3>2. KnownIn(hist, t, mem[t].rev, mem[t].content)
      BY <3>1, <1>4, RowKnown DEF Known, KnownIn
    <3>. QED
      BY <3>1, <3>2, <1>3
  <2>. QED
    BY <2>1, <2>2
<1>5. DependsOnKnown(hist', d)
  <2>1. CASE row.cls.link = NoMemory
    BY <2>1 DEF Dependency, DependsOnKnown
  <2>2. CASE row.cls.link # NoMemory /\ row.dep # NoDep /\ row.dep.target = row.cls.link
    BY <2>2 DEF Dependency
  <2>3. CASE row.cls.link # NoMemory /\ ~(row.dep # NoDep /\ row.dep.target = row.cls.link)
    <3>1. row.cls.link \in Memories
      BY <2>3 DEF Class
    <3>. QED
      BY <2>3, <3>1, <1>4 DEF Dependency, DependsOnKnown
  <2>. QED
    BY <2>1, <2>2, <2>3
<1>6. LinksKnown(hist', LinkOf(rows, m, row))
  <2> SUFFICES ASSUME NEW l \in LinkOf(rows, m, row), l.said # NoContent
               PROVE  KnownIn(hist', l.target, l.targetRev, l.said)
    BY DEF LinksKnown
  <2>1. PICK t \in {u \in Memories : d # NoDep /\ d.target = u /\ rows[u] # NoRow
                                  /\ rows[u].rev = d.rev} :
          l = [id |-> m, rev |-> row.rev, target |-> t, targetRev |-> d.rev, said |-> d.said]
    BY DEF LinkOf
  <2>2. d # NoDep /\ l.target = d.target /\ l.targetRev = d.rev /\ l.said = d.said
    BY <2>1
  <2>. QED
    BY <2>2, <1>5 DEF DependsOnKnown
<1>7. LinksKnown(hist', links')
  <2>1. links' \subseteq links \cup LinkOf(rows, m, row)
    BY DEF Project
  <2>. QED
    BY <1>3, <1>6, <2>1 DEF DepsInv, LinksKnown
<1>8. ASSUME NEW n \in Memories, mem'[n] # NoRow
      PROVE  DependsOnKnown(hist', mem'[n].dep)
  <2>1. CASE n = m
    <3>1. mem'[m].dep = d
      BY <1>1 DEF Project, Rows, Row
    <3>. QED
      BY <2>1, <3>1, <1>5 DEF DependsOnKnown
  <2>2. CASE n # m
    <3>1. mem'[n] = mem[n]
      BY <2>2, <1>1 DEF Project, Rows
    <3>. QED
      BY <3>1, <1>3, <1>8 DEF DepsInv, DependsOnKnown
  <2>. QED
    BY <2>1, <2>2
<1>. QED
  BY <1>7, <1>8 DEF DepsInv

LEMMA CommitDeps ==
    ASSUME IInv, DepsInv, NEW c \in Clients, NEW m \in Memories, NEW row \in Row,
           row.cls \in Class, NEW snaps, Commit(c, m, row, snaps),
           DependsOnKnown(hist, row.dep)
    PROVE  DepsInv'
<1>1. hist \subseteq hist' /\ Project(m, row)
  BY DEF Commit
<1>2. KnownIn(hist', m, row.rev, row.content)
  <2>1. Snapshot(m, row, h[c].req.intent, h[c].req.key) \in hist'
    BY DEF Commit
  <2>2. \A i, k : /\ Snapshot(m, row, i, k).id = m
                 /\ Snapshot(m, row, i, k).rev = row.rev
                 /\ Snapshot(m, row, i, k).content = row.content
    BY DEF Snapshot
  <2>. QED
    BY <2>1, <2>2 DEF KnownIn
<1>3. DependsOnKnown(hist', row.dep)
  BY <1>1, KnownGrows DEF DependsOnKnown
<1>. QED
  BY <1>1, <1>2, <1>3, ProjectDeps

LEMMA NextDeps == IInv /\ DepsInv /\ [Next]_vars => DepsInv'
<1> SUFFICES ASSUME IInv, DepsInv, [Next]_vars PROVE DepsInv'
  OBVIOUS
<1>1. ASSUME NEW c \in Clients, NEW m \in Memories, ApplyCreate(c, m) PROVE DepsInv'
  <2>1. h[c].req \in Requests /\ h[c].req.op = "create"
    BY <1>1 DEF ApplyCreate, Stage, IInv, Busy
  <2>2. Created(h[c].req) \in Row /\ Created(h[c].req).cls \in Class
    BY <2>1, CreatedType
  <2>3. DependsOnKnown(hist, Created(h[c].req).dep)
    BY DEF Created, DependsOnKnown
  <2>. QED
    BY <1>1, <2>2, <2>3, CommitDeps DEF ApplyCreate
<1>2. ASSUME NEW c \in Clients, ApplyUpdate(c) PROVE DepsInv'
  <2> DEFINE q == h[c].req
             row == Edited(q, mem[q.id])
  <2>1. q.id \in Memories /\ row \in Row /\ row.cls \in Class
    BY <1>2, UpdateAppends
  <2>2. DependsOnKnown(hist, row.dep)
    BY <1>2, <2>1 DEF ApplyUpdate, Editable, Current, Edited, DepsInv
  <2>. QED
    BY <1>2, <2>1, <2>2, CommitDeps DEF ApplyUpdate
<1>3. ASSUME NEW b \in Backups, ImportRecord(b) PROVE DepsInv'
  <2>1. b.id \in Memories /\ b.row \in Row /\ b.row.cls \in Class
    BY BackupAssumption DEF Archive
  <2>2. DependsOnKnown(hist', b.row.dep)
    BY BackupAssumption DEF DependsOnKnown
  <2>3. \E v \in b.history : v.rev = b.row.rev
    BY <2>1, BackupAssumption DEF Row
  <2>4. KnownIn(hist', b.id, b.row.rev, b.row.content)
    BY <1>3, <2>3, BackupAssumption DEF ImportRecord, KnownIn
  <2>. QED
    BY <1>3, <2>1, <2>2, <2>4, ProjectDeps DEF ImportRecord
<1>4. ASSUME NEW m \in Memories, DeleteMemory(m) PROVE DepsInv'
  BY <1>4 DEF DeleteMemory, DepsInv, IInv, TypeOK
<1>5. ASSUME NEW m \in LegacyRows, ImportLegacy(m) PROVE DepsInv'
  BY <1>5, LegacyType DEF ImportLegacy, DepsInv, DependsOnKnown, Legacy, IInv, TypeOK
<1>6. ASSUME UNCHANGED <<mem, hist, links>> PROVE DepsInv'
  BY <1>6 DEF DepsInv
<1>. QED
  BY <1>1, <1>2, <1>3, <1>4, <1>5, <1>6
  DEF Next, vars, Begin, Replay, ReadCurrent, Validate, ApplyReplay, ApplyRefused, Reply, Crash

\* A relationship between memories is shown only while its target says what it
\* said when the relationship was first committed (persistClaim and the
\* relationships endpoint).
THEOREM RelationshipsArePinned == Spec => []LinksPinned
<1>1. Init => DepsInv
  BY LegacyType DEF Init, DepsInv, DependsOnKnown, LinksKnown, Legacy
<1>2. IInv /\ DepsInv => LinksPinned
  <2> SUFFICES ASSUME IInv, DepsInv, NEW l \in Shown, l.said # NoContent
               PROVE  mem[l.target].content = l.said
    BY DEF LinksPinned
  <2>1. l \in links /\ l.target \in Memories
    BY DEF Shown, IInv, TypeOK, Link
  <2>2. Known(l.target, l.targetRev, l.said)
    BY <2>1 DEF DepsInv, LinksKnown, Known, KnownIn
  <2>3. Known(l.target, l.targetRev, mem[l.target].content)
    BY <2>1, RowKnown DEF Shown
  <2>. QED
    BY <2>2, <2>3, KnownFunctional
<1>. QED
  BY <1>1, <1>2, NextDeps, Invariance, PTL DEF Spec
-----------------------------------------------------------------------------
(* The write path implements the ledger.                                   *)

EntryOf(v) == [id |-> v.id, rev |-> v.rev, content |-> v.content]
LogOf(hs) == {[id |-> v.id, rev |-> v.rev, content |-> v.content] : v \in hs}
HeadOf(rows) == [m \in Memories |-> IF rows[m] = NoRow THEN 0 ELSE rows[m].rev]

\* The log of a history with one row per revision says one thing of each.
LEMMA LogFunctional ==
    ASSUME HistFunctional
    PROVE  Ledger!SaysOneThing(LogOf(hist))
BY DEF HistFunctional, Ledger!SaysOneThing, LogOf

LEMMA LogTyped ==
    ASSUME NEW hs \in SUBSET Revision
    PROVE  LogOf(hs) \subseteq Ledger!Entry
BY DEF LogOf, Revision, Ledger!Entry

\* A history that grows about m up to revision r is a log that does.
LEMMA LogGrowth ==
    ASSUME HistFunctional', NEW m, NEW r, NEW new \in SUBSET Revision,
           hist' = hist \cup new, \A v \in new : v.id = m /\ v.rev <= r
    PROVE  Ledger!LogGrows(m, r)
<1>1. LogOf(hist) \subseteq LogOf(hist')
  BY DEF LogOf
<1>2. Ledger!SaysOneThing(LogOf(hist'))
  BY DEF HistFunctional, Ledger!SaysOneThing, LogOf
<1>3. ASSUME NEW e \in LogOf(hist') \ LogOf(hist)
      PROVE  e \in Ledger!Entry /\ e.id = m /\ e.rev <= r
  <2>1. PICK v \in hist' : e = EntryOf(v)
    BY DEF LogOf, EntryOf
  <2>2. v \in new
    BY <2>1, <1>3 DEF LogOf, EntryOf
  <2>. QED
    BY <2>1, <2>2 DEF EntryOf, Revision, Ledger!Entry
<1>. QED
  BY <1>1, <1>2, <1>3 DEF Ledger!LogGrows, LogOf

LEMMA InitLedger == Init => Ledger!Init
<1> SUFFICES ASSUME Init PROVE Ledger!Init
  OBVIOUS
<1>1. IInv
  BY InitIInv
<1>2. LogOf(hist) \subseteq Ledger!Entry /\ Ledger!SaysOneThing(LogOf(hist))
  BY <1>1, LogTyped, LogFunctional DEF IInv, TypeOK, HistInv
<1>3. HeadOf(mem) \in [Memories -> Nat]
  BY <1>1 DEF IInv, TypeOK, HeadOf, Row
<1>. QED
  BY <1>2, <1>3 DEF Init, Ledger!Init, LogOf, HeadOf, Unused, Ledger!Unused

\* A commit answers its key with the entry it adds to the log.
LEMMA CommitAnswers ==
    ASSUME IInv, NEW c \in Clients, FirstUse(c), NEW m \in Memories, NEW row \in Row,
           row.cls \in Class, ~ Recorded(m, row.rev), NEW snaps, Commit(c, m, row, snaps),
           NEW q, q = h[c].req, NEW r, r = row.rev, NEW x, x = row.content
    PROVE  Ledger!Answer(q, m, r, x)
<1> DEFINE e == [id |-> m, rev |-> r, content |-> x]
<1>1. receipts[q.key] = Unused
      /\ receipts' = [receipts EXCEPT ![q.key] =
                        [req |-> q, id |-> m, rev |-> r, content |-> x]]
  BY DEF FirstUse, Commit, Answer
<1>2. e \in LogOf(hist')
  <2>1. Snapshot(m, row, q.intent, q.key) \in hist'
    BY DEF Commit
  <2>. QED
    BY <2>1 DEF LogOf, Snapshot
<1>3. e \notin LogOf(hist)
  BY DEF LogOf, Recorded
<1>4. HeadOf(mem') = [HeadOf(mem) EXCEPT ![m] = r]
  <2>1. /\ mem' \in Rows /\ mem'[m] \in Row /\ mem'[m].rev = r
        /\ \A n \in Memories : n # m => mem'[n] = mem[n]
    BY ProjectEffect DEF Commit, IInv
  <2>. QED
    BY <2>1, SentinelAssumption DEF HeadOf
<1>5. told' = told
  BY DEF Commit
<1>. QED
  BY <1>1, <1>2, <1>3, <1>4, <1>5 DEF Ledger!Answer, Ledger!Unused, Unused, LogOf, HeadOf

LEMMA CreateRefines ==
    ASSUME IInv, IInv', NEW c \in Clients, NEW m \in Memories, ApplyCreate(c, m),
           NEW q \in Requests, q = h[c].req
    PROVE  Ledger!Create(q, m)
<1>1. q.op = "create" /\ q.key \in Keys /\ q.intent \in Intents
  BY RequestAssumption DEF ApplyCreate, Request
<1>2. PICK row \in Row : row = Created(q)
  BY <1>1, CreatedType
<1>3. row.cls \in Class /\ row.rev = 1 /\ row.content = q.content
  BY <1>1, <1>2, CreatedType
<1>4. ~ Recorded(m, row.rev) /\ mem[m] = NoRow /\ \A v \in hist : v.id # m
  BY <1>3 DEF ApplyCreate, Fresh, Recorded
<1>5. Commit(c, m, row, {}) /\ FirstUse(c)
  BY <1>2 DEF ApplyCreate
<1>6. Ledger!Answer(q, m, 1, q.content)
  BY <1>3, <1>4, <1>5, CommitAnswers
<1>7. PICK w \in Revision : w = Snapshot(m, row, q.intent, q.key)
  BY <1>1, <1>3, SnapshotType
<1>8. w.id = m /\ w.rev = 1 /\ hist' = hist \cup {w}
  BY <1>1, <1>3, <1>5, <1>7, SnapshotType DEF Commit
<1>9. Ledger!LogGrows(m, 1)
  <2>1. {w} \in SUBSET Revision /\ \A v \in {w} : v.id = m /\ v.rev <= 1
    BY <1>8
  <2>2. HistFunctional'
    BY DEF IInv, HistInv
  <2>. QED
    BY <2>1, <2>2, <1>8, LogGrowth
<1>10. HeadOf(mem)[m] = 0 /\ \A e \in LogOf(hist) : e.id # m
  BY <1>4 DEF HeadOf, LogOf
<1>. QED
  BY <1>1, <1>6, <1>9, <1>10 DEF Ledger!Create, LogOf, HeadOf

LEMMA UpdateRefines ==
    ASSUME IInv, IInv', NEW c \in Clients, ApplyUpdate(c),
           NEW q \in Requests, q = h[c].req, NEW x, x = Edited(q, mem[q.id]).content
    PROVE  x \in Contents /\ Ledger!Update(q, x)
<1> DEFINE m == q.id
<1>1. /\ q.op = "update" /\ m \in Memories /\ q \in Request /\ q.expected # 0
      /\ q.expected \in Nat /\ q.intent \in Intents /\ q.key \in Keys
  BY RequestAssumption DEF ApplyUpdate, CreateOK, UpdateOK, Request
<1>2. PICK p \in Row : p = mem[m] /\ p.rev = q.expected
  BY <1>1 DEF ApplyUpdate, Editable, Current, IInv, TypeOK
<1>3. PICK snaps \in SUBSET Revision :
        snaps = IF Recorded(m, p.rev) THEN {}
                ELSE {Snapshot(m, p, "legacy_snapshot", NoRequest)}
  BY <1>2, UpdateAppends
<1>4. PICK row \in Row : row = Edited(q, p)
  BY <1>1, <1>2, EditedType
<1>5. /\ row.rev = q.expected + 1 /\ row.content = x /\ x \in Contents
      /\ q.content \in {Keep, x}
  BY <1>1, <1>2, <1>4, EditedType DEF Row
<1>6. row.cls \in Class /\ ~ Recorded(m, row.rev)
  BY <1>2, <1>4 DEF ApplyUpdate, Editable, Writable, Row
<1>7. Commit(c, m, row, snaps) /\ FirstUse(c)
  BY <1>2, <1>3, <1>4 DEF ApplyUpdate, Preserved
<1>8. Ledger!Answer(q, m, q.expected + 1, x)
  BY <1>1, <1>5, <1>6, <1>7, CommitAnswers
<1>9. PICK w \in Revision : w = Snapshot(m, row, q.intent, q.key)
  BY <1>1, SnapshotType
<1>10. w.id = m /\ w.rev = q.expected + 1 /\ hist' = hist \cup (snaps \cup {w})
  BY <1>1, <1>5, <1>7, <1>9, SnapshotType DEF Commit
<1>11. \A v \in snaps : v.id = m /\ v.rev = q.expected
  BY <1>2, <1>3 DEF Snapshot
<1>12. PICK new \in SUBSET Revision : new = snaps \cup {w}
  OBVIOUS
<1>13. \A v \in new : v.id = m /\ v.rev <= q.expected + 1 /\ v.rev >= q.expected
  BY <1>1, <1>10, <1>11, <1>12
<1>14. Ledger!LogGrows(q.id, q.expected + 1)
  <2>1. HistFunctional'
    BY DEF IInv, HistInv
  <2>. QED
    BY <2>1, <1>10, <1>12, <1>13, LogGrowth
<1>15. \A e \in LogOf(hist') \ LogOf(hist) : e.rev >= q.expected
  BY <1>10, <1>12, <1>13 DEF LogOf
<1>16. HeadOf(mem)[m] = q.expected
  BY <1>1, <1>2, SentinelAssumption DEF HeadOf
<1>. QED
  BY <1>1, <1>5, <1>8, <1>14, <1>15, <1>16 DEF Ledger!Update, LogOf, HeadOf
LEMMA TellRefines ==
    ASSUME IInv, NEW c \in Clients, NEW k \in Keys, receipts[k] # Unused,
           Tell(c, receipts[k]), UNCHANGED <<mem, hist, links, receipts, catalog>>
    PROVE  Ledger!Tell(k)
BY DEF Tell, Ledger!Tell, Ledger!Unused, Unused

LEMMA ImportRefines ==
    ASSUME IInv, IInv', NEW b \in Backups, ImportRecord(b), NEW m \in Memories, m = b.id
    PROVE  Ledger!Restore(m)
<1>1. /\ b.row \in Row /\ b.row.cls \in Class /\ b.row.rev \in Nat \ {0}
      /\ b.history \in SUBSET Revision
      /\ \A v \in b.history : v.id = m /\ v.rev <= b.row.rev
  BY BackupAssumption DEF Archive, Row
<1>2. PICK r \in Nat \ {0} : r = b.row.rev
  BY <1>1
<1>3. /\ mem' \in Rows /\ mem'[m] \in Row /\ mem'[m].rev = r
      /\ \A n \in Memories : n # m => mem'[n] = mem[n]
  BY <1>1, <1>2, ProjectEffect DEF ImportRecord, IInv
<1>4. HeadOf(mem)[m] = 0 /\ HeadOf(mem')[m] = r
      /\ HeadOf(mem') = [HeadOf(mem) EXCEPT ![m] = HeadOf(mem')[m]]
  BY <1>3, SentinelAssumption DEF ImportRecord, HeadOf
<1>5. Ledger!LogGrows(m, r)
  <2>1. HistFunctional' /\ hist' = hist \cup b.history
    BY DEF IInv, HistInv, ImportRecord
  <2>. QED
    BY <2>1, <1>1, <1>2, LogGrowth
<1>6. UNCHANGED <<receipts, told>>
  BY DEF ImportRecord
<1>. QED
  BY <1>2, <1>4, <1>5, <1>6 DEF Ledger!Restore, Ledger!LogGrows, HeadOf

LEMMA LegacyRefines ==
    ASSUME IInv, NEW m \in LegacyRows, ImportLegacy(m)
    PROVE  Ledger!Restore(m)
<1>1. m \in Memories /\ Legacy(m) # NoRow /\ Legacy(m).rev = 1
  BY LegacyType, SentinelAssumption
<1>2. HeadOf(mem)[m] = 0 /\ HeadOf(mem')[m] = 1
      /\ HeadOf(mem') = [HeadOf(mem) EXCEPT ![m] = HeadOf(mem')[m]]
  BY <1>1 DEF ImportLegacy, HeadOf, IInv, TypeOK
<1>3. LogOf(hist') = LogOf(hist) /\ Ledger!SaysOneThing(LogOf(hist)) /\ UNCHANGED <<receipts, told>>
  BY LogFunctional DEF ImportLegacy, LogOf, IInv, HistInv
<1>. QED
  BY <1>2, <1>3 DEF Ledger!Restore, Ledger!LogGrows, LogOf, HeadOf

LEMMA DeleteRefines ==
    ASSUME IInv, NEW m \in Memories, DeleteMemory(m)
    PROVE  Ledger!Forget(m)
<1>1. mem[m] \in Row /\ mem[m].rev # 0
  BY DEF DeleteMemory, IInv, TypeOK, Row
<1>2. HeadOf(mem)[m] # 0 /\ HeadOf(mem') = [HeadOf(mem) EXCEPT ![m] = 0]
  BY <1>1 DEF DeleteMemory, HeadOf, IInv, TypeOK
<1>. QED
  BY <1>2 DEF Ledger!Forget, DeleteMemory, HeadOf

LEMMA NextRefines == IInv /\ IInv' /\ [Next]_vars => [Ledger!Next]_Ledger!lvars
<1> SUFFICES ASSUME IInv, IInv', [Next]_vars PROVE [Ledger!Next]_Ledger!lvars
  OBVIOUS
<1>1. ASSUME UNCHANGED <<mem, hist, receipts, told>> PROVE UNCHANGED Ledger!lvars
  BY <1>1 DEF Ledger!lvars
<1>2. ASSUME NEW c \in Clients, NEW q \in Requests, Replay(c, q) PROVE Ledger!Next
  <2>1. q.key \in Keys /\ receipts[q.key] # Unused
    BY <1>2, RequestAssumption, SentinelAssumption DEF Replay, Request, Unused
  <2>2. Ledger!Tell(q.key)
    BY <1>2, <2>1, TellRefines DEF Replay
  <2>. QED
    BY <2>1, <2>2 DEF Ledger!Next
<1>3. ASSUME NEW c \in Clients, Reply(c) PROVE Ledger!Next
  <2>1. PICK k \in Keys : k = h[c].req.key /\ receipts[k] # Unused
    BY <1>3, RequestAssumption, SentinelAssumption
    DEF Reply, Stage, IInv, Busy, Request, Unused
  <2>2. Ledger!Tell(k)
    BY <1>3, <2>1, TellRefines DEF Reply
  <2>. QED
    BY <2>1, <2>2 DEF Ledger!Next
<1>4. ASSUME NEW c \in Clients, NEW m \in Memories, ApplyCreate(c, m) PROVE Ledger!Next
  <2>1. PICK q \in Requests : q = h[c].req
    BY <1>4 DEF ApplyCreate, Stage, IInv, Busy
  <2>2. Ledger!Create(q, m)
    BY <1>4, <2>1, CreateRefines
  <2>. QED
    BY <2>2 DEF Ledger!Next
<1>5. ASSUME NEW c \in Clients, ApplyUpdate(c) PROVE Ledger!Next
  <2>1. PICK q \in Requests : q = h[c].req
    BY <1>5 DEF ApplyUpdate, Stage, IInv, Busy
  <2>2. PICK x : x = Edited(q, mem[q.id]).content
    OBVIOUS
  <2>3. x \in Contents /\ Ledger!Update(q, x)
    BY <1>5, <2>1, <2>2, UpdateRefines
  <2>. QED
    BY <2>3 DEF Ledger!Next
<1>6. ASSUME NEW m \in Memories, DeleteMemory(m) PROVE Ledger!Next
  BY <1>6, DeleteRefines DEF Ledger!Next
<1>7. ASSUME NEW b \in Backups, ImportRecord(b) PROVE Ledger!Next
  <2>1. PICK m \in Memories : m = b.id
    BY BackupAssumption DEF Archive
  <2>. QED
    BY <1>7, <2>1, ImportRefines DEF Ledger!Next
<1>8. ASSUME NEW m \in LegacyRows, ImportLegacy(m) PROVE Ledger!Next
  BY <1>8, LegacyRefines, LegacyType DEF Ledger!Next
<1>. QED
  BY <1>1, <1>2, <1>3, <1>4, <1>5, <1>6, <1>7, <1>8
  DEF Next, vars, Begin, ReadCurrent, Validate, ApplyReplay, ApplyRefused, Crash

\* The write path with its stages, receipts, retries and crashes implements the
\* ledger: one answer per key, no overwritten edit, an append-only log.
THEOREM ImplementsLedger == Spec => LedgerSpec
BY InitLedger, NextRefines, Invariance, PTL DEF Spec, LedgerSpec, Ledger!Spec
=============================================================================
