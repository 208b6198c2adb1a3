-------------------------- MODULE ModelSwitchProofs --------------------------
(***************************************************************************)
(* Proofs about MemoryVectors and ModelSwitch, for any memories, models,   *)
(* runs, clients, deletions, saves, revisions and faults, and whatever the *)
(* time a step takes: the types; that a search finds the text of the row;  *)
(* that no point is left over when nothing fails; and that a row that says *)
(* it is embedded is found, but for what a process wrote without knowing   *)
(* the pin.                                                                *)
(***************************************************************************)
EXTENDS ModelSwitch, TLAPS

-----------------------------------------------------------------------------
(* Types.                                                                  *)

Deleting == [pc : {"new", "purge", "end"}, mem : Memories \cup {NoRow},
             row : Row \cup {NoRow}]
Saving == [pc : {"new", "start", "store", "end"} \cup Running, from : Pins, to : Pins,
           left : SUBSET Keys, page : Keys \cup {NoPage}, text : 0..MaxRev]
PinRecord == [db : Pins, api : Pins, worker : Pins]

TInv == /\ TypeOK
        /\ del \in [Deletions -> Deleting] /\ save \in [Saves -> Saving]
        /\ \A d \in Deletions : del[d].pc = "purge" => del[d].mem \in Memories
        /\ \A s \in Saves : save[s].page # NoPage => save[s].text \in Revs

\* The handler of a save, up to its answer.
Handled(s) == \/ \E p \in Pins : Resume(s, p) \/ Begin(s, p) \/ Refuse(s, p) \/ Keep(s, p)
              \/ Start(s) \/ Store(s)

LEMMA Consts ==
    /\ EnvPin \in Pins /\ MaxRev \in Nat \ {0} /\ MaxFaults \in Nat
    /\ Revs \subseteq Nat /\ 1 \in Revs
    /\ Unborn # NoRow /\ Unborn \notin Row /\ NoRow \notin Row
    /\ NoPoint \notin Point /\ NoVector \notin Vector
BY VectorAssumption DEF Revs

LEMMA NewStates ==
    /\ Idle \in Task /\ Resting \in Deleting /\ [Resting EXCEPT !.pc = "end"] \in Deleting
    /\ [Resting EXCEPT !.pc = "end"].pc = "end" /\ Resting.pc = "new"
    /\ NewSave \in Saving /\ Ended \in Saving /\ Ended.page = NoPage /\ NewSave.page = NoPage
    /\ \A m \in Memories : Idle.seen[m] = 0
<1>1. Idle \in Task /\ \A m \in Memories : Idle.seen[m] = 0
  BY Consts DEF Idle, Task, Nothing
<1>2. /\ Resting \in Deleting /\ [Resting EXCEPT !.pc = "end"] \in Deleting
      /\ [Resting EXCEPT !.pc = "end"].pc = "end" /\ Resting.pc = "new"
  BY DEF Resting, Deleting
<1>3. NewSave \in Saving /\ NewSave.page = NoPage
  BY Consts DEF NewSave, Saving
<1>4. Ended \in Saving /\ Ended.page = NoPage
  BY <1>3 DEF Ended, Saving, NewSave
<1> QED
  BY <1>1, <1>2, <1>3, <1>4

LEMMA TInvInit == Init => TInv
<1> SUFFICES ASSUME Init PROVE TInv
  OBVIOUS
<1>1. del \in [Deletions -> Deleting] /\ \A d \in Deletions : del[d].pc = "new"
  BY NewStates DEF Init, VInit
<1>2. /\ save \in [Saves -> Saving] /\ status \in Status /\ whole \in BOOLEAN
      /\ sound \subseteq Saves /\ lagged \subseteq Keys
  BY Consts, NewStates DEF Init, Status
<1>3. /\ mode \in {"server", "client-bridge"} /\ mem \in [Memories -> Row \cup {Unborn, NoRow}]
      /\ points \in [Memories -> [Revs -> Point \cup {NoPoint}]] /\ names \subseteq Pins
      /\ pin \in PinRecord /\ task \in [Actors -> Task] /\ faults \in 0..MaxFaults
  BY Consts, NewStates DEF Init, VInit, PinRecord
<1>4. \A s \in Saves : save[s].page = NoPage
  BY NewStates DEF Init
<1> QED
  BY <1>1, <1>2, <1>3, <1>4 DEF TInv, TypeOK, PinRecord

\* A row and what becomes of it.
LEMMA RowTypes ==
    ASSUME TypeOK, NEW m \in Memories, Exists(m)
    PROVE  /\ mem[m] \in Row /\ mem[m].rev \in Revs
           /\ \A r \in Revs : Marked(m, r) \in Row /\ Marked(m, r).rev = mem[m].rev
           /\ mem[m].rev < MaxRev => /\ Edited(mem[m]) \in Row
                                     /\ Edited(mem[m]).rev = mem[m].rev + 1
<1>1. mem[m] \in Row /\ mem[m].rev \in Revs
  BY DEF TypeOK, Exists, Row
<1>2. ASSUME NEW r \in Revs PROVE Marked(m, r) \in Row /\ Marked(m, r).rev = mem[m].rev
  <2>1. r \in 0..MaxRev
    BY Consts DEF Revs
  <2> QED
    BY <1>1, <2>1 DEF Marked, Row
<1>3. ASSUME mem[m].rev < MaxRev
      PROVE  Edited(mem[m]) \in Row /\ Edited(mem[m]).rev = mem[m].rev + 1
  <2>1. mem[m].rev + 1 \in Revs
    BY <1>1, <1>3, Consts DEF Revs
  <2> QED
    BY <1>1, <2>1 DEF Edited, Row
<1> QED
  BY <1>1, <1>2, <1>3

LEMMA TaskTypes ==
    ASSUME TypeOK, NEW a \in Actors
    PROVE  /\ task[a] \in Task /\ task[a].by \in Pins /\ PinOf(a) \in Pins
           /\ \A m \in Memories : task[a].seen[m] \in 0..MaxRev
           /\ \A m \in Items(a) : Attempted(a, m) \in Revs
           /\ Rest(a) => task' \in [Actors -> Task]
           /\ \A pc \in {"put", "clean", "stamp", "undo"} : To(a, pc) => task' \in [Actors -> Task]
<1>1. task \in [Actors -> Task] /\ task[a] \in Task /\ pin \in PinRecord
  BY DEF TypeOK, PinRecord
<1>2. task[a].by \in Pins /\ \A m \in Memories : task[a].seen[m] \in 0..MaxRev
  BY <1>1 DEF Task
<1>3. PinOf(a) \in Pins
  BY <1>1 DEF PinOf, PinRecord
<1>4. \A m \in Items(a) : Attempted(a, m) \in Revs
  BY <1>2, Consts DEF Items, Attempted, Revs
<1>5. ASSUME NEW pc \in {"put", "clean", "stamp", "undo"}, To(a, pc) PROVE task' \in [Actors -> Task]
  <2>1. [task[a] EXCEPT !.pc = pc] \in Task
    BY <1>1 DEF Task
  <2>2. task' = [task EXCEPT ![a] = [task[a] EXCEPT !.pc = pc]]
    BY <1>1, <1>5 DEF To
  <2> QED
    BY <1>1, <2>1, <2>2
<1>6. Rest(a) => task' \in [Actors -> Task]
  BY <1>1, NewStates DEF Rest
<1> QED
  BY <1>1, <1>2, <1>3, <1>4, <1>5, <1>6

LEMMA PendingTypes ==
    ASSUME TypeOK
    PROVE  Pending \in [Memories -> 0..MaxRev]
           /\ \A m \in Memories : Pending[m] # 0 => Exists(m) /\ Pending[m] = mem[m].rev
<1>1. \A m \in Memories : Exists(m) => mem[m].rev \in Revs
  BY RowTypes
<1> QED
  BY <1>1, Consts DEF Pending, Revs

\* The points of a step, revision by revision.
LEMMA PointTypes ==
    ASSUME TypeOK, NEW a \in Actors
    PROVE  /\ Upserted(a) \in [Memories -> [Revs -> Point \cup {NoPoint}]]
           /\ Cleaned(a) \in [Memories -> [Revs -> Point \cup {NoPoint}]]
           /\ Undone(a) \in [Memories -> [Revs -> Point \cup {NoPoint}]]
<1>1. \A m \in Memories : \A r \in Revs : points[m][r] \in Point \cup {NoPoint}
  BY DEF TypeOK
<1>2. ASSUME NEW r \in Revs
      PROVE  [p \in Pins |-> IF p = PinOf(a) THEN [of |-> r, by |-> task[a].by] ELSE NoVector] \in Point
  BY TaskTypes DEF Point, Vector
<1> QED
  BY <1>1, <1>2 DEF Upserted, Cleaned, Undone

-----------------------------------------------------------------------------
(* Which steps change what.                                                *)

LEMMA MemFrame ==
    ASSUME [Next]_vars
    PROVE  \/ mem' = mem
           \/ \E m \in Memories : VCreate(m) \/ VEdit(m)
           \/ \E d \in Deletions, m \in Memories : DeleteCommit(d, m)
           \/ \E w \in Runs : BackfillStamp(w)
           \/ \E b \in Bridges : PostStamp(b)
<1> USE DEF Still, Stored, svars, history
<1>1. CASE Others
  BY <1>1 DEF Others, DeletePurge, DeleteFails, Clean, PutRefused, ActorFails,
              BackfillRead, Fetch, Post, PostUndo
<1>2. CASE \E a \in Actors : Upsert(a)
  BY <1>2 DEF Upsert, Put
<1>3. ASSUME NEW s \in Saves, Handled(s)
      PROVE  mem' = mem
  BY <1>3 DEF Handled, SaveRead, Resume, Begin, Refuse, Keep, Start, Store
<1>4. ASSUME NEW s \in Saves, \/ AddVector(s) \/ (\E k \in Keys : Scroll(s, k)) \/ WriteTarget(s)
                              \/ FirstEnds(s) \/ PersistPin(s) \/ ApplyPin(s) \/ SecondEnds(s)
                              \/ DropOld(s) \/ WriteStatus(s) \/ SwitchFails(s) \/ StatusFails(s)
      PROVE  mem' = mem
  BY <1>4 DEF AddVector, Scroll, WriteTarget, FirstEnds, PersistPin, ApplyPin, SecondEnds,
              DropOld, WriteStatus, SwitchFails, StatusFails
<1>5. CASE Refresh \/ ApiRestart \/ WorkerRestart
  BY <1>5 DEF Refresh, ApiRestart, WorkerRestart
<1>6. CASE UNCHANGED vars
  BY <1>6 DEF vars
<1> QED
  BY <1>1, <1>2, <1>3, <1>4, <1>5, <1>6 DEF Next, Handled

LEMMA PointsFrame ==
    ASSUME [Next]_vars
    PROVE  \/ points' = points
           \/ \E d \in Deletions : DeletePurge(d)
           \/ \E a \in Actors : Upsert(a) \/ Clean(a) \/ ActorFails(a)
           \/ \E w \in Runs : BackfillStamp(w)
           \/ \E b \in Bridges : PostUndo(b)
           \/ \E s \in Saves : WriteTarget(s) \/ DropOld(s)
<1> USE DEF Still, Stored, svars, history
<1>1. CASE Others
  BY <1>1 DEF Others, VCreate, VEdit, DeleteCommit, DeleteFails, PutRefused,
              BackfillRead, Fetch, Post, PostStamp
<1>2. CASE \E a \in Actors : Upsert(a)
  BY <1>2
<1>3. ASSUME NEW s \in Saves, Handled(s)
      PROVE  points' = points
  BY <1>3 DEF Handled, SaveRead, Resume, Begin, Refuse, Keep, Start, Store
<1>4. ASSUME NEW s \in Saves, \/ AddVector(s) \/ (\E k \in Keys : Scroll(s, k))
                              \/ FirstEnds(s) \/ PersistPin(s) \/ ApplyPin(s) \/ SecondEnds(s)
                              \/ WriteStatus(s) \/ SwitchFails(s) \/ StatusFails(s)
      PROVE  points' = points
  BY <1>4 DEF AddVector, Scroll, FirstEnds, PersistPin, ApplyPin, SecondEnds, WriteStatus,
              SwitchFails, StatusFails
<1>5. CASE Refresh \/ ApiRestart \/ WorkerRestart
  BY <1>5 DEF Refresh, ApiRestart, WorkerRestart
<1>6. CASE UNCHANGED vars
  BY <1>6 DEF vars
<1> QED
  BY <1>1, <1>2, <1>3, <1>4, <1>5, <1>6 DEF Next, Handled

LEMMA TaskFrame ==
    ASSUME [Next]_vars
    PROVE  \/ task' = task
           \/ \E a \in Actors : Put(a) \/ Clean(a) \/ PutRefused(a) \/ ActorFails(a)
           \/ \E w \in Runs : BackfillRead(w) \/ BackfillStamp(w)
           \/ \E b \in Bridges : \/ \E m \in Memories : Fetch(b, m)
                                 \/ Post(b) \/ PostStamp(b) \/ PostUndo(b)
           \/ ApiRestart \/ WorkerRestart
<1> USE DEF Still, Stored, svars, history
<1>1. CASE Others
  BY <1>1 DEF Others, VCreate, VEdit, DeleteCommit, DeletePurge, DeleteFails
<1>2. CASE \E a \in Actors : Upsert(a)
  BY <1>2 DEF Upsert
<1>3. ASSUME NEW s \in Saves, Handled(s)
      PROVE  task' = task
  BY <1>3 DEF Handled, SaveRead, Resume, Begin, Refuse, Keep, Start, Store
<1>4. ASSUME NEW s \in Saves, \/ AddVector(s) \/ (\E k \in Keys : Scroll(s, k)) \/ WriteTarget(s)
                              \/ FirstEnds(s) \/ PersistPin(s) \/ ApplyPin(s) \/ SecondEnds(s)
                              \/ DropOld(s) \/ WriteStatus(s) \/ SwitchFails(s) \/ StatusFails(s)
      PROVE  task' = task
  BY <1>4 DEF AddVector, Scroll, WriteTarget, FirstEnds, PersistPin, ApplyPin, SecondEnds,
              DropOld, WriteStatus, SwitchFails, StatusFails
<1>5. CASE Refresh
  BY <1>5 DEF Refresh
<1>6. CASE UNCHANGED vars
  BY <1>6 DEF vars
<1> QED
  BY <1>1, <1>2, <1>3, <1>4, <1>5, <1>6 DEF Next, Handled

LEMMA DelFrame ==
    ASSUME [Next]_vars
    PROVE  \/ del' = del
           \/ \E d \in Deletions : \/ \E m \in Memories : DeleteCommit(d, m)
                                   \/ DeletePurge(d) \/ DeleteFails(d)
           \/ ApiRestart
<1> USE DEF Still, Stored, svars, history
<1>1. CASE Others
  BY <1>1 DEF Others, VCreate, VEdit, Clean, PutRefused, ActorFails, BackfillRead,
              BackfillStamp, Fetch, Post, PostStamp, PostUndo
<1>2. CASE \E a \in Actors : Upsert(a)
  BY <1>2 DEF Upsert, Put
<1>3. ASSUME NEW s \in Saves, Handled(s)
      PROVE  del' = del
  BY <1>3 DEF Handled, SaveRead, Resume, Begin, Refuse, Keep, Start, Store
<1>4. ASSUME NEW s \in Saves, \/ AddVector(s) \/ (\E k \in Keys : Scroll(s, k)) \/ WriteTarget(s)
                              \/ FirstEnds(s) \/ PersistPin(s) \/ ApplyPin(s) \/ SecondEnds(s)
                              \/ DropOld(s) \/ WriteStatus(s) \/ SwitchFails(s) \/ StatusFails(s)
      PROVE  del' = del
  BY <1>4 DEF AddVector, Scroll, WriteTarget, FirstEnds, PersistPin, ApplyPin, SecondEnds,
              DropOld, WriteStatus, SwitchFails, StatusFails
<1>5. CASE Refresh \/ WorkerRestart
  BY <1>5 DEF Refresh, WorkerRestart
<1>6. CASE UNCHANGED vars
  BY <1>6 DEF vars
<1> QED
  BY <1>1, <1>2, <1>3, <1>4, <1>5, <1>6 DEF Next, Handled

LEMMA SwitchFrame ==
    ASSUME [Next]_vars
    PROVE  \/ UNCHANGED <<names, pin, status, save>>
           \/ \E s \in Saves :
                \/ Handled(s)
                \/ AddVector(s) \/ (\E k \in Keys : Scroll(s, k)) \/ WriteTarget(s)
                \/ FirstEnds(s) \/ PersistPin(s) \/ ApplyPin(s) \/ SecondEnds(s)
                \/ DropOld(s) \/ WriteStatus(s) \/ SwitchFails(s) \/ StatusFails(s)
           \/ Refresh \/ ApiRestart \/ WorkerRestart
<1> USE DEF svars, history
<1>1. CASE Others /\ UNCHANGED svars
  BY <1>1 DEF Others, VCreate, VEdit, DeleteCommit, DeletePurge, DeleteFails,
              Clean, PutRefused, ActorFails, BackfillRead, BackfillStamp, Fetch, Post,
              PostStamp, PostUndo
<1>2. CASE \E a \in Actors : Upsert(a)
  BY <1>2 DEF Upsert, Put
<1>3. CASE UNCHANGED vars
  BY <1>3 DEF vars
<1> QED
  BY <1>1, <1>2, <1>3 DEF Next, Handled

\* Whatever a save does after its read, it comes of one look at the settings.
LEMMA Reads ==
    ASSUME TypeOK, NEW s \in Saves, NEW p \in Pins,
           Resume(s, p) \/ Begin(s, p) \/ Refuse(s, p) \/ Keep(s, p)
    PROVE  \E pc \in {"start", "store", "end"}, from, to \in Pins : SaveRead(s, pc, from, to)
<1>1. EnvPin \in Pins /\ status.from \in Pins /\ pin.db \in Pins
  BY Consts DEF TypeOK, Status
<1> QED
  BY <1>1 DEF Resume, Begin, Refuse, Keep

LEMMA ReadSave ==
    ASSUME save \in [Saves -> Saving], NEW s \in Saves, NEW pc \in {"start", "store", "end"},
           NEW from \in Pins, NEW to \in Pins, SaveRead(s, pc, from, to)
    PROVE  \E e \in Saving : /\ save' = [save EXCEPT ![s] = e]
                            /\ e.pc = pc /\ e.from = from /\ e.to = to /\ e.page = NoPage
<1> DEFINE e == [NewSave EXCEPT !.pc = pc, !.from = from, !.to = to]
<1>1. NewSave \in Saving /\ NewSave.page = NoPage
  BY NewStates
<1>2. e \in Saving /\ e.pc = pc /\ e.from = from /\ e.to = to /\ e.page = NoPage
  BY <1>1 DEF Saving
<1>3. save' = [save EXCEPT ![s] = e]
  BY DEF SaveRead
<1> QED
  BY <1>2, <1>3

-----------------------------------------------------------------------------
(* The types are kept, variable by variable.                               *)

LEMMA MemTypes ==
    ASSUME TInv, [Next]_vars PROVE mem' \in [Memories -> Row \cup {Unborn, NoRow}]
<1> DEFINE Rows == Row \cup {Unborn, NoRow}
<1>0. TypeOK /\ mem \in [Memories -> Rows]
  BY DEF TInv, TypeOK
<1>1. ASSUME NEW m \in Memories, VCreate(m) PROVE mem' \in [Memories -> Rows]
  <2>1. [rev |-> 1, status |-> "pending", point |-> 0] \in Row
    BY Consts DEF Row
  <2> QED
    BY <1>0, <1>1, <2>1 DEF VCreate
<1>2. ASSUME NEW m \in Memories, VEdit(m) PROVE mem' \in [Memories -> Rows]
  <2>1. Edited(mem[m]) \in Row /\ mem' = [mem EXCEPT ![m] = Edited(mem[m])]
    BY <1>0, <1>2, RowTypes DEF VEdit
  <2> QED
    BY <1>0, <2>1
<1>3. ASSUME NEW d \in Deletions, NEW n \in Memories, DeleteCommit(d, n) PROVE mem' \in [Memories -> Rows]
  BY <1>0, <1>3 DEF DeleteCommit
<1>4. ASSUME NEW w \in Runs, BackfillStamp(w) PROVE mem' \in [Memories -> Rows]
  <2>1. \A m \in Memories : m \in Items(w) /\ Markable(w, m) => Marked(m, Attempted(w, m)) \in Row
    BY <1>0, RowTypes, TaskTypes DEF Markable, Current, Actors
  <2> HIDE DEF Rows
  <2>2. \A m \in Memories : mem[m] \in Rows /\ Row \subseteq Rows
    BY <1>0 DEF Rows
  <2> QED
    BY <1>4, <2>1, <2>2 DEF BackfillStamp
<1>5. ASSUME NEW b \in Bridges, PostStamp(b) PROVE mem' \in [Memories -> Rows]
  <2>1. PICK m \in Items(b) :
          IF Current(b, m)
          THEN mem' = [mem EXCEPT ![m] = Marked(m, Attempted(b, m))]
          ELSE UNCHANGED mem
    BY <1>5 DEF PostStamp
  <2>2. m \in Memories /\ (Current(b, m) => Marked(m, Attempted(b, m)) \in Row)
    BY <1>0, RowTypes, TaskTypes DEF Current, Actors, Items
  <2> QED
    BY <1>0, <2>1, <2>2
<1> QED
  BY <1>0, <1>1, <1>2, <1>3, <1>4, <1>5, MemFrame

LEMMA TaskTyped == ASSUME TInv, [Next]_vars PROVE task' \in [Actors -> Task]
<1>0. TypeOK /\ task \in [Actors -> Task]
  BY DEF TInv, TypeOK
<1>1. ASSUME NEW a \in Actors, \/ Put(a) \/ Clean(a) \/ PutRefused(a) \/ ActorFails(a)
      PROVE  task' \in [Actors -> Task]
  BY <1>0, <1>1, TaskTypes DEF Put, Clean, PutRefused, ActorFails
<1>2. ASSUME NEW w \in Runs, BackfillStamp(w) PROVE task' \in [Actors -> Task]
  BY <1>0, <1>2, TaskTypes DEF BackfillStamp, Actors
<1>3. ASSUME NEW w \in Runs, BackfillRead(w) PROVE task' \in [Actors -> Task]
  <2>1. [pc |-> "put", seen |-> Pending, by |-> pin.worker] \in Task
    BY <1>0, PendingTypes DEF Task, TypeOK
  <2> QED
    BY <1>0, <1>3, <2>1 DEF BackfillRead
<1>4. ASSUME NEW b \in Bridges, NEW m \in Memories, Fetch(b, m) PROVE task' \in [Actors -> Task]
  <2>1. PICK p \in Pins : task' = [task EXCEPT ![b] =
          [pc |-> "idle", seen |-> [Nothing EXCEPT ![m] = Pending[m]], by |-> p]]
    BY <1>4 DEF Fetch
  <2>2. [Nothing EXCEPT ![m] = Pending[m]] \in [Memories -> 0..MaxRev]
    BY <1>0, PendingTypes, Consts DEF Nothing
  <2> QED
    BY <1>0, <2>1, <2>2 DEF Task
<1>5. ASSUME NEW b \in Bridges, Post(b) \/ PostStamp(b) \/ PostUndo(b)
      PROVE  task' \in [Actors -> Task]
  BY <1>0, <1>5, TaskTypes DEF Post, PostStamp, PostUndo, Actors
<1>6. CASE ApiRestart \/ WorkerRestart
  BY <1>0, <1>6, NewStates DEF ApiRestart, WorkerRestart, Stored
<1> QED
  BY <1>0, <1>1, <1>2, <1>3, <1>4, <1>5, <1>6, TaskFrame

LEMMA DelTypes ==
    ASSUME TInv, [Next]_vars
    PROVE  /\ del' \in [Deletions -> Deleting]
           /\ \A d \in Deletions : del'[d].pc = "purge" => del'[d].mem \in Memories
<1> DEFINE Ds == /\ del' \in [Deletions -> Deleting]
                 /\ \A d \in Deletions : del'[d].pc = "purge" => del'[d].mem \in Memories
<1>0. /\ TypeOK /\ del \in [Deletions -> Deleting]
      /\ \A d \in Deletions : del[d].pc = "purge" => del[d].mem \in Memories
  BY DEF TInv
<1>1. ASSUME NEW d \in Deletions, NEW m \in Memories, DeleteCommit(d, m) PROVE Ds
  <2>1. [pc |-> "purge", mem |-> m, row |-> mem[m]] \in Deleting
    BY <1>0, <1>1, RowTypes DEF DeleteCommit, Deleting
  <2> QED
    BY <1>0, <1>1, <2>1 DEF DeleteCommit
<1>3. ASSUME NEW d \in Deletions, DeletePurge(d) \/ DeleteFails(d) PROVE Ds
  <2>1. del' = [del EXCEPT ![d] = [Resting EXCEPT !.pc = "end"]]
    BY <1>3 DEF DeletePurge, DeleteFails
  <2> QED
    BY <1>0, <2>1, NewStates
<1>4. CASE ApiRestart
  <2>1. /\ del' \in [Deletions -> Deleting]
        /\ \A d \in Deletions : del'[d].pc \in {"new", "end"}
    BY <1>0, <1>4, NewStates DEF ApiRestart
  <2> QED
    BY <2>1
<1>5. CASE del' = del
  BY <1>0, <1>5
<1> QED
  BY <1>1, <1>3, <1>4, <1>5, DelFrame

LEMMA PointsTyped ==
    ASSUME TInv, [Next]_vars PROVE points' \in [Memories -> [Revs -> Point \cup {NoPoint}]]
<1> DEFINE Ps == [Memories -> [Revs -> Point \cup {NoPoint}]]
<1>0. TypeOK /\ points \in Ps
  BY DEF TInv, TypeOK
<1>1. ASSUME NEW d \in Deletions, DeletePurge(d) PROVE points' \in Ps
  BY <1>0, <1>1 DEF DeletePurge, Without
<1>2. ASSUME NEW a \in Actors, Put(a) \/ Clean(a) \/ ActorFails(a) PROVE points' \in Ps
  <2>1. points' \in {points, Upserted(a), Cleaned(a), Undone(a)}
    BY <1>2 DEF Put, Clean, ActorFails
  <2> QED
    BY <1>0, <2>1, PointTypes
<1>3. ASSUME NEW a \in Actors, BackfillStamp(a) \/ PostUndo(a) PROVE points' \in Ps
  BY <1>0, <1>3, PointTypes DEF BackfillStamp, PostUndo
<1>4. ASSUME NEW s \in Saves, WriteTarget(s) PROVE points' \in Ps
  <2>1. save[s].to \in Pins /\ save[s].text \in Revs
    BY <1>4 DEF TInv, WriteTarget, Saving
  <2>2. [of |-> save[s].text, by |-> save[s].to] \in Vector \cup {NoVector}
    BY <2>1 DEF Vector
  <2>3. ASSUME NEW m \in Memories, NEW r \in Revs PROVE WithTarget(s, m, r) \in Point \cup {NoPoint}
    <3>1. points[m][r] \in Point \cup {NoPoint}
      BY <1>0
    <3> QED
      BY <2>2, <3>1 DEF WithTarget, Point
  <2> QED
    BY <1>4, <2>3 DEF WriteTarget
<1>5. ASSUME NEW s \in Saves, DropOld(s) PROVE points' \in Ps
  <2>1. ASSUME NEW m \in Memories, NEW r \in Revs, points[m][r] # NoPoint
        PROVE  [points[m][r] EXCEPT ![save[s].from] = NoVector] \in Point
    <3>1. points[m][r] \in Point
      BY <1>0, <2>1
    <3> QED
      BY <3>1 DEF Point
  <2> QED
    BY <1>5, <2>1 DEF DropOld, Drops
<1> QED
  BY <1>0, <1>1, <1>2, <1>3, <1>4, <1>5, PointsFrame DEF Actors, Upsert

LEMMA SaveTypes ==
    ASSUME TInv, [Next]_vars
    PROVE  /\ save' \in [Saves -> Saving]
           /\ \A s \in Saves : save'[s].page # NoPage => save'[s].text \in Revs
           /\ names' \subseteq Pins /\ pin' \in PinRecord /\ status' \in Status
<1> DEFINE Ss == /\ save' \in [Saves -> Saving]
                 /\ \A s \in Saves : save'[s].page # NoPage => save'[s].text \in Revs
           Rest3 == /\ names' \subseteq Pins /\ pin' \in PinRecord
                    /\ status' \in Status
<1> USE DEF Still, Stored, history
<1>0. /\ TypeOK /\ save \in [Saves -> Saving] /\ names \subseteq Pins /\ pin \in PinRecord
      /\ status \in Status
      /\ \A s \in Saves : save[s].page # NoPage => save[s].text \in Revs
  BY DEF TInv, TypeOK, PinRecord
<1>1. ASSUME NEW s \in Saves, NEW e \in Saving, save' = [save EXCEPT ![s] = e],
             e.page # NoPage => e.text \in Revs
      PROVE  Ss
  BY <1>0, <1>1
<1>2. ASSUME NEW s \in Saves, Handled(s) PROVE Ss /\ Rest3
  <2>0. save[s] \in Saving
    BY <1>0
  <2>1. ASSUME NEW p \in Pins, Resume(s, p) \/ Begin(s, p) \/ Refuse(s, p) \/ Keep(s, p)
        PROVE  Ss /\ Rest3
    <3>1. PICK pc \in {"start", "store", "end"}, from, to \in Pins : SaveRead(s, pc, from, to)
      BY <1>0, <2>1, Reads
    <3>2. Ss
      BY <1>0, <1>1, <3>1, ReadSave
    <3> QED
      BY <1>0, <3>1, <3>2 DEF SaveRead
  <2>2. CASE Start(s)
    <3>1. [save[s] EXCEPT !.pc = "add"] \in Saving
      BY <2>0 DEF Saving, Running
    <3>2. /\ save' = [save EXCEPT ![s] = [save[s] EXCEPT !.pc = "add"]]
          /\ [save[s] EXCEPT !.pc = "add"].page = save[s].page
          /\ [save[s] EXCEPT !.pc = "add"].text = save[s].text
      BY <1>0, <2>0, <2>2 DEF Start, Saving
    <3>3. status' \in Status
      BY <2>0, <2>2 DEF Start, Status, Saving
    <3> QED
      BY <1>0, <1>1, <2>2, <3>1, <3>2, <3>3 DEF Start
  <2>3. CASE Store(s)
    <3>1. pin' \in PinRecord
      BY <1>0, <2>0, <2>3 DEF Store, PinRecord, Saving
    <3> QED
      BY <1>0, <1>1, <2>3, <3>1, NewStates DEF Store
  <2> QED
    BY <1>2, <2>1, <2>2, <2>3 DEF Handled
<1>3. ASSUME NEW s \in Saves, \/ AddVector(s) \/ FirstEnds(s) \/ PersistPin(s) \/ ApplyPin(s)
                             \/ SecondEnds(s) \/ DropOld(s) \/ WriteStatus(s)
      PROVE  Ss /\ Rest3
  <2>0. save[s] \in Saving /\ save[s].to \in Pins /\ save[s].from \in Pins
    BY <1>0 DEF Saving
  <2>1. There \subseteq Keys
    BY DEF There
  <2>2. ASSUME NEW pc \in Running PROVE [save[s] EXCEPT !.pc = pc] \in Saving
    BY <2>0, <2>2 DEF Saving
  <2>3. ASSUME NEW pc \in Running, NEW left \in SUBSET Keys,
               save' = [save EXCEPT ![s].pc = pc, ![s].left = left]
        PROVE  Ss
    <3>1. /\ [save[s] EXCEPT !.pc = pc, !.left = left] \in Saving
          /\ [save[s] EXCEPT !.pc = pc, !.left = left].page = save[s].page
          /\ [save[s] EXCEPT !.pc = pc, !.left = left].text = save[s].text
      BY <2>0 DEF Saving
    <3>2. save' = [save EXCEPT ![s] = [save[s] EXCEPT !.pc = pc, !.left = left]]
      BY <1>0, <2>3
    <3> QED
      BY <1>0, <1>1, <3>1, <3>2
  <2>4. ASSUME NEW pc \in Running, Go(s, pc) PROVE Ss
    <3>1. /\ [save[s] EXCEPT !.pc = pc] \in Saving
          /\ [save[s] EXCEPT !.pc = pc].page = save[s].page
          /\ [save[s] EXCEPT !.pc = pc].text = save[s].text
      BY <2>0 DEF Saving
    <3>2. save' = [save EXCEPT ![s] = [save[s] EXCEPT !.pc = pc]]
      BY <1>0, <2>4 DEF Go
    <3> QED
      BY <1>0, <1>1, <3>1, <3>2
  <2>5. CASE AddVector(s) \/ FirstEnds(s)
    <3>0. {} \in SUBSET Keys /\ {"first", "flip"} \subseteq Running
      BY DEF Running
    <3>1. Ss
      BY <2>1, <2>3, <2>5, <3>0 DEF AddVector, FirstEnds
    <3> QED
      BY <1>0, <2>0, <2>5, <3>1 DEF AddVector, FirstEnds
  <2>6. CASE ApplyPin(s) \/ SecondEnds(s)
    <3>0. {} \in SUBSET Keys /\ {"second", "drop"} \subseteq Running
      BY DEF Running
    <3>1. Ss
      BY <2>1, <2>3, <2>6, <3>0 DEF ApplyPin, SecondEnds
    <3> QED
      BY <1>0, <2>0, <2>6, <3>1 DEF ApplyPin, SecondEnds, PinRecord
  <2>7. CASE PersistPin(s) \/ DropOld(s)
    <3>0. {"apply", "done"} \subseteq Running
      BY DEF Running
    <3>1. Ss
      BY <2>4, <2>7, <3>0 DEF PersistPin, DropOld
    <3> QED
      BY <1>0, <2>0, <2>7, <3>1 DEF PersistPin, DropOld, PinRecord
  <2>8. CASE WriteStatus(s)
    <3>1. status' \in Status
      BY <2>0, <2>8 DEF WriteStatus, Status, In
    <3> QED
      BY <1>0, <1>1, <2>8, <3>1, NewStates DEF WriteStatus
  <2> QED
    BY <1>3, <2>5, <2>6, <2>7, <2>8
<1>4. ASSUME NEW s \in Saves, \/ (\E k \in Keys : Scroll(s, k)) \/ WriteTarget(s)
                             \/ SwitchFails(s) \/ StatusFails(s)
      PROVE  Ss /\ Rest3
  <2>0. save[s] \in Saving
    BY <1>0
  <2>1. ASSUME NEW k \in Keys, Scroll(s, k) PROVE Ss
    <3> DEFINE page == IF Exists(k[1]) THEN k ELSE NoPage
               text == IF Exists(k[1]) THEN mem[k[1]].rev ELSE 0
               e == [save[s] EXCEPT !.left = @ \ {k}, !.page = page, !.text = text]
    <3>1. k[1] \in Memories
      BY DEF Keys
    <3>2. /\ page \in Keys \cup {NoPage} /\ text \in 0..MaxRev
          /\ page # NoPage => text \in Revs
      BY <1>0, <3>1, RowTypes, Consts DEF Revs
    <3> HIDE DEF page, text
    <3>3. e \in Saving /\ e.page = page /\ e.text = text
      BY <2>0, <3>2 DEF Saving
    <3>4. save' = [save EXCEPT ![s] = e]
      BY <1>0, <2>1 DEF Scroll, page, text
    <3> QED
      BY <1>1, <3>2, <3>3, <3>4
  <2>2. CASE WriteTarget(s)
    <3>0. 0 \in 0..MaxRev
      BY Consts
    <3>1. /\ [save[s] EXCEPT !.page = NoPage, !.text = 0] \in Saving
          /\ [save[s] EXCEPT !.page = NoPage, !.text = 0].page = NoPage
      BY <2>0, <3>0 DEF Saving
    <3>2. save' = [save EXCEPT ![s] = [save[s] EXCEPT !.page = NoPage, !.text = 0]]
      BY <1>0, <2>2 DEF WriteTarget
    <3>3. Ss
      BY <1>1, <3>1, <3>2
    <3> QED
      BY <1>0, <2>2, <3>3 DEF WriteTarget
  <2>3. CASE SwitchFails(s)
    <3> DEFINE e == [save[s] EXCEPT !.pc = "failed", !.left = {}, !.page = NoPage, !.text = 0]
    <3>0. 0 \in 0..MaxRev /\ {} \in SUBSET Keys
      BY Consts
    <3>1. e \in Saving /\ e.page = NoPage
      BY <2>0, <3>0 DEF Saving, Running
    <3>2. save' = [save EXCEPT ![s] = e]
      BY <1>0, <2>3 DEF SwitchFails
    <3>3. Ss
      BY <1>1, <3>1, <3>2
    <3> QED
      BY <1>0, <2>3, <3>3 DEF SwitchFails
  <2>4. ASSUME NEW k \in Keys, Scroll(s, k) PROVE Rest3
    BY <1>0, <2>4 DEF Scroll
  <2>5. CASE StatusFails(s)
    BY <1>0, <1>1, <2>5, NewStates DEF StatusFails
  <2> QED
    BY <1>4, <2>1, <2>2, <2>3, <2>4, <2>5
<1>5. CASE Refresh
  <2>1. pin' \in PinRecord
    BY <1>0, <1>5 DEF Refresh, PinRecord
  <2> QED
    BY <1>0, <1>5, <2>1 DEF Refresh, svars
<1>6. CASE ApiRestart \/ WorkerRestart
  <2>1. pin' \in PinRecord
    BY <1>0, <1>6, Consts DEF ApiRestart, WorkerRestart, PinRecord
  <2>2. Ss
    BY <1>0, <1>6, NewStates DEF ApiRestart, WorkerRestart, svars
  <2> QED
    BY <1>0, <1>6, <2>1, <2>2 DEF ApiRestart, WorkerRestart, svars
<1>7. CASE UNCHANGED <<names, pin, status, save>>
  BY <1>0, <1>7
<1> QED
  BY <1>2, <1>3, <1>4, <1>5, <1>6, <1>7, SwitchFrame

LEMMA HistoryTypes ==
    ASSUME TInv, [Next]_vars
    PROVE  whole' \in BOOLEAN /\ sound' \subseteq Saves /\ lagged' \subseteq Keys
<1> DEFINE Hs == whole' \in BOOLEAN /\ sound' \subseteq Saves /\ lagged' \subseteq Keys
<1> USE DEF Still, Stored, svars, history
<1>0. /\ TypeOK /\ whole \in BOOLEAN /\ sound \subseteq Saves /\ lagged \subseteq Keys
  BY DEF TInv, TypeOK
<1>1. ASSUME NEW a \in Actors, Upsert(a) PROVE Hs
  <2>1. Wrote(a) \subseteq Keys
    BY DEF Wrote
  <2> QED
    BY <1>0, <1>1, <2>1 DEF Upsert
<1>2. ASSUME NEW s \in Saves, Handled(s) PROVE Hs
  BY <1>0, <1>2 DEF Handled, SaveRead, Resume, Begin, Refuse, Keep, Start, Store, Pinned
<1>3. ASSUME NEW s \in Saves, \/ AddVector(s) \/ (\E k \in Keys : Scroll(s, k)) \/ WriteTarget(s)
                              \/ FirstEnds(s) \/ PersistPin(s) \/ ApplyPin(s) \/ SecondEnds(s)
                              \/ DropOld(s) \/ WriteStatus(s) \/ SwitchFails(s) \/ StatusFails(s)
      PROVE  Hs
  BY <1>0, <1>3 DEF AddVector, Scroll, WriteTarget, FirstEnds, PersistPin, ApplyPin, SecondEnds,
              DropOld, WriteStatus, SwitchFails, StatusFails, Pinned, Lost
<1>4. CASE Refresh \/ ApiRestart \/ WorkerRestart
  BY <1>0, <1>4 DEF Refresh, ApiRestart, WorkerRestart
<1>5. CASE Others /\ UNCHANGED svars
  BY <1>0, <1>5
<1>6. CASE UNCHANGED vars
  BY <1>0, <1>6 DEF vars
<1> QED
  BY <1>1, <1>2, <1>3, <1>4, <1>5, <1>6 DEF Next, Handled

LEMMA ModeAndFaults ==
    ASSUME TInv, [Next]_vars
    PROVE  mode' = mode /\ faults' \in 0..MaxFaults /\ (faults' = 0 => faults = 0)
<1>0. TypeOK /\ faults \in 0..MaxFaults
  BY DEF TInv, TypeOK
<1> DEFINE Goal == /\ mode' = mode
                 /\ (faults' = faults \/ (faults < MaxFaults /\ faults' = faults + 1))
<1> SUFFICES Goal
  BY <1>0, Consts
<1> USE DEF Still, Stored, svars, history, VFault
<1>1. CASE Others
  <2>1. CASE \/ \E m \in Memories : VCreate(m) \/ VEdit(m)
             \/ \E d \in Deletions : \/ \E m \in Memories : DeleteCommit(d, m)
                                     \/ DeletePurge(d) \/ DeleteFails(d)
    BY <2>1 DEF VCreate, VEdit, DeleteCommit, DeletePurge, DeleteFails
  <2>2. CASE \E a \in Actors : Clean(a) \/ PutRefused(a) \/ ActorFails(a)
    BY <2>2 DEF Clean, PutRefused, ActorFails
  <2>3. CASE \/ \E w \in Runs : BackfillRead(w) \/ BackfillStamp(w)
             \/ \E b \in Bridges : \/ \E m \in Memories : Fetch(b, m)
                                   \/ Post(b) \/ PostStamp(b) \/ PostUndo(b)
    BY <2>3 DEF BackfillRead, BackfillStamp, Fetch, Post, PostStamp, PostUndo
  <2> QED
    BY <1>1, <2>1, <2>2, <2>3 DEF Others
<1>2. CASE \E a \in Actors : Upsert(a)
  BY <1>2 DEF Upsert, Put
<1>3. ASSUME NEW s \in Saves, Handled(s)
      PROVE  Goal
  BY <1>3 DEF Handled, SaveRead, Resume, Begin, Refuse, Keep, Start, Store
<1>4. ASSUME NEW s \in Saves, \/ AddVector(s) \/ (\E k \in Keys : Scroll(s, k)) \/ WriteTarget(s)
                              \/ FirstEnds(s) \/ PersistPin(s) \/ ApplyPin(s) \/ SecondEnds(s)
                              \/ DropOld(s) \/ WriteStatus(s) \/ SwitchFails(s) \/ StatusFails(s)
      PROVE  Goal
  BY <1>4 DEF AddVector, Scroll, WriteTarget, FirstEnds, PersistPin, ApplyPin, SecondEnds,
              DropOld, WriteStatus, SwitchFails, StatusFails
<1>5. CASE Refresh \/ ApiRestart \/ WorkerRestart
  BY <1>5 DEF Refresh, ApiRestart, WorkerRestart
<1>6. CASE UNCHANGED vars
  BY <1>6 DEF vars
<1> QED
  BY <1>1, <1>2, <1>3, <1>4, <1>5, <1>6 DEF Next, Handled

LEMMA TInvNext == TInv /\ [Next]_vars => TInv'
<1> SUFFICES ASSUME TInv, [Next]_vars PROVE TInv'
  OBVIOUS
<1>1. mode \in {"server", "client-bridge"}
  BY DEF TInv, TypeOK
<1> QED
  BY <1>1, MemTypes, TaskTyped, DelTypes, PointsTyped, SaveTypes, HistoryTypes, ModeAndFaults
  DEF TInv, TypeOK, PinRecord

\* Every variable keeps its type.
THEOREM TypeCorrect == Spec => []TypeOK
<1>1. Spec => []TInv
  BY TInvInit, TInvNext, PTL DEF Spec
<1>2. TInv => TypeOK
  BY DEF TInv
<1> QED
  BY <1>1, <1>2, PTL

-----------------------------------------------------------------------------
(* Texts only get newer. Top is the newest there has been of a row; what   *)
(* was read, embedded or stored of it is no newer, a vector is no older    *)
(* than its point, and it is of the size it is filed under.                *)

Top(m) == IF mem[m] = Unborn THEN 0 ELSE IF mem[m] = NoRow THEN MaxRev ELSE mem[m].rev

Fresh(point, r, top) ==
    point # NoPoint =>
        /\ r <= top
        /\ \A p \in Pins : point[p] # NoVector =>
             /\ Dim[point[p].by] = Dim[p] /\ point[p].of \in Revs
             /\ r <= point[p].of /\ point[p].of <= top
VectorsRight == \A m \in Memories : \A r \in Revs : Fresh(points[m][r], r, Top(m))
SeenRight == \A a \in Actors : \A m \in Memories : task[a].seen[m] <= Top(m)
PageRight ==
    \A s \in Saves : save[s].page # NoPage =>
        \A m \in Memories : \A r \in Revs : save[s].page = <<m, r>> =>
            r <= save[s].text /\ save[s].text <= Top(m)
AgeInv == TInv /\ VectorsRight /\ SeenRight /\ PageRight

LEMMA Tops ==
    ASSUME TypeOK, NEW m \in Memories
    PROVE  /\ Top(m) \in 0..MaxRev
           /\ Exists(m) => Top(m) = mem[m].rev
<1>1. Exists(m) => Top(m) = mem[m].rev /\ mem[m].rev \in Revs
  BY RowTypes DEF Top, Exists
<1> QED
  BY <1>1, Consts DEF Top, Exists, Revs

LEMMA TopGrows ==
    ASSUME TInv, TInv', [Next]_vars, NEW m \in Memories
    PROVE  Top(m) \in 0..MaxRev /\ Top(m)' \in 0..MaxRev /\ Top(m) <= Top(m)'
<1>0. TypeOK /\ TypeOK' /\ mem \in [Memories -> Row \cup {Unborn, NoRow}]
  BY DEF TInv, TypeOK
<1>1. Top(m) \in 0..MaxRev /\ Top(m)' \in 0..MaxRev
  <2>1. Top(m) \in 0..MaxRev
    BY <1>0, Tops
  <2>2. mem'[m] \in Row \cup {Unborn, NoRow}
    BY <1>0 DEF TypeOK
  <2>3. mem'[m] \in Row => mem'[m].rev \in Revs
    BY DEF Row
  <2>4. Top(m)' \in 0..MaxRev
    BY <2>2, <2>3, Consts DEF Top, Revs
  <2> QED
    BY <2>1, <2>4
<1>2. mem'[m] = mem[m] => Top(m)' = Top(m)
  BY DEF Top
<1>3. ASSUME mem' = mem PROVE Top(m) <= Top(m)'
  BY <1>1, <1>2, <1>3, Consts
<1>4. ASSUME NEW n \in Memories, VCreate(n) \/ VEdit(n) PROVE Top(m) <= Top(m)'
  <2>1. CASE m # n
    BY <1>0, <1>1, <1>2, <1>4, <2>1, Consts DEF VCreate, VEdit
  <2>2. CASE m = n /\ VCreate(n)
    <3>1. Top(m) = 0
      BY <2>2 DEF VCreate, Top
    <3> QED
      BY <1>1, <3>1, Consts
  <2>3. CASE m = n /\ VEdit(n)
    <3>1. Exists(m) /\ mem[m].rev < MaxRev /\ mem'[m] = Edited(mem[m])
      BY <1>0, <2>3 DEF VEdit
    <3>2. mem[m].rev \in Revs /\ mem'[m] \in Row /\ mem'[m].rev = mem[m].rev + 1
      BY <1>0, <3>1, RowTypes
    <3>3. Top(m)' = mem'[m].rev
      BY <3>2, Consts DEF Top
    <3>4. Top(m) = mem[m].rev
      BY <1>0, <3>1, Tops
    <3>5. mem[m].rev \in Nat
      BY <3>2, Consts
    <3> QED
      BY <3>2, <3>3, <3>4, <3>5
  <2> QED
    BY <1>4, <2>1, <2>2, <2>3
<1>5. ASSUME NEW d \in Deletions, NEW n \in Memories, DeleteCommit(d, n) PROVE Top(m) <= Top(m)'
  <2>1. mem'[m] = mem[m] \/ mem'[m] = NoRow
    BY <1>0, <1>5 DEF DeleteCommit
  <2>2. mem'[m] = NoRow => Top(m)' = MaxRev
    BY Consts DEF Top
  <2> QED
    BY <1>1, <1>2, <2>1, <2>2, Consts
<1>6. ASSUME NEW a \in Actors, BackfillStamp(a) \/ PostStamp(a) PROVE Top(m) <= Top(m)'
  <2>1. \/ mem'[m] = mem[m]
        \/ /\ m \in Items(a) /\ Exists(m) /\ mem'[m] = Marked(m, Attempted(a, m))
    BY <1>0, <1>6 DEF BackfillStamp, PostStamp, Markable, Current
  <2>2. CASE m \in Items(a) /\ Exists(m) /\ mem'[m] = Marked(m, Attempted(a, m))
    <3>1. mem'[m] \in Row /\ mem'[m].rev = mem[m].rev
      BY <1>0, <2>2, RowTypes, TaskTypes
    <3>2. Top(m)' = mem'[m].rev
      BY <3>1, Consts DEF Top
    <3>3. Top(m) = mem[m].rev
      BY <1>0, <2>2, Tops
    <3> QED
      BY <1>1, <3>1, <3>2, <3>3, Consts
  <2> QED
    BY <1>1, <1>2, <2>1, <2>2, Consts
<1> QED
  BY <1>1, <1>3, <1>4, <1>5, <1>6, MemFrame DEF Actors

LEMMA AgeInit == Init => AgeInv
<1> SUFFICES ASSUME Init PROVE AgeInv
  OBVIOUS
<1>1. TInv /\ VectorsRight
  BY TInvInit DEF Init, VInit, VectorsRight, Fresh
<1>2. SeenRight
  BY NewStates DEF Init, VInit, SeenRight, Top
<1>3. PageRight
  BY NewStates DEF Init, PageRight
<1> QED
  BY <1>1, <1>2, <1>3 DEF AgeInv

\* A task goes on with what it has seen, forgets it or reads again.
LEMMA SeenNext == ASSUME TInv, SeenRight, TInv', [Next]_vars PROVE SeenRight'
<1> SUFFICES ASSUME NEW a \in Actors, NEW m \in Memories PROVE task'[a].seen[m] <= Top(m)'
  BY DEF SeenRight
<1>0. /\ TInv /\ TypeOK /\ TypeOK' /\ task \in [Actors -> Task] /\ task[a].seen[m] <= Top(m)
      /\ Top(m) \in 0..MaxRev /\ Top(m)' \in 0..MaxRev /\ Top(m) <= Top(m)'
  BY TopGrows DEF SeenRight, TInv, TypeOK
<1>1. task[a].seen[m] \in 0..MaxRev
  BY <1>0, TaskTypes
<1>2. task'[a].seen = task[a].seen => task'[a].seen[m] <= Top(m)'
  BY <1>0, <1>1, Consts
<1>3. task'[a].seen[m] = 0 => task'[a].seen[m] <= Top(m)'
  BY <1>0, Consts
<1>4. Pending[m] <= Top(m) /\ Pending[m] \in 0..MaxRev
  BY <1>0, PendingTypes, Tops, Consts
<1>5. ASSUME NEW b \in Actors, \/ Put(b) \/ Clean(b) \/ PutRefused(b) \/ ActorFails(b)
                                \/ BackfillStamp(b) \/ Post(b) \/ PostStamp(b) \/ PostUndo(b)
      PROVE  task'[a].seen[m] <= Top(m)'
  <2>1. Rest(b) \/ To(b, "clean") \/ To(b, "stamp") \/ To(b, "put") \/ To(b, "undo")
    BY <1>5 DEF Put, Clean, PutRefused, ActorFails, BackfillStamp, Post, PostStamp, PostUndo
  <2>2. CASE Rest(b)
    <3>1. task'[a] = task[a] \/ task'[a] = Idle
      BY <1>0, <2>2 DEF Rest
    <3> QED
      BY <1>2, <1>3, <3>1, NewStates
  <2>3. ASSUME NEW pc, To(b, pc) PROVE task'[a].seen = task[a].seen
    <3>1. task'[a] = task[a] \/ task'[a] = [task[a] EXCEPT !.pc = pc]
      BY <1>0, <2>3 DEF To
    <3>2. [task[a] EXCEPT !.pc = pc].seen = task[a].seen
      BY <1>0 DEF Task
    <3> QED
      BY <3>1, <3>2
  <2> QED
    BY <1>2, <2>1, <2>2, <2>3
<1>6. ASSUME NEW w \in Runs, BackfillRead(w) PROVE task'[a].seen[m] <= Top(m)'
  <2>1. task'[a].seen = task[a].seen \/ task'[a].seen = Pending
    BY <1>0, <1>6 DEF BackfillRead
  <2> QED
    BY <1>0, <1>2, <1>4, <2>1, Consts
<1>7. ASSUME NEW b \in Bridges, NEW n \in Memories, Fetch(b, n) PROVE task'[a].seen[m] <= Top(m)'
  <2>1. \/ task'[a].seen = task[a].seen
        \/ task'[a].seen = [Nothing EXCEPT ![n] = Pending[n]]
    BY <1>0, <1>7 DEF Fetch
  <2>2. \/ task'[a].seen = task[a].seen
        \/ task'[a].seen[m] = 0
        \/ task'[a].seen[m] = Pending[m]
    BY <2>1 DEF Nothing
  <2>3. CASE task'[a].seen[m] = Pending[m]
    BY <1>0, <1>4, <2>3, Consts
  <2> QED
    BY <1>2, <1>3, <2>2, <2>3
<1>8. CASE ApiRestart \/ WorkerRestart
  <2>1. task'[a].seen = task[a].seen \/ task'[a].seen[m] = 0
    BY <1>0, <1>8, NewStates DEF ApiRestart, WorkerRestart, Stored
  <2> QED
    BY <1>2, <1>3, <2>1
<1>9. CASE task' = task
  BY <1>2, <1>9
<1> QED
  BY <1>5, <1>6, <1>7, <1>8, <1>9, TaskFrame DEF Actors

LEMMA PageNext == ASSUME AgeInv, TInv', [Next]_vars PROVE PageRight'
<1> SUFFICES ASSUME NEW s \in Saves, NEW m \in Memories, NEW r \in Revs,
                    save'[s].page # NoPage, save'[s].page = <<m, r>>
             PROVE  r <= save'[s].text /\ save'[s].text <= Top(m)'
  BY DEF PageRight
<1>0. /\ TInv /\ TypeOK /\ save \in [Saves -> Saving] /\ Top(m) \in 0..MaxRev
      /\ Top(m)' \in 0..MaxRev /\ Top(m) <= Top(m)' /\ r \in Nat
      /\ save[s].text \in 0..MaxRev
  BY TopGrows, Consts DEF AgeInv, TInv, Saving
<1>1. CASE save'[s].page = save[s].page /\ save'[s].text = save[s].text
  <2>1. r <= save[s].text /\ save[s].text <= Top(m)
    BY <1>1 DEF AgeInv, PageRight
  <2> QED
    BY <1>0, <1>1, <2>1, Consts
<1>2. ASSUME NEW z \in Saves, NEW e, save' = [save EXCEPT ![z] = e],
             e.page = NoPage \/ (e.page = save[z].page /\ e.text = save[z].text)
      PROVE  save'[s].page = save[s].page /\ save'[s].text = save[s].text
  BY <1>0, <1>2
<1>3. ASSUME NEW z \in Saves, Handled(z)
      PROVE  save'[s].page = save[s].page /\ save'[s].text = save[s].text
  <2>1. ASSUME NEW p \in Pins, Resume(z, p) \/ Begin(z, p) \/ Refuse(z, p) \/ Keep(z, p)
        PROVE  save'[s].page = NoPage \/ save'[s] = save[s]
    <3>1. PICK pc \in {"start", "store", "end"}, from, to \in Pins : SaveRead(z, pc, from, to)
      BY <1>0, <2>1, Reads
    <3>2. PICK e \in Saving : save' = [save EXCEPT ![z] = e] /\ e.page = NoPage
      BY <1>0, <3>1, ReadSave
    <3> QED
      BY <1>0, <3>2
  <2>2. ASSUME Start(z) PROVE save'[s].page = save[s].page /\ save'[s].text = save[s].text
    BY <1>0, <2>2 DEF Start, Saving
  <2>3. ASSUME Store(z) PROVE save'[s].page = NoPage \/ save'[s] = save[s]
    BY <1>0, <2>3, NewStates DEF Store
  <2> QED
    BY <1>3, <2>1, <2>2, <2>3 DEF Handled
<1>4. ASSUME NEW z \in Saves, \/ AddVector(z) \/ FirstEnds(z) \/ PersistPin(z) \/ ApplyPin(z)
                              \/ SecondEnds(z) \/ DropOld(z)
      PROVE  save'[s].page = save[s].page /\ save'[s].text = save[s].text
  BY <1>0, <1>4 DEF AddVector, FirstEnds, PersistPin, ApplyPin, SecondEnds, DropOld, Go, Saving
<1>5. ASSUME NEW z \in Saves, WriteTarget(z) \/ WriteStatus(z) \/ SwitchFails(z) \/ StatusFails(z)
      PROVE  save'[s] = save[s]
  <2>1. save'[s] = save[s] \/ save'[s].page = NoPage
    <3>1. CASE WriteStatus(z) \/ StatusFails(z)
      BY <1>0, <3>1, NewStates DEF WriteStatus, StatusFails
    <3>2. CASE WriteTarget(z)
      <4>1. save' = [save EXCEPT ![z] = [save[z] EXCEPT !.page = NoPage, !.text = 0]]
        BY <1>0, <3>2 DEF WriteTarget
      <4>2. save[z] \in Saving
        BY <1>0
      <4>3. [save[z] EXCEPT !.page = NoPage, !.text = 0].page = NoPage
        BY <4>2 DEF Saving
      <4> QED
        BY <1>0, <4>1, <4>3
    <3>3. CASE SwitchFails(z)
      <4> DEFINE e == [save[z] EXCEPT !.pc = "failed", !.left = {}, !.page = NoPage, !.text = 0]
      <4>1. save' = [save EXCEPT ![z] = e]
        BY <1>0, <3>3 DEF SwitchFails
      <4>2. save[z] \in Saving
        BY <1>0
      <4>3. e.page = NoPage
        BY <4>2 DEF Saving
      <4> HIDE DEF e
      <4> QED
        BY <1>0, <4>1, <4>3
    <3> QED
      BY <1>5, <3>1, <3>2, <3>3
  <2> QED
    BY <2>1
<1>6. ASSUME NEW z \in Saves, NEW k \in Keys, Scroll(z, k), z = s
      PROVE  r <= save'[s].text /\ save'[s].text <= Top(m)'
  <2>1. k = <<m, r>> /\ Exists(k[1]) /\ save'[s].text = mem[k[1]].rev
    <3> DEFINE page == IF Exists(k[1]) THEN k ELSE NoPage
               text == IF Exists(k[1]) THEN mem[k[1]].rev ELSE 0
               e == [save[s] EXCEPT !.left = @ \ {k}, !.page = page, !.text = text]
    <3>1. save' = [save EXCEPT ![s] = e]
      BY <1>0, <1>6 DEF Scroll
    <3>2. save[s] \in Saving
      BY <1>0
    <3> HIDE DEF page, text
    <3>3. e.page = page /\ e.text = text
      BY <3>2 DEF Saving
    <3>4. save'[s].page = page /\ save'[s].text = text
      BY <1>0, <3>1, <3>3
    <3> QED
      BY <3>4 DEF page, text
  <2>2. points[m][r] # NoPoint /\ save'[s].text = mem[m].rev /\ Exists(m)
    BY <1>6, <2>1 DEF Scroll, There
  <2>3. r <= Top(m) /\ Top(m) = mem[m].rev
    BY <1>0, <2>2, Tops DEF AgeInv, VectorsRight, Fresh
  <2> QED
    BY <1>0, <2>2, <2>3, Consts
<1>7. ASSUME NEW z \in Saves, NEW k \in Keys, Scroll(z, k), z # s
      PROVE  save'[s] = save[s]
  BY <1>0, <1>7 DEF Scroll
<1>8. CASE Refresh \/ ApiRestart \/ WorkerRestart
  <2>1. save'[s] = save[s] \/ save'[s].page = NoPage
    BY <1>0, <1>8, NewStates DEF Refresh, ApiRestart, WorkerRestart, svars
  <2> QED
    BY <1>1, <2>1
<1>9. CASE UNCHANGED <<names, pin, status, save>>
  BY <1>1, <1>9
<1> QED
  BY <1>1, <1>3, <1>4, <1>5, <1>6, <1>7, <1>8, <1>9, SwitchFrame

\* A point is put for the revision that was read, a vector for the text and the
\* size of the page; the rest is kept or taken away.
LEMMA VectorsNext ==
    ASSUME AgeInv, TInv', [Next]_vars PROVE VectorsRight'
<1> SUFFICES ASSUME NEW m \in Memories, NEW r \in Revs
             PROVE  Fresh(points'[m][r], r, Top(m)')
  BY DEF VectorsRight, Fresh
<1>0. /\ TInv /\ TypeOK /\ r \in Nat
      /\ Top(m) \in 0..MaxRev /\ Top(m)' \in 0..MaxRev /\ Top(m) <= Top(m)'
      /\ Fresh(points[m][r], r, Top(m)) /\ points[m][r] \in Point \cup {NoPoint}
  BY TopGrows, Consts DEF AgeInv, TInv, VectorsRight, TypeOK
<1>1. Fresh(points[m][r], r, Top(m)')
  <2>1. ASSUME NEW i \in Revs, i <= Top(m) PROVE i <= Top(m)'
    <3>1. i \in Nat /\ Top(m) \in Nat /\ Top(m)' \in Nat
      BY <1>0, Consts
    <3> QED
      BY <1>0, <2>1, <3>1
  <2> QED
    BY <1>0, <2>1 DEF Fresh
<1>2. Fresh(NoPoint, r, Top(m)')
  BY DEF Fresh
<1>3. CASE points'[m][r] \in {points[m][r], NoPoint}
  BY <1>1, <1>2, <1>3
<1>4. ASSUME NEW a \in Actors, Put(a) PROVE Fresh(points'[m][r], r, Top(m)')
  <2>1. Dim[task[a].by] = Dim[PinOf(a)] /\ task[a].by \in Pins
    BY <1>0, <1>4, TaskTypes DEF Put, Fits
  <2>2. CASE m \in Items(a) /\ r = Attempted(a, m)
    <3>1. points'[m][r] = [p \in Pins |-> IF p = PinOf(a) THEN [of |-> r, by |-> task[a].by]
                                                         ELSE NoVector]
      BY <1>4, <2>2 DEF Put, Upserted
    <3>2. r <= Top(m)'
      <4>1. r <= Top(m)
        BY <2>2 DEF AgeInv, SeenRight, Attempted
      <4> QED
        BY <1>0, <4>1, Consts
    <3>3. /\ [of |-> r, by |-> task[a].by].of = r
          /\ [of |-> r, by |-> task[a].by].by = task[a].by
      OBVIOUS
    <3> QED
      BY <1>0, <2>1, <3>1, <3>2, <3>3 DEF Fresh
  <2>3. CASE ~(m \in Items(a) /\ r = Attempted(a, m))
    BY <1>1, <1>4, <2>3 DEF Put, Upserted
  <2> QED
    BY <2>2, <2>3
<1>5. ASSUME NEW a \in Actors, \/ Clean(a) \/ ActorFails(a) \/ BackfillStamp(a) \/ PostUndo(a)
      PROVE  points'[m][r] \in {points[m][r], NoPoint}
  <2>1. points' \in {points, Cleaned(a), Undone(a)}
    BY <1>5 DEF Clean, ActorFails, BackfillStamp, PostUndo
  <2>2. Cleaned(a)[m][r] \in {points[m][r], NoPoint} /\ Undone(a)[m][r] \in {points[m][r], NoPoint}
    BY DEF Cleaned, Undone
  <2> QED
    BY <2>1, <2>2
<1>6. ASSUME NEW d \in Deletions, DeletePurge(d) PROVE points'[m][r] \in {points[m][r], NoPoint}
  BY <1>0, <1>6 DEF DeletePurge, Without, TypeOK
<1>7. ASSUME NEW s \in Saves, WriteTarget(s) PROVE Fresh(points'[m][r], r, Top(m)')
  <2>1. points'[m][r] = WithTarget(s, m, r)
    BY <1>7 DEF WriteTarget
  <2>2. CASE points[m][r] = NoPoint \/ save[s].page # <<m, r>>
    BY <1>1, <2>1, <2>2 DEF WithTarget
  <2>3. CASE points[m][r] # NoPoint /\ save[s].page = <<m, r>>
    <3>0. save[s].to \in Pins /\ save[s].text \in Revs /\ save[s].page # NoPage
      BY <1>0, <1>7 DEF WriteTarget, TInv, Saving
    <3>1. r <= save[s].text /\ save[s].text <= Top(m)
      BY <2>3, <3>0 DEF AgeInv, PageRight
    <3>2. save[s].text <= Top(m)' /\ r <= Top(m)'
      <4>1. save[s].text \in Nat
        BY <3>0, Consts
      <4>2. Top(m) \in Nat /\ Top(m)' \in Nat
        BY <1>0, Consts
      <4> QED
        BY <1>0, <3>1, <4>1, <4>2
    <3>3. points[m][r] \in Point
      BY <1>0, <2>3
    <3>4. /\ points'[m][r] \in Point
          /\ \A p \in Pins : points'[m][r][p] =
               IF p = save[s].to THEN [of |-> save[s].text, by |-> save[s].to] ELSE points[m][r][p]
      BY <2>1, <2>3, <3>0, <3>3 DEF WithTarget, Point, Vector
    <3> QED
      BY <1>1, <2>3, <3>0, <3>1, <3>2, <3>4 DEF Fresh
  <2> QED
    BY <2>2, <2>3
<1>8. ASSUME NEW s \in Saves, DropOld(s) PROVE Fresh(points'[m][r], r, Top(m)')
  <2>1. CASE points[m][r] = NoPoint
    BY <1>2, <1>8, <2>1 DEF DropOld, Drops
  <2>2. CASE points[m][r] # NoPoint
    <3>1. points[m][r] \in Point
      BY <1>0, <2>2
    <3>2. points'[m][r] = [points[m][r] EXCEPT ![save[s].from] = NoVector]
      BY <1>8, <2>2 DEF DropOld, Drops
    <3>3. \A p \in Pins : points'[m][r][p] \in {NoVector, points[m][r][p]}
      BY <3>1, <3>2 DEF Point
    <3> QED
      BY <1>1, <2>2, <3>3 DEF Fresh
  <2> QED
    BY <2>1, <2>2
<1> QED
  BY <1>3, <1>4, <1>5, <1>6, <1>7, <1>8, PointsFrame DEF Actors, Upsert

\* What a search under any pin may find of a row is a vector of what the row says,
\* of the size of that pin, whatever overlaps, fails or is late and whatever the
\* models are (embed-backfill.ts, embedding-projections.ts, switch/run.ts).
THEOREM VectorsOfRows == Spec => []SearchIsOfRow
<1>1. AgeInv /\ [Next]_vars => AgeInv'
  <2> SUFFICES ASSUME AgeInv, [Next]_vars PROVE AgeInv'
    OBVIOUS
  <2>1. TInv'
    BY TInvNext DEF AgeInv
  <2> QED
    BY <2>1, VectorsNext, SeenNext, PageNext DEF AgeInv
<1>2. AgeInv => SearchIsOfRow
  <2> SUFFICES ASSUME AgeInv, NEW m \in Memories, Exists(m), PointOf(m) # NoPoint,
                      NEW p \in Pins, PointOf(m)[p] # NoVector
               PROVE  /\ PointOf(m)[p].of = mem[m].rev
                      /\ Dim[PointOf(m)[p].by] = Dim[p]
    BY DEF SearchIsOfRow
  <2>1. TypeOK /\ mem[m].rev \in Revs /\ Top(m) = mem[m].rev
    BY RowTypes, Tops DEF AgeInv, TInv
  <2>4. /\ Dim[PointOf(m)[p].by] = Dim[p] /\ PointOf(m)[p].of \in Revs
        /\ mem[m].rev <= PointOf(m)[p].of /\ PointOf(m)[p].of <= mem[m].rev
    BY <2>1 DEF AgeInv, VectorsRight, Fresh, PointOf
  <2>5. PointOf(m)[p].of = mem[m].rev
    <3>1. PointOf(m)[p].of \in Nat /\ mem[m].rev \in Nat
      BY <2>1, <2>4, Consts
    <3> QED
      BY <2>4, <3>1
  <2> QED
    BY <2>4, <2>5
<1> QED
  BY AgeInit, <1>1, <1>2, PTL DEF Spec

-----------------------------------------------------------------------------
(* Whose points there are. A row names the point of the revision it was    *)
(* embedded at; any other point is one that an upsert under way has put,   *)
(* and will find outdated, or one that a deletion is about to take away.   *)

Writing == {"clean", "stamp", "undo"}
Owes(a, m, r) == task[a].pc \in Writing /\ m \in Items(a) /\ Attempted(a, m) = r
Working(m, r) == \E a \in Actors : Owes(a, m, r)
Purging(m, r) ==
    \E d \in Deletions : del[d].pc = "purge" /\ del[d].mem = m /\ del[d].row.point = r

Named == \A m \in Memories : Exists(m) =>
    /\ mem[m].point <= mem[m].rev
    /\ mem[m].status = "embedded" => mem[m].point = mem[m].rev
OneEach == \A b \in Bridges : \A m, n \in Items(b) : m = n
Accounted == \A m \in Memories : \A r \in Revs : points[m][r] # NoPoint =>
    (Exists(m) /\ mem[m].point = r) \/ Working(m, r) \/ Purging(m, r)
\* What is stamped has no older point, but for those that others will undo.
Swept == \A a \in Actors : \A m \in Items(a) : At(a, "stamp") /\ Current(a, m) =>
    \A r \in Revs : r < Attempted(a, m) /\ points[m][r] # NoPoint =>
        Working(m, r) \/ Purging(m, r)
Useless == \A a \in Actors : At(a, "undo") => \A m \in Items(a) : Outdated(a, m)

RowInv == TInv /\ SeenRight /\ Named /\ OneEach
OwnedInv == RowInv /\ (faults = 0 => Accounted /\ Swept /\ Useless)

\* What a step may do to a row.
Embeds(a, m) == /\ At(a, "stamp") /\ m \in Items(a) /\ Current(a, m)
                /\ mem'[m] = Marked(m, Attempted(a, m))
LEMMA RowSteps ==
    ASSUME TInv, [Next]_vars, NEW m \in Memories
    PROVE  \/ mem'[m] = mem[m]
           \/ /\ VCreate(m) /\ mem[m] = Unborn
              /\ mem'[m] = [rev |-> 1, status |-> "pending", point |-> 0]
           \/ VEdit(m) /\ Exists(m) /\ mem[m].rev < MaxRev /\ mem'[m] = Edited(mem[m])
           \/ /\ Exists(m) /\ mem'[m] = NoRow
              /\ \E d \in Deletions : DeleteCommit(d, m)
           \/ \E a \in Actors : Embeds(a, m) /\ (BackfillStamp(a) \/ PostStamp(a))
<1>0. TypeOK /\ mem \in [Memories -> Row \cup {Unborn, NoRow}] /\ del \in [Deletions -> Deleting]
  BY DEF TInv, TypeOK
<1>1. ASSUME NEW n \in Memories, VCreate(n) \/ VEdit(n), mem'[m] # mem[m]
      PROVE  \/ /\ VCreate(m) /\ mem[m] = Unborn
                /\ mem'[m] = [rev |-> 1, status |-> "pending", point |-> 0]
             \/ VEdit(m) /\ Exists(m) /\ mem[m].rev < MaxRev /\ mem'[m] = Edited(mem[m])
  <2>1. n = m
    BY <1>0, <1>1 DEF VCreate, VEdit
  <2> QED
    BY <1>0, <1>1, <2>1 DEF VCreate, VEdit
<1>2. ASSUME NEW d \in Deletions, NEW n \in Memories, DeleteCommit(d, n), mem'[m] # mem[m]
      PROVE  Exists(m) /\ mem'[m] = NoRow /\ DeleteCommit(d, m)
  <2>1. m = n
    BY <1>0, <1>2 DEF DeleteCommit
  <2> QED
    BY <1>0, <1>2, <2>1 DEF DeleteCommit
<1>3. ASSUME NEW w \in Runs, BackfillStamp(w), mem'[m] # mem[m] PROVE Embeds(w, m)
  BY <1>0, <1>3 DEF BackfillStamp, Embeds, Markable
<1>4. ASSUME NEW b \in Bridges, PostStamp(b), mem'[m] # mem[m] PROVE Embeds(b, m)
  BY <1>0, <1>4 DEF PostStamp, Embeds
<1> QED
  BY <1>1, <1>2, <1>3, <1>4, MemFrame DEF Actors

\* A revision that is not the one of its row any more never is again.
LEMMA NeverAgain ==
    ASSUME TInv, TInv', [Next]_vars, NEW m \in Memories, NEW r \in Revs, r <= Top(m),
           Exists(m)', mem'[m].rev = r
    PROVE  Exists(m) /\ mem[m].rev = r
<1>0. TypeOK /\ TypeOK' /\ r \in Nat \ {0}
  BY Consts DEF TInv, Revs
<1>1. Top(m) \in 0..MaxRev /\ Top(m)' = r /\ Top(m) <= Top(m)'
  BY <1>0, TopGrows DEF Top, Exists
<1>2. Top(m) = r
  BY <1>0, <1>1, Consts
<1>3. Exists(m)
  <2>1. mem[m] # Unborn
    BY <1>0, <1>2 DEF Top
  <2>2. mem[m] # NoRow
    BY RowSteps, Consts DEF Exists, Embeds, Current
  <2> QED
    BY <2>1, <2>2 DEF Exists
<1> QED
  BY <1>0, <1>2, <1>3, Tops

\* The same for what an actor has read.
LEMMA WasCurrent ==
    ASSUME TInv, SeenRight, TInv', [Next]_vars, NEW a \in Actors, NEW m \in Items(a),
           Exists(m)', mem'[m].rev = Attempted(a, m)
    PROVE  Current(a, m)
<1>1. m \in Memories /\ Attempted(a, m) \in Revs /\ Attempted(a, m) <= Top(m)
  BY TaskTypes DEF TInv, SeenRight, Attempted, Items
<1> QED
  BY <1>1, NeverAgain DEF Current

\* How the actors move.
LEMMA Rests ==
    ASSUME TInv, NEW a \in Actors, Rest(a)
    PROVE  /\ \A b \in Actors \ {a} : task'[b] = task[b]
           /\ task'[a] = Idle /\ task'[a].pc = "idle" /\ Items(a)' = {}
           /\ \A m \in Memories : task'[a].seen[m] = 0
<1>0. task \in [Actors -> Task]
  BY DEF TInv, TypeOK
<1>1. \A b \in Actors \ {a} : task'[b] = task[b]
  BY <1>0 DEF Rest
<1>2. task'[a] = Idle
  BY <1>0 DEF Rest
<1>3. task'[a].pc = "idle"
  BY <1>2 DEF Idle
<1>4. Items(a)' = {} /\ \A m \in Memories : task'[a].seen[m] = 0
  BY <1>2, NewStates DEF Items
<1> QED
  BY <1>1, <1>2, <1>3, <1>4

LEMMA Goes ==
    ASSUME TInv, NEW a \in Actors, NEW pc, To(a, pc)
    PROVE  /\ \A b \in Actors \ {a} : task'[b] = task[b]
           /\ task'[a].pc = pc /\ task'[a].seen = task[a].seen /\ Items(a)' = Items(a)
           /\ \A m \in Memories : Attempted(a, m)' = Attempted(a, m)
<1>0. task \in [Actors -> Task] /\ task[a] \in Task
  BY DEF TInv, TypeOK
<1>1. task' = [task EXCEPT ![a] = [task[a] EXCEPT !.pc = pc]]
  BY <1>0 DEF To
<1>2. [task[a] EXCEPT !.pc = pc].pc = pc /\ [task[a] EXCEPT !.pc = pc].seen = task[a].seen
  BY <1>0 DEF Task
<1>3. /\ \A b \in Actors \ {a} : task'[b] = task[b]
      /\ task'[a].pc = pc /\ task'[a].seen = task[a].seen
  BY <1>0, <1>1, <1>2
<1> QED
  BY <1>3 DEF Items, Attempted

LEMMA NamedNext == ASSUME RowInv, TInv', [Next]_vars PROVE Named'
<1> SUFFICES ASSUME NEW m \in Memories, Exists(m)'
             PROVE  /\ mem'[m].point <= mem'[m].rev
                    /\ mem'[m].status = "embedded" => mem'[m].point = mem'[m].rev
  BY DEF Named, Exists
<1>0. TInv /\ TypeOK /\ mem \in [Memories -> Row \cup {Unborn, NoRow}]
  BY DEF RowInv, TInv, TypeOK
<1>1. CASE mem'[m] = mem[m]
  BY <1>1 DEF RowInv, Named, Exists
<1>2. CASE mem'[m] = [rev |-> 1, status |-> "pending", point |-> 0]
  BY <1>2
<1>3. CASE Exists(m) /\ mem[m].rev < MaxRev /\ mem'[m] = Edited(mem[m])
  <2>1. mem[m] \in Row /\ mem[m].rev \in Nat /\ mem[m].point \in Nat
    <3>1. mem[m] \in Row
      BY <1>0, <1>3 DEF Exists
    <3>2. mem[m].rev \in Revs /\ mem[m].point \in 0..MaxRev
      BY <3>1 DEF Row
    <3>3. mem[m].rev \in Nat
      BY <3>2, Consts
    <3>4. mem[m].point \in Nat
      BY <3>2, Consts
    <3> QED
      BY <3>1, <3>3, <3>4
  <2>2. /\ mem'[m].rev = mem[m].rev + 1 /\ mem'[m].point = mem[m].point
        /\ mem'[m].status = "pending"
    BY <1>3, <2>1 DEF Edited, Row
  <2>3. mem[m].point <= mem[m].rev
    BY <1>3 DEF RowInv, Named
  <2> QED
    BY <2>1, <2>2, <2>3
<1>4. CASE \E a \in Actors : Embeds(a, m)
  <2>1. PICK a \in Actors : Embeds(a, m)
    BY <1>4
  <2>2. /\ mem[m] \in Row /\ Attempted(a, m) = mem[m].rev /\ mem[m].rev \in Nat
        /\ mem'[m] = Marked(m, Attempted(a, m))
    BY <1>0, <2>1, Consts DEF Embeds, Current, Exists, Row
  <2>3. mem'[m].rev = mem[m].rev /\ mem'[m].point = mem[m].rev
    BY <2>2 DEF Marked, Row
  <2> QED
    BY <2>2, <2>3
<1>5. mem'[m] # NoRow
  BY DEF Exists
<1> QED
  BY <1>0, <1>1, <1>2, <1>3, <1>4, <1>5, RowSteps

LEMMA OneEachNext == ASSUME RowInv, TInv', [Next]_vars PROVE OneEach'
<1> SUFFICES ASSUME NEW b \in Bridges, NEW m \in Items(b)', NEW n \in Items(b)' PROVE m = n
  BY DEF OneEach
<1>0. TInv /\ TypeOK /\ task \in [Actors -> Task] /\ b \in Actors /\ b \notin Runs
  BY VectorAssumption DEF RowInv, TInv, TypeOK, Actors
<1>1. CASE task'[b].seen = task[b].seen
  BY <1>1 DEF RowInv, OneEach, Items
<1>2. CASE \A x \in Memories : task'[b].seen[x] = 0
  BY <1>2 DEF Items
<1>3. ASSUME NEW a \in Actors, \/ Put(a) \/ Clean(a) \/ PutRefused(a) \/ ActorFails(a)
                               \/ BackfillStamp(a) \/ Post(a) \/ PostStamp(a) \/ PostUndo(a)
      PROVE  task'[b].seen = task[b].seen \/ \A x \in Memories : task'[b].seen[x] = 0
  <2>1. Rest(a) \/ To(a, "clean") \/ To(a, "stamp") \/ To(a, "put") \/ To(a, "undo")
    BY <1>3 DEF Put, Clean, PutRefused, ActorFails, BackfillStamp, Post, PostStamp, PostUndo
  <2>2. CASE Rest(a)
    BY <1>0, <2>2, Rests
  <2>3. ASSUME NEW pc, To(a, pc) PROVE task'[b].seen = task[b].seen
    BY <1>0, <2>3, Goes
  <2> QED
    BY <2>1, <2>2, <2>3
<1>4. ASSUME NEW w \in Runs, BackfillRead(w) PROVE task'[b].seen = task[b].seen
  BY <1>0, <1>4 DEF BackfillRead
<1>5. ASSUME NEW c \in Bridges, NEW x \in Memories, Fetch(c, x)
      PROVE  task'[b].seen = task[b].seen \/ m = n
  <2>1. \/ task'[b].seen = task[b].seen
        \/ task'[b].seen = [Nothing EXCEPT ![x] = Pending[x]]
    BY <1>0, <1>5 DEF Fetch
  <2>2. ASSUME task'[b].seen = [Nothing EXCEPT ![x] = Pending[x]], NEW y \in Items(b)' PROVE y = x
    BY <2>2 DEF Items, Nothing
  <2> QED
    BY <2>1, <2>2
<1>6. CASE ApiRestart \/ WorkerRestart
  <2>1. task'[b] = task[b] \/ task'[b] = Idle
    BY <1>0, <1>6 DEF ApiRestart, WorkerRestart
  <2> QED
    BY <1>1, <1>2, <2>1, NewStates
<1>7. CASE task' = task
  BY <1>1, <1>7
<1> QED
  BY <1>1, <1>2, <1>3, <1>4, <1>5, <1>6, <1>7, TaskFrame DEF Actors

LEMMA RowNext == ASSUME RowInv, [Next]_vars PROVE RowInv'
<1>1. TInv'
  BY TInvNext DEF RowInv
<1> QED
  BY <1>1, SeenNext, NamedNext, OneEachNext DEF RowInv

Owned == Accounted /\ Swept /\ Useless
Covered(m, r) == Working(m, r) \/ Purging(m, r)

\* What is covered stays so, and what is new is, but for the points of present
\* revisions.
KeepsOwners ==
    \A m \in Memories : \A r \in Revs : points'[m][r] # NoPoint =>
        \/ Covered(m, r)'
        \/ points[m][r] # NoPoint /\ ~Covered(m, r)
        \/ Exists(m)' /\ mem'[m].rev = r

SweptBy(a) == \A m \in Items(a) : At(a, "stamp") /\ Current(a, m) =>
    \A r \in Revs : r < Attempted(a, m) /\ points[m][r] # NoPoint => Covered(m, r)
UselessBy(a) == At(a, "undo") => \A m \in Items(a) : Outdated(a, m)

\* An actor that does not move, or not to where it owes anything.
LEMMA Bystander ==
    ASSUME RowInv, TInv', [Next]_vars, Owned, KeepsOwners, NEW a \in Actors,
           task'[a] = task[a] \/ task'[a].pc \notin {"stamp", "undo"}
    PROVE  SweptBy(a)' /\ UselessBy(a)'
<1>0. TInv /\ TypeOK /\ SeenRight
  BY DEF RowInv, TInv
<1>1. CASE task'[a].pc \notin {"stamp", "undo"}
  BY <1>1 DEF SweptBy, UselessBy, At
<1>2. CASE task'[a] = task[a]
  <2>1. Items(a)' = Items(a) /\ \A m \in Memories : Attempted(a, m)' = Attempted(a, m)
    BY <1>2 DEF Items, Attempted
  <2>2. \A pc : At(a, pc)' <=> At(a, pc)
    BY <1>2 DEF At
  <2>3. \A m \in Items(a) : Current(a, m)' => Current(a, m)
    BY <1>0, <2>1, WasCurrent DEF Current, Exists, Items
  <2>4. UselessBy(a)'
    BY <2>1, <2>2, <2>3 DEF UselessBy, Outdated, Owned, Useless
  <2>5. ASSUME NEW m \in Items(a), At(a, "stamp"), Current(a, m)', NEW r \in Revs,
               r < Attempted(a, m), points'[m][r] # NoPoint
        PROVE  Covered(m, r)'
    <3>1. Current(a, m) /\ m \in Memories
      BY <2>3, <2>5 DEF Items
    <3>2. points[m][r] # NoPoint => Covered(m, r)
      BY <2>5, <3>1 DEF Owned, Swept, Covered
    <3>3. mem'[m].rev = Attempted(a, m)
      BY <2>1, <2>5, <3>1 DEF Current
    <3>4. Attempted(a, m) \in Nat /\ r \in Nat
      BY <1>0, <2>5, TaskTypes, Consts
    <3>5. mem'[m].rev # r
      BY <2>5, <3>3, <3>4
    <3> QED
      BY <2>5, <3>1, <3>2, <3>5 DEF KeepsOwners
  <2>6. SweptBy(a)'
    <3> SUFFICES ASSUME NEW m \in Items(a)', At(a, "stamp")', Current(a, m)', NEW r \in Revs,
                        r < Attempted(a, m)', points'[m][r] # NoPoint
                 PROVE  Covered(m, r)'
      BY DEF SweptBy
    <3>1. m \in Items(a) /\ Attempted(a, m)' = Attempted(a, m)
      BY <2>1 DEF Items
    <3>2. At(a, "stamp")
      BY <2>2
    <3> QED
      BY <2>5, <3>1, <3>2
  <2> QED
    BY <2>4, <2>6
<1> QED
  BY <1>1, <1>2

LEMMA OwnedByAll ==
    ASSUME Accounted', \A a \in Actors : SweptBy(a)' /\ UselessBy(a)' PROVE Owned'
BY DEF Owned, Swept, SweptBy, Useless, UselessBy, Covered

LEMMA StillWorking ==
    ASSUME NEW a \in Actors, \A b \in Actors \ {a} : task'[b] = task[b],
           NEW m \in Memories, NEW r \in Revs, Working(m, r),
           ~Owes(a, m, r) \/ Owes(a, m, r)'
    PROVE  Working(m, r)'
<1>1. PICK b \in Actors : Owes(b, m, r)
  BY DEF Working
<1>2. CASE b = a
  BY <1>1, <1>2 DEF Working
<1>3. CASE b # a
  <2>1. task'[b] = task[b]
    BY <1>3
  <2>2. Owes(b, m, r)'
    BY <1>1, <2>1 DEF Owes, Items, Attempted
  <2> QED
    BY <2>2 DEF Working
<1> QED
  BY <1>2, <1>3

\* No actor moves: writes, switches, processes.
LEMMA OwnedElsewhere ==
    ASSUME RowInv, TInv', [Next]_vars, Owned, UNCHANGED <<task, del>>,
           \A m \in Memories : \A r \in Revs : points'[m][r] # NoPoint => points[m][r] # NoPoint,
           \A m \in Memories : mem'[m] = mem[m] \/ VCreate(m) \/ VEdit(m)
    PROVE  Owned'
<1>0. TInv /\ TypeOK /\ mem \in [Memories -> Row \cup {Unborn, NoRow}]
  BY DEF RowInv, TInv, TypeOK
<1>1. \A m \in Memories : \A r \in Revs : Covered(m, r)' <=> Covered(m, r)
  BY DEF Covered, Working, Purging, Owes, Items, Attempted
<1>2. KeepsOwners
  BY <1>1 DEF KeepsOwners
<1>3. ASSUME NEW m \in Memories, Exists(m) PROVE Exists(m)' /\ mem'[m].point = mem[m].point
  <2>1. CASE mem'[m] = mem[m]
    BY <1>3, <2>1 DEF Exists
  <2>2. CASE VEdit(m)
    <3>1. mem'[m] = Edited(mem[m]) /\ mem[m] \in Row /\ Edited(mem[m]) \in Row
      BY <1>0, <1>3, <2>2, RowTypes DEF VEdit
    <3>2. Edited(mem[m]).point = mem[m].point
      BY <3>1 DEF Edited, Row
    <3> QED
      BY <3>1, <3>2, Consts DEF Exists
  <2> QED
    BY <1>3, <2>1, <2>2 DEF VCreate, Exists
<1>4. Accounted'
  <2> SUFFICES ASSUME NEW m \in Memories, NEW r \in Revs, points'[m][r] # NoPoint
               PROVE  (Exists(m)' /\ mem'[m].point = r) \/ Covered(m, r)'
    BY DEF Accounted, Covered, Exists
  <2>1. (Exists(m) /\ mem[m].point = r) \/ Covered(m, r)
    BY DEF Owned, Accounted, Covered
  <2> QED
    BY <1>1, <1>3, <2>1
<1>5. \A a \in Actors : SweptBy(a)' /\ UselessBy(a)'
  BY <1>2, Bystander
<1> QED
  BY <1>4, <1>5, OwnedByAll

\* A deletion takes the row, and then the point the row named.
LEMMA OwnedDelete ==
    ASSUME RowInv, TInv', [Next]_vars, Owned, NEW d \in Deletions,
           (\E m \in Memories : DeleteCommit(d, m)) \/ DeletePurge(d)
    PROVE  Owned'
<1>0. TInv /\ TypeOK /\ del \in [Deletions -> Deleting] /\ task' = task
  BY DEF RowInv, TInv, DeleteCommit, DeletePurge
<1>1. \A m \in Memories : \A r \in Revs : Working(m, r)' <=> Working(m, r)
  BY <1>0 DEF Working, Owes, Items, Attempted
<1>2. ASSUME NEW m \in Memories, NEW r \in Revs, points'[m][r] # NoPoint
      PROVE  points[m][r] # NoPoint /\ (Covered(m, r) => Covered(m, r)')
  <2>1. ASSUME Purging(m, r) PROVE Purging(m, r)'
    <3>1. PICK e \in Deletions : del[e].pc = "purge" /\ del[e].mem = m /\ del[e].row.point = r
      BY <2>1 DEF Purging
    <3>2. CASE del'[e] = del[e]
      BY <3>1, <3>2 DEF Purging
    <3>3. CASE del'[e] # del[e]
      <4>1. e = d /\ DeletePurge(d)
        BY <1>0, <3>1, <3>3 DEF DeleteCommit, DeletePurge
      <4>2. points'[m][r] = NoPoint
        BY <1>0, <3>1, <4>1 DEF DeletePurge, Without, TypeOK
      <4> QED
        BY <1>2, <4>2
    <3> QED
      BY <3>2, <3>3
  <2>2. points[m][r] # NoPoint
    BY <1>0, <1>2 DEF DeleteCommit, DeletePurge, Without, TypeOK
  <2> QED
    BY <1>1, <2>1, <2>2 DEF Covered
<1>3. KeepsOwners
  BY <1>2 DEF KeepsOwners
<1>4. ASSUME NEW m \in Memories, Exists(m), mem'[m] # mem[m], NEW r \in Revs, mem[m].point = r
      PROVE  Purging(m, r)'
  <2>1. PICK n \in Memories : DeleteCommit(d, n)
    BY <1>0, <1>4 DEF DeletePurge
  <2>2. n = m /\ del' = [del EXCEPT ![d] = [pc |-> "purge", mem |-> m, row |-> mem[m]]]
    BY <1>0, <1>4, <2>1 DEF DeleteCommit, TypeOK
  <2>3. del'[d].pc = "purge" /\ del'[d].mem = m /\ del'[d].row.point = r
    BY <1>0, <1>4, <2>2
  <2> QED
    BY <2>3 DEF Purging
<1>5. Accounted'
  <2> SUFFICES ASSUME NEW m \in Memories, NEW r \in Revs, points'[m][r] # NoPoint
               PROVE  (Exists(m)' /\ mem'[m].point = r) \/ Covered(m, r)'
    BY DEF Accounted, Covered, Exists
  <2>1. (Exists(m) /\ mem[m].point = r) \/ Covered(m, r)
    BY <1>2 DEF Owned, Accounted, Covered
  <2>2. CASE Exists(m) /\ mem[m].point = r /\ mem'[m] = mem[m]
    BY <2>2 DEF Exists
  <2>3. CASE Exists(m) /\ mem[m].point = r /\ mem'[m] # mem[m]
    <3>1. Purging(m, r)'
      BY <1>4, <2>3
    <3> QED
      BY <3>1 DEF Covered
  <2> QED
    BY <1>2, <2>1, <2>2, <2>3
<1>6. \A a \in Actors : SweptBy(a)' /\ UselessBy(a)'
  BY <1>0, <1>3, Bystander
<1> QED
  BY <1>5, <1>6, OwnedByAll

\* An actor that has put nothing reads, is refused or is accepted.
LEMMA OwnedRead ==
    ASSUME RowInv, TInv', [Next]_vars, Owned, NEW a \in Actors, UNCHANGED <<mem, points, del>>,
           \A b \in Actors \ {a} : task'[b] = task[b],
           task[a].pc \notin Writing, task'[a].pc \notin Writing
    PROVE  Owned'
<1>1. \A m \in Memories : \A r \in Revs : Covered(m, r) => Covered(m, r)'
  BY StillWorking DEF Owes, Covered, Purging
<1>2. KeepsOwners
  BY <1>1 DEF KeepsOwners
<1>3. Accounted'
  BY <1>1 DEF Owned, Accounted, Covered, Exists
<1>4. \A b \in Actors : task'[b] = task[b] \/ task'[b].pc \notin {"stamp", "undo"}
  BY DEF Writing
<1>5. \A b \in Actors : SweptBy(b)' /\ UselessBy(b)'
  BY <1>2, <1>4, Bystander
<1> QED
  BY <1>3, <1>5, OwnedByAll

LEMMA OwnedPut ==
    ASSUME RowInv, TInv', [Next]_vars, Owned, NEW a \in Actors, Put(a), faults' = 0
    PROVE  Owned'
<1>0. TInv /\ TypeOK
  BY DEF RowInv, TInv
<1>1. To(a, "clean") /\ mem' = mem /\ del' = del /\ points' = Upserted(a) /\ task[a].pc = "put"
  BY <1>0 DEF Put, At, VFault, TypeOK
<1>2. /\ \A b \in Actors \ {a} : task'[b] = task[b]
      /\ task'[a].pc = "clean" /\ Items(a)' = Items(a)
      /\ \A m \in Memories : Attempted(a, m)' = Attempted(a, m)
  BY <1>0, <1>1, Goes
<1>3. \A m \in Memories : \A r \in Revs : Covered(m, r) => Covered(m, r)'
  BY <1>1, <1>2, StillWorking DEF Owes, Writing, Covered, Purging
<1>4. ASSUME NEW m \in Memories, NEW r \in Revs, points'[m][r] # points[m][r]
      PROVE  Covered(m, r)'
  <2>1. m \in Items(a) /\ r = Attempted(a, m)
    BY <1>1, <1>4 DEF Upserted
  <2>2. Owes(a, m, r)'
    BY <1>2, <2>1 DEF Owes, Writing
  <2> QED
    BY <2>2 DEF Covered, Working
<1>5. KeepsOwners
  BY <1>3, <1>4 DEF KeepsOwners
<1>6. Accounted'
  BY <1>1, <1>3, <1>4 DEF Owned, Accounted, Covered, Exists
<1>7. \A b \in Actors : task'[b] = task[b] \/ task'[b].pc \notin {"stamp", "undo"}
  BY <1>2
<1>8. \A b \in Actors : SweptBy(b)' /\ UselessBy(b)'
  BY <1>5, <1>7, Bystander
<1> QED
  BY <1>6, <1>8, OwnedByAll

LEMMA OwnedClean ==
    ASSUME RowInv, TInv', [Next]_vars, Owned, NEW a \in Actors, Clean(a)
    PROVE  Owned'
<1>0. TInv /\ TypeOK
  BY DEF RowInv, TInv
<1>1. To(a, "stamp") /\ mem' = mem /\ del' = del /\ points' = Cleaned(a) /\ task[a].pc = "clean"
  BY DEF Clean, At
<1>2. /\ \A b \in Actors \ {a} : task'[b] = task[b]
      /\ task'[a].pc = "stamp" /\ Items(a)' = Items(a)
      /\ \A m \in Memories : Attempted(a, m)' = Attempted(a, m)
  BY <1>0, <1>1, Goes
<1>3. ASSUME NEW m \in Memories, NEW r \in Revs, Covered(m, r) PROVE Covered(m, r)'
  <2>1. Owes(a, m, r) => Owes(a, m, r)'
    BY <1>2, <1>3 DEF Owes, Writing
  <2> QED
    BY <1>1, <1>2, <1>3, <2>1, StillWorking DEF Covered, Purging
<1>4. \A m \in Memories : \A r \in Revs :
        points'[m][r] # NoPoint =>
            /\ points[m][r] # NoPoint
            /\ ~(m \in Items(a) /\ r < Attempted(a, m))
  BY <1>1 DEF Cleaned, Older
<1>5. KeepsOwners
  BY <1>3, <1>4 DEF KeepsOwners
<1>6. Accounted'
  BY <1>1, <1>3, <1>4 DEF Owned, Accounted, Covered, Exists
<1>7. \A b \in Actors \ {a} : SweptBy(b)' /\ UselessBy(b)'
  BY <1>2, <1>5, Bystander
<1>8. UselessBy(a)'
  BY <1>2 DEF UselessBy, At
<1>9. SweptBy(a)'
  <2> SUFFICES ASSUME NEW m \in Items(a)', NEW r \in Revs, r < Attempted(a, m)',
                      points'[m][r] # NoPoint
               PROVE  FALSE
    BY DEF SweptBy
  <2>1. m \in Items(a) /\ m \in Memories /\ Attempted(a, m)' = Attempted(a, m)
    BY <1>2 DEF Items
  <2> QED
    BY <1>4, <2>1
<1> QED
  BY <1>6, <1>7, <1>8, <1>9, OwnedByAll

\* Who embeds a row at its present revision leaves the point it names, and no
\* other that is nobody's.
LEMMA OwnedStamp ==
    ASSUME RowInv, TInv', [Next]_vars, Owned, NEW a \in Actors, Rest(a), del' = del,
           \A m \in Memories \ Items(a) : mem'[m] = mem[m] /\ points'[m] = points[m],
           \A m \in Items(a) : \A r \in Revs : points'[m][r] # NoPoint =>
               points[m][r] # NoPoint /\ (r = Attempted(a, m) => Current(a, m)),
           \A m \in Items(a) : \/ mem'[m] = mem[m] /\ (Current(a, m) => mem[m].status = "embedded")
                               \/ Embeds(a, m)
    PROVE  Owned'
<1>0. TInv /\ TypeOK /\ mem \in [Memories -> Row \cup {Unborn, NoRow}]
  BY DEF RowInv, TInv, TypeOK
<1>1. (\A b \in Actors \ {a} : task'[b] = task[b]) /\ task'[a].pc = "idle"
  BY <1>0, Rests
<1>2. ASSUME NEW m \in Memories, NEW r \in Revs, Covered(m, r), ~(m \in Items(a) /\ Attempted(a, m) = r)
      PROVE  Covered(m, r)'
  BY <1>1, <1>2, StillWorking DEF Covered, Purging, Owes
\* What the actor has put itself.
<1>3. ASSUME NEW m \in Items(a), Current(a, m), points'[m][Attempted(a, m)] # NoPoint
      PROVE  Exists(m)' /\ mem'[m].rev = Attempted(a, m) /\ mem'[m].point = Attempted(a, m)
  <2>1. m \in Memories /\ Exists(m) /\ mem[m].rev = Attempted(a, m) /\ mem[m] \in Row
    BY <1>0, <1>3 DEF Current, Items, Exists
  <2>2. CASE mem'[m] = mem[m]
    BY <1>3, <2>1, <2>2 DEF RowInv, Named, Exists, Embeds, Marked, Row
  <2>3. CASE mem'[m] = Marked(m, Attempted(a, m))
    <3>1. Marked(m, Attempted(a, m)) \in Row
      BY <1>0, <2>1, RowTypes
    <3>2. /\ Marked(m, Attempted(a, m)).rev = mem[m].rev
          /\ Marked(m, Attempted(a, m)).point = Attempted(a, m)
      BY <2>1 DEF Marked, Row
    <3> QED
      BY <2>1, <2>3, <3>1, <3>2, Consts DEF Exists
  <2> QED
    BY <1>3, <2>2, <2>3 DEF Embeds
\* What others have put, or the row named before.
<1>4. ASSUME NEW m \in Items(a), NEW r \in Revs, r # Attempted(a, m), points'[m][r] # NoPoint
      PROVE  Covered(m, r)' \/ (Exists(m)' /\ mem'[m].point = r)
  <2>1. m \in Memories /\ points[m][r] # NoPoint
    BY <1>4 DEF Items
  <2>2. Covered(m, r) => Covered(m, r)'
    BY <1>2, <1>4, <2>1
  <2>3. Covered(m, r) \/ (Exists(m) /\ mem[m].point = r)
    BY <2>1 DEF Owned, Accounted, Covered
  <2>4. CASE mem'[m] = mem[m]
    BY <2>2, <2>3, <2>4 DEF Exists
  <2>5. CASE Embeds(a, m)
    <3>1. At(a, "stamp") /\ Current(a, m) /\ Exists(m) /\ mem[m].rev = Attempted(a, m)
      BY <2>5 DEF Embeds, Current
    <3>2. r < Attempted(a, m) => Covered(m, r)
      BY <2>1, <3>1 DEF Owned, Swept, Covered
    <3>3. mem[m].point = r => r <= mem[m].rev
      BY <2>1, <3>1 DEF RowInv, Named
    <3>4. r \in Nat /\ Attempted(a, m) \in Nat
      BY <1>0, TaskTypes, Consts
    <3>5. mem[m].point = r => r < Attempted(a, m)
      BY <1>4, <3>1, <3>3, <3>4
    <3> QED
      BY <2>2, <2>3, <3>2, <3>5
  <2> QED
    BY <1>4, <2>4, <2>5
<1>5. Accounted'
  <2> SUFFICES ASSUME NEW m \in Memories, NEW r \in Revs, points'[m][r] # NoPoint
               PROVE  (Exists(m)' /\ mem'[m].point = r) \/ Covered(m, r)'
    BY DEF Accounted, Covered, Exists
  <2>1. CASE m \notin Items(a)
    <3>1. mem'[m] = mem[m] /\ points[m][r] # NoPoint
      BY <2>1
    <3> QED
      BY <1>2, <2>1, <3>1 DEF Owned, Accounted, Covered, Exists
  <2>2. CASE m \in Items(a) /\ r = Attempted(a, m)
    BY <1>3, <2>2
  <2> QED
    BY <1>4, <2>1, <2>2
<1>6. KeepsOwners
  <2> SUFFICES ASSUME NEW m \in Memories, NEW r \in Revs, points'[m][r] # NoPoint
               PROVE  \/ Covered(m, r)'
                      \/ points[m][r] # NoPoint /\ ~Covered(m, r)
                      \/ Exists(m)' /\ mem'[m].rev = r
    BY DEF KeepsOwners
  <2>1. points[m][r] # NoPoint
    BY DEF Items
  <2>2. CASE m \in Items(a) /\ r = Attempted(a, m)
    BY <1>3, <2>2
  <2> QED
    BY <1>2, <2>1, <2>2
<1>7. \A b \in Actors : SweptBy(b)' /\ UselessBy(b)'
  BY <1>1, <1>6, Bystander
<1> QED
  BY <1>5, <1>7, OwnedByAll

LEMMA OwnedBackfillStamp ==
    ASSUME RowInv, TInv', [Next]_vars, Owned, NEW w \in Runs, BackfillStamp(w)
    PROVE  Owned'
<1>0. TInv /\ TypeOK /\ w \in Actors
  BY DEF RowInv, TInv, Actors
<1>1. Rest(w) /\ del' = del /\ At(w, "stamp")
  BY DEF BackfillStamp
<1>2. ASSUME NEW m \in Memories \ Items(w) PROVE mem'[m] = mem[m] /\ points'[m] = points[m]
  <2>1. mem'[m] = mem[m]
    BY DEF BackfillStamp
  <2>2. points'[m] = [r \in Revs |-> points[m][r]]
    BY DEF BackfillStamp, Undone
  <2> QED
    BY <1>0, <2>1, <2>2 DEF TypeOK
<1>3. \A m \in Items(w) : \A r \in Revs : points'[m][r] # NoPoint =>
        points[m][r] # NoPoint /\ (r = Attempted(w, m) => Current(w, m))
  BY DEF BackfillStamp, Undone, Outdated, Items
<1>4. ASSUME NEW m \in Items(w)
      PROVE  \/ mem'[m] = mem[m] /\ (Current(w, m) => mem[m].status = "embedded")
             \/ Embeds(w, m)
  <2>0. m \in Memories
    BY DEF Items
  <2>1. CASE Markable(w, m)
    BY <1>1, <2>0, <2>1 DEF BackfillStamp, Embeds, Markable
  <2>2. CASE ~Markable(w, m)
    <3>1. mem'[m] = mem[m]
      BY <2>0, <2>2 DEF BackfillStamp
    <3>2. Current(w, m) => mem[m].status = "embedded"
      BY <1>0, <2>0, <2>2, RowTypes DEF Markable, Current, Row
    <3> QED
      BY <3>1, <3>2
  <2> QED
    BY <2>1, <2>2
<1> QED
  BY <1>0, <1>1, <1>2, <1>3, <1>4, OwnedStamp

LEMMA OwnedPost ==
    ASSUME RowInv, TInv', [Next]_vars, Owned, NEW b \in Bridges, PostStamp(b) \/ PostUndo(b)
    PROVE  Owned'
<1>0. TInv /\ TypeOK /\ b \in Actors /\ mem \in [Memories -> Row \cup {Unborn, NoRow}]
  BY DEF RowInv, TInv, TypeOK, Actors
<1>1. CASE PostUndo(b)
  <2>1. Rest(b) /\ del' = del /\ mem' = mem /\ points' = Undone(b) /\ At(b, "undo")
    BY <1>1 DEF PostUndo
  <2>2. \A m \in Items(b) : ~Current(b, m)
    BY <1>0, <2>1 DEF Owned, Useless, Outdated
  <2>3. ASSUME NEW m \in Memories \ Items(b) PROVE mem'[m] = mem[m] /\ points'[m] = points[m]
    <3>1. points'[m] = [r \in Revs |-> points[m][r]]
      BY <2>1 DEF Undone
    <3> QED
      BY <1>0, <2>1, <3>1 DEF TypeOK
  <2>4. \A m \in Items(b) : \A r \in Revs : points'[m][r] # NoPoint =>
          points[m][r] # NoPoint /\ (r = Attempted(b, m) => Current(b, m))
    BY <2>1 DEF Undone, Outdated, Items
  <2> QED
    BY <1>0, <2>1, <2>2, <2>3, <2>4, OwnedStamp
<1>2. CASE PostStamp(b)
  <2>1. PICK n \in Items(b) :
          IF Current(b, n)
          THEN mem' = [mem EXCEPT ![n] = Marked(n, Attempted(b, n))] /\ Rest(b)
          ELSE To(b, "undo") /\ UNCHANGED mem
    BY <1>2 DEF PostStamp
  <2>2. /\ n \in Memories /\ \A m \in Items(b) : m = n
        /\ points' = points /\ del' = del /\ task[b].pc = "stamp"
    BY <1>2 DEF RowInv, OneEach, Items, PostStamp, At
  <2>3. CASE Current(b, n)
    <3>1. Rest(b) /\ mem' = [mem EXCEPT ![n] = Marked(n, Attempted(b, n))]
      BY <2>1, <2>3
    <3>2. \A m \in Memories \ Items(b) : mem'[m] = mem[m] /\ points'[m] = points[m]
      BY <1>0, <2>1, <2>2, <3>1
    <3>3. \A m \in Items(b) : Embeds(b, m)
      BY <1>0, <2>2, <2>3, <3>1 DEF Embeds, At
    <3>4. \A m \in Items(b) : Current(b, m)
      BY <2>2, <2>3
    <3> QED
      BY <1>0, <2>2, <3>1, <3>2, <3>3, <3>4, OwnedStamp
  <2>4. CASE ~Current(b, n)
    <3>1. To(b, "undo") /\ mem' = mem
      BY <2>1, <2>4
    <3>2. /\ \A c \in Actors \ {b} : task'[c] = task[c]
          /\ task'[b].pc = "undo" /\ Items(b)' = Items(b)
          /\ \A m \in Memories : Attempted(b, m)' = Attempted(b, m)
      BY <1>0, <3>1, Goes
    <3>3. ASSUME NEW m \in Memories, NEW r \in Revs, Covered(m, r) PROVE Covered(m, r)'
      <4>1. Owes(b, m, r) => Owes(b, m, r)'
        BY <3>2 DEF Owes, Writing
      <4> QED
        BY <1>0, <2>2, <3>2, <3>3, <4>1, StillWorking DEF Covered, Purging
    <3>4. KeepsOwners
      BY <2>2, <3>3 DEF KeepsOwners
    <3>5. Accounted'
      BY <2>2, <3>1, <3>3 DEF Owned, Accounted, Covered, Exists
    <3>6. \A c \in Actors \ {b} : SweptBy(c)' /\ UselessBy(c)'
      BY <3>2, <3>4, Bystander
    <3>7. SweptBy(b)'
      BY <3>2 DEF SweptBy, At
    <3>8. UselessBy(b)'
      BY <2>2, <2>4, <3>1, <3>2 DEF UselessBy, Outdated, Current, Exists, Items
    <3> QED
      BY <3>5, <3>6, <3>7, <3>8, OwnedByAll
  <2> QED
    BY <2>3, <2>4
<1> QED
  BY <1>1, <1>2

\* No step of a switch makes a point.
LEMMA OwnedSwitch ==
    ASSUME RowInv, TInv', [Next]_vars, Owned, NEW s \in Saves,
           \/ Handled(s)
           \/ AddVector(s) \/ (\E k \in Keys : Scroll(s, k)) \/ WriteTarget(s)
           \/ FirstEnds(s) \/ PersistPin(s) \/ ApplyPin(s) \/ SecondEnds(s)
           \/ DropOld(s) \/ WriteStatus(s) \/ SwitchFails(s) \/ StatusFails(s)
    PROVE  Owned'
<1>1. UNCHANGED <<mem, task, del>> /\ (points' = points \/ WriteTarget(s) \/ DropOld(s))
  <2>1. CASE Handled(s)
    BY <2>1 DEF Handled, SaveRead, Resume, Begin, Refuse, Keep, Start, Store, Still, Stored
  <2>2. CASE \/ AddVector(s) \/ (\E k \in Keys : Scroll(s, k)) \/ WriteTarget(s)
             \/ FirstEnds(s) \/ PersistPin(s) \/ ApplyPin(s) \/ SecondEnds(s)
             \/ DropOld(s) \/ WriteStatus(s) \/ SwitchFails(s) \/ StatusFails(s)
    BY <2>2 DEF AddVector, Scroll, WriteTarget, FirstEnds, PersistPin, ApplyPin, SecondEnds,
                DropOld, WriteStatus, SwitchFails, StatusFails, Still, Stored
  <2> QED
    BY <2>1, <2>2
<1>2. \A m \in Memories : \A r \in Revs : points[m][r] = NoPoint => points'[m][r] = NoPoint
  BY <1>1 DEF WriteTarget, WithTarget, DropOld, Drops
<1> QED
  BY <1>1, <1>2, OwnedElsewhere

LEMMA OwnedNext == ASSUME OwnedInv, [Next]_vars PROVE OwnedInv'
<1>0. RowInv /\ TInv /\ TypeOK /\ RowInv' /\ TInv'
  BY RowNext DEF OwnedInv, RowInv, TInv
<1> SUFFICES ASSUME faults' = 0 PROVE Owned'
  BY <1>0 DEF OwnedInv, Owned
<1>1. faults = 0 /\ Owned /\ ~VFault /\ faults' = faults
  BY <1>0, ModeAndFaults DEF OwnedInv, Owned, VFault
<1>2. CASE \E m \in Memories : VCreate(m) \/ VEdit(m)
  <2>1. PICK n \in Memories : VCreate(n) \/ VEdit(n)
    BY <1>2
  <2>2. UNCHANGED <<task, del, points>>
    BY <2>1 DEF VCreate, VEdit
  <2>3. \A m \in Memories : mem'[m] = mem[m] \/ m = n
    BY <1>0, <2>1 DEF VCreate, VEdit, TypeOK
  <2> QED
    BY <1>0, <1>1, <2>1, <2>2, <2>3, OwnedElsewhere
<1>3. CASE \E d \in Deletions : \/ \E m \in Memories : DeleteCommit(d, m)
                                \/ DeletePurge(d) \/ DeleteFails(d)
  BY <1>0, <1>1, <1>3, OwnedDelete DEF DeleteFails
<1>4. ASSUME NEW a \in Actors, \/ PutRefused(a)
                               \/ a \in Runs /\ BackfillRead(a)
                               \/ a \in Bridges /\ Post(a)
                               \/ a \in Bridges /\ \E m \in Memories : Fetch(a, m)
      PROVE  Owned'
  <2>1. UNCHANGED <<mem, points, del>> /\ task[a].pc \notin Writing
    BY <1>4 DEF PutRefused, BackfillRead, Post, Fetch, At, Writing
  <2>2. (\A b \in Actors \ {a} : task'[b] = task[b]) /\ task'[a].pc \notin Writing
    <3>1. CASE Rest(a)
      BY <1>0, <3>1, Rests DEF Writing
    <3>2. CASE To(a, "put")
      BY <1>0, <3>2, Goes DEF Writing
    <3>3. CASE a \in Runs /\ BackfillRead(a)
      BY <1>0, <3>3 DEF BackfillRead, TypeOK, Writing
    <3>4. CASE a \in Bridges /\ \E m \in Memories : Fetch(a, m)
      BY <1>0, <3>4 DEF Fetch, TypeOK, Writing
    <3> QED
      BY <1>4, <3>1, <3>2, <3>3, <3>4 DEF PutRefused, Post
  <2> QED
    BY <1>0, <1>1, <2>1, <2>2, OwnedRead
<1>5. ASSUME NEW a \in Actors, Put(a) \/ Clean(a) PROVE Owned'
  BY <1>0, <1>1, <1>5, OwnedPut, OwnedClean
<1>6. ASSUME NEW w \in Runs, BackfillStamp(w) PROVE Owned'
  BY <1>0, <1>1, <1>6, OwnedBackfillStamp
<1>7. ASSUME NEW b \in Bridges, PostStamp(b) \/ PostUndo(b) PROVE Owned'
  BY <1>0, <1>1, <1>7, OwnedPost
<1>8. ASSUME NEW a \in Actors, ActorFails(a) PROVE Owned'
  BY <1>1, <1>8 DEF ActorFails
<1>9. CASE Others
  BY <1>2, <1>3, <1>4, <1>5, <1>6, <1>7, <1>8, <1>9 DEF Others, Actors
<1>10. CASE \E a \in Actors : Upsert(a)
  BY <1>5, <1>10 DEF Upsert
<1>11. ASSUME NEW s \in Saves,
              \/ Handled(s)
              \/ AddVector(s) \/ (\E k \in Keys : Scroll(s, k)) \/ WriteTarget(s)
              \/ FirstEnds(s) \/ PersistPin(s) \/ ApplyPin(s) \/ SecondEnds(s)
              \/ DropOld(s) \/ WriteStatus(s) \/ SwitchFails(s) \/ StatusFails(s)
       PROVE  Owned'
  BY <1>0, <1>1, <1>11, OwnedSwitch
<1>12. CASE Refresh \/ ApiRestart \/ WorkerRestart \/ UNCHANGED vars
  <2>1. UNCHANGED <<mem, points, task, del>>
    BY <1>1, <1>12 DEF Refresh, ApiRestart, WorkerRestart, Still, Stored, vars
  <2> QED
    BY <1>0, <1>1, <2>1, OwnedElsewhere
<1> QED
  BY <1>9, <1>10, <1>11, <1>12 DEF Next, Handled

LEMMA OwnedInit == Init => OwnedInv
<1> SUFFICES ASSUME Init PROVE OwnedInv
  OBVIOUS
<1>1. TInv /\ SeenRight
  BY TInvInit, AgeInit DEF AgeInv
<1>2. \A m \in Memories : mem[m] = Unborn /\ \A r \in Revs : points[m][r] = NoPoint
  BY DEF Init, VInit
<1>3. \A a \in Actors : Items(a) = {}
  BY NewStates DEF Init, VInit, Items
<1>4. OneEach /\ Swept /\ Useless
  BY <1>3 DEF OneEach, Swept, Useless, Actors
<1>5. Named /\ Accounted
  BY <1>2 DEF Named, Accounted, Exists
<1> QED
  BY <1>1, <1>4, <1>5 DEF OwnedInv, RowInv

\* Without failures, when nobody is at work no point is left of a row that was
\* deleted, and of an embedded row only the one of its revision: whoever puts a
\* point that is of no use takes it away again (embed-backfill.ts,
\* embedding-projections.ts, the deletion in routes/memories.ts), however many
\* runs, clients, deletions and switches overlap.
THEOREM NothingOrphaned == Spec => []NoOrphans
<1>1. Init => OwnedInv
  BY OwnedInit
<1>2. OwnedInv /\ [Next]_vars => OwnedInv'
  BY OwnedNext
<1>3. OwnedInv => NoOrphans
  <2> SUFFICES ASSUME OwnedInv, faults = 0, \A a \in Actors : task[a].pc = "idle",
                      NEW m \in Memories, NEW r \in Revs, points[m][r] # NoPoint
               PROVE  \/ Exists(m) /\ (mem[m].status = "embedded" => r = mem[m].rev)
                      \/ \E d \in Deletions : del[d].pc = "purge" /\ del[d].mem = m
    BY DEF NoOrphans
  <2>1. ~Working(m, r)
    BY DEF Working, Owes, Writing
  <2>2. (Exists(m) /\ mem[m].point = r) \/ Purging(m, r)
    BY <2>1 DEF OwnedInv, Accounted
  <2> QED
    BY <2>2 DEF Purging, OwnedInv, RowInv, Named
<1> QED
  BY <1>1, <1>2, <1>3, PTL DEF Spec

-----------------------------------------------------------------------------
(* Points that stand: the one of a row's present revision is taken away by *)
(* nobody.                                                                 *)

Stands ==
    /\ \A m \in Memories : \A r \in Revs : points[m][r] # NoPoint => mem[m] # Unborn
    /\ \A d \in Deletions : del[d].pc = "purge" => mem[del[d].mem] = NoRow
    /\ \A m \in Memories : Exists(m) /\ mem[m].status = "embedded" =>
         points[m][mem[m].rev] # NoPoint
    /\ \A a \in Actors : task[a].pc \in {"clean", "stamp"} =>
         \A m \in Items(a) : Current(a, m) => points[m][Attempted(a, m)] # NoPoint

LEMMA NewPoints ==
    ASSUME TInv, [Next]_vars, NEW m \in Memories, NEW r \in Revs,
           points[m][r] = NoPoint, points'[m][r] # NoPoint
    PROVE  \E a \in Actors : Upsert(a) /\ m \in Items(a) /\ r = Attempted(a, m)
<1>0. TypeOK
  BY DEF TInv
<1>1. ASSUME NEW a \in Actors, \/ Clean(a) \/ ActorFails(a) \/ BackfillStamp(a) \/ PostUndo(a)
      PROVE  points'[m][r] = NoPoint
  <2>1. points' \in {points, Cleaned(a), Undone(a)}
    BY <1>1 DEF Clean, ActorFails, BackfillStamp, PostUndo
  <2> QED
    BY <2>1 DEF Cleaned, Undone
<1>2. ASSUME NEW d \in Deletions, DeletePurge(d) PROVE points'[m][r] = NoPoint
  BY <1>0, <1>2 DEF DeletePurge, Without, TypeOK
<1>3. ASSUME NEW s \in Saves, WriteTarget(s) \/ DropOld(s) PROVE points'[m][r] = NoPoint
  BY <1>3 DEF WriteTarget, WithTarget, DropOld, Drops
<1>4. ASSUME NEW a \in Actors, Upsert(a) PROVE m \in Items(a) /\ r = Attempted(a, m)
  BY <1>4 DEF Upsert, Put, Upserted
<1> QED
  BY <1>1, <1>2, <1>3, <1>4, PointsFrame DEF Actors

LEMMA StandingPoints ==
    ASSUME TInv, SeenRight, Stands, [Next]_vars, NEW m \in Memories, Exists(m),
           points[m][mem[m].rev] # NoPoint
    PROVE  points'[m][mem[m].rev] # NoPoint
<1> DEFINE r == mem[m].rev
<1>0. TypeOK /\ r \in Revs /\ Top(m) = r
  BY RowTypes, Tops DEF TInv
<1>1. ASSUME NEW a \in Actors, \/ Clean(a) \/ ActorFails(a) \/ BackfillStamp(a) \/ PostUndo(a)
      PROVE  points'[m][r] # NoPoint
  <2>1. points' \in {points, Cleaned(a), Undone(a)}
    BY <1>1 DEF Clean, ActorFails, BackfillStamp, PostUndo
  <2>2. Undone(a)[m][r] = points[m][r]
    BY <1>0 DEF Undone, Outdated, Current
  <2>3. ~(r < Attempted(a, m))
    <3>1. Attempted(a, m) <= r /\ Attempted(a, m) \in 0..MaxRev
      BY <1>0, TaskTypes DEF SeenRight, Attempted
    <3> HIDE DEF r
    <3> QED
      BY <1>0, <3>1, Consts
  <2>4. Cleaned(a)[m][r] = points[m][r]
    BY <1>0, <2>3 DEF Cleaned, Older
  <2> QED
    BY <2>1, <2>2, <2>4
<1>2. ASSUME NEW d \in Deletions, DeletePurge(d) PROVE points'[m][r] # NoPoint
  <2>1. del[d].mem # m
    BY <1>2 DEF DeletePurge, Stands, Exists
  <2> QED
    BY <1>0, <1>2, <2>1 DEF DeletePurge, Without, TypeOK
<1>3. ASSUME NEW a \in Actors, Upsert(a) PROVE points'[m][r] # NoPoint
  <2>1. CASE m \in Items(a) /\ r = Attempted(a, m)
    <3> DEFINE new == [p \in Pins |-> IF p = PinOf(a) THEN [of |-> r, by |-> task[a].by] ELSE NoVector]
    <3>1. points'[m][r] = new
      BY <1>0, <1>3, <2>1 DEF Upsert, Put, Upserted
    <3>2. new \in Point
      BY <1>0, TaskTypes DEF Point, Vector
    <3> QED
      BY <3>1, <3>2, Consts
  <2> QED
    BY <1>0, <1>3, <2>1 DEF Upsert, Put, Upserted
<1>4. ASSUME NEW s \in Saves, WriteTarget(s) \/ DropOld(s) PROVE points'[m][r] # NoPoint
  <2>1. points[m][r] \in Point
    BY <1>0 DEF TypeOK
  <2>2. ASSUME NEW p \in Pins, NEW v \in Vector \cup {NoVector}
        PROVE  [points[m][r] EXCEPT ![p] = v] # NoPoint
    <3>1. [points[m][r] EXCEPT ![p] = v] \in Point
      BY <2>1 DEF Point
    <3> QED
      BY <3>1, Consts
  <2>3. CASE DropOld(s)
    <3>1. save[s].from \in Pins
      BY DEF TInv, Saving
    <3>2. points'[m][r] = [points[m][r] EXCEPT ![save[s].from] = NoVector]
      BY <1>0, <2>3 DEF DropOld, Drops
    <3> QED
      BY <2>2, <3>1, <3>2
  <2>4. CASE WriteTarget(s)
    <3>1. save[s].to \in Pins /\ save[s].text \in Revs
      BY <2>4 DEF WriteTarget, TInv, Saving
    <3>2. [of |-> save[s].text, by |-> save[s].to] \in Vector
      BY <3>1 DEF Vector
    <3>3. \/ points'[m][r] = points[m][r]
          \/ points'[m][r] = [points[m][r] EXCEPT ![save[s].to] = [of |-> save[s].text, by |-> save[s].to]]
      BY <1>0, <2>4 DEF WriteTarget, WithTarget
    <3> QED
      BY <2>2, <3>1, <3>2, <3>3
  <2> QED
    BY <1>4, <2>3, <2>4
<1> QED
  BY <1>1, <1>2, <1>3, <1>4, PointsFrame DEF Actors

\* Who is past its upsert was so before, or has just put its points.
LEMMA Writers ==
    ASSUME TInv, [Next]_vars, NEW a \in Actors, task'[a].pc \in {"clean", "stamp"}
    PROVE  /\ Items(a)' = Items(a) /\ \A m \in Memories : Attempted(a, m)' = Attempted(a, m)
           /\ task[a].pc \in {"clean", "stamp"} \/ Put(a)
<1>0. TypeOK /\ task \in [Actors -> Task]
  BY DEF TInv, TypeOK
<1> DEFINE Goal == /\ task'[a].seen = task[a].seen
                   /\ task[a].pc \in {"clean", "stamp"} \/ Put(a)
<1> SUFFICES Goal
  BY DEF Items, Attempted
<1>1. CASE task'[a] = task[a]
  BY <1>1
<1>2. ASSUME NEW b \in Actors, \/ Put(b) \/ Clean(b) \/ PutRefused(b) \/ ActorFails(b)
                               \/ BackfillStamp(b) \/ Post(b) \/ PostStamp(b) \/ PostUndo(b)
      PROVE  Goal
  <2>1. \/ Rest(b) \/ To(b, "put") \/ To(b, "undo")
        \/ (To(b, "clean") /\ Put(b))
        \/ (To(b, "stamp") /\ task[b].pc = "clean")
    BY <1>2 DEF Put, Clean, PutRefused, ActorFails, BackfillStamp, Post, PostStamp, PostUndo, At
  <2>2. CASE b # a
    BY <1>0, <1>1, <2>1, <2>2, Rests, Goes
  <2>3. CASE b = a
    <3>1. ~Rest(a)
      BY <1>0, Rests
    <3>2. ~To(a, "put") /\ ~To(a, "undo")
      BY <1>0, Goes
    <3>3. To(a, "clean") \/ To(a, "stamp") => task'[a].seen = task[a].seen
      BY <1>0, Goes
    <3> QED
      BY <2>1, <2>3, <3>1, <3>2, <3>3
  <2> QED
    BY <2>2, <2>3
<1>3. ASSUME NEW w \in Runs, BackfillRead(w) PROVE task'[a] = task[a]
  BY <1>0, <1>3 DEF BackfillRead
<1>4. ASSUME NEW b \in Bridges, NEW x \in Memories, Fetch(b, x) PROVE task'[a] = task[a]
  BY <1>0, <1>4 DEF Fetch
<1>5. CASE ApiRestart \/ WorkerRestart
  BY <1>0, <1>1, <1>5 DEF ApiRestart, WorkerRestart, Idle
<1> QED
  BY <1>1, <1>2, <1>3, <1>4, <1>5, TaskFrame DEF Actors

LEMMA StandsNext ==
    ASSUME TInv, SeenRight, Stands, TInv', [Next]_vars PROVE Stands'
<1>0. TypeOK /\ TypeOK' /\ mem \in [Memories -> Row \cup {Unborn, NoRow}]
  BY DEF TInv, TypeOK
<1>1. ASSUME NEW m \in Memories, mem[m] # Unborn PROVE mem'[m] # Unborn
  <2>1. \A a \in Actors : Embeds(a, m) => mem'[m] \in Row
    BY <1>0, RowTypes, TaskTypes DEF Embeds, Current
  <2>2. Exists(m) /\ mem[m].rev < MaxRev => Edited(mem[m]) \in Row
    BY <1>0, RowTypes
  <2> QED
    BY <1>1, <2>1, <2>2, RowSteps, Consts
<1>2. ASSUME NEW m \in Memories, NEW r \in Revs, points'[m][r] # NoPoint PROVE mem'[m] # Unborn
  <2>1. CASE points[m][r] # NoPoint
    BY <1>1, <2>1 DEF Stands
  <2>2. CASE points[m][r] = NoPoint
    <3>1. PICK a \in Actors : m \in Items(a)
      BY <1>2, <2>2, NewPoints
    <3>2. Attempted(a, m) \in Revs /\ Attempted(a, m) <= Top(m)
      BY <1>0, <3>1, TaskTypes DEF SeenRight, Attempted
    <3>3. Top(m) # 0
      BY <3>2, Consts DEF Revs
    <3> QED
      BY <1>1, <3>3 DEF Top
  <2> QED
    BY <2>1, <2>2
<1>3. ASSUME NEW d \in Deletions, del'[d].pc = "purge" PROVE mem'[del'[d].mem] = NoRow
  <2>0. del \in [Deletions -> Deleting] /\ del[d] \in Deleting
    BY DEF TInv
  <2>1. CASE del'[d] = del[d]
    <3>1. del[d].mem \in Memories /\ mem[del[d].mem] = NoRow
      BY <1>3, <2>1 DEF TInv, Stands
    <3>2. mem'[del[d].mem] = NoRow
      BY <1>0, <3>1, RowSteps, Consts DEF Exists, Embeds, Current
    <3> QED
      BY <2>1, <3>2
  <2>2. CASE del'[d] # del[d]
    <3>1. PICK m \in Memories : DeleteCommit(d, m)
      <4>1. ASSUME NEW e \in Deletions, DeletePurge(e) \/ DeleteFails(e) PROVE FALSE
        <5>1. del'[d].pc = "end" \/ del'[d] = del[d]
          BY <2>0, <4>1, NewStates DEF DeletePurge, DeleteFails
        <5> QED
          BY <1>3, <2>2, <5>1
      <4>2. ASSUME NEW e \in Deletions, NEW m \in Memories, DeleteCommit(e, m) PROVE e = d
        BY <2>0, <2>2, <4>2 DEF DeleteCommit
      <4>3. ~ApiRestart
        BY <1>3, <2>0, <2>2, NewStates DEF ApiRestart
      <4> QED
        BY <2>2, <4>1, <4>2, <4>3, DelFrame
    <3>2. del'[d].mem = m /\ mem'[m] = NoRow
      BY <1>0, <2>0, <3>1 DEF DeleteCommit, TInv
    <3> QED
      BY <3>2
  <2> QED
    BY <2>1, <2>2
\* The present point of a row does not go.
<1>4. ASSUME NEW m \in Memories, Exists(m), points[m][mem[m].rev] # NoPoint,
             Exists(m)', mem'[m].rev = mem[m].rev
      PROVE  points'[m][mem'[m].rev] # NoPoint
  BY <1>4, StandingPoints
<1>5. ASSUME NEW m \in Memories, Exists(m)', mem'[m].status = "embedded"
      PROVE  points'[m][mem'[m].rev] # NoPoint
  <2>1. CASE mem'[m] = mem[m]
    BY <1>4, <1>5, <2>1 DEF Stands, Exists
  <2>2. ASSUME NEW a \in Actors, Embeds(a, m) PROVE points'[m][mem'[m].rev] # NoPoint
    <3>1. Exists(m) /\ mem[m].rev = Attempted(a, m) /\ points[m][mem[m].rev] # NoPoint
      BY <2>2 DEF Embeds, Current, Stands, At
    <3>2. mem'[m].rev = mem[m].rev
      BY <1>0, <2>2, <3>1, RowTypes, TaskTypes DEF Embeds
    <3> QED
      BY <1>4, <1>5, <3>1, <3>2
  <2>3. Exists(m) /\ mem[m].rev < MaxRev => Edited(mem[m]).status # "embedded"
    BY <1>0, RowTypes DEF Edited, Row
  <2>4. [rev |-> 1, status |-> "pending", point |-> 0].status # "embedded"
    OBVIOUS
  <2>5. mem'[m] # NoRow
    BY <1>5 DEF Exists
  <2> QED
    BY <1>5, <2>1, <2>2, <2>3, <2>4, <2>5, RowSteps
<1>6. ASSUME NEW a \in Actors, task'[a].pc \in {"clean", "stamp"},
             NEW m \in Items(a)', Current(a, m)'
      PROVE  points'[m][Attempted(a, m)'] # NoPoint
  <2>1. /\ m \in Items(a) /\ m \in Memories /\ Attempted(a, m)' = Attempted(a, m)
        /\ task[a].pc \in {"clean", "stamp"} \/ Put(a)
    BY <1>6, Writers DEF Items
  <2>2. Exists(m)' /\ mem'[m].rev = Attempted(a, m)
    BY <1>6, <2>1 DEF Current
  <2>3. Current(a, m)
    BY <2>1, <2>2, WasCurrent
  <2>4. CASE Put(a)
    <3> DEFINE r == Attempted(a, m)
               new == [p \in Pins |-> IF p = PinOf(a) THEN [of |-> r, by |-> task[a].by] ELSE NoVector]
    <3>1. r \in Revs
      BY <1>0, <2>1, TaskTypes
    <3>2. points'[m][r] = new
      BY <2>1, <2>4, <3>1 DEF Put, Upserted
    <3>3. new \in Point
      BY <1>0, <3>1, TaskTypes DEF Point, Vector
    <3> QED
      BY <2>1, <3>2, <3>3, Consts
  <2>5. CASE task[a].pc \in {"clean", "stamp"}
    <3>1. Exists(m) /\ mem[m].rev = Attempted(a, m) /\ points[m][mem[m].rev] # NoPoint
      BY <2>1, <2>3, <2>5 DEF Stands, Current
    <3> QED
      BY <1>4, <2>1, <2>2, <3>1
  <2> QED
    BY <2>1, <2>4, <2>5
<1> QED
  BY <1>2, <1>3, <1>5, <1>6 DEF Stands, Exists

-----------------------------------------------------------------------------
(* What the stored pin may want of: points of existing rows without its    *)
(* vector, but for the lagging ones. A step that keeps the pin and its     *)
(* vectors makes none, a second pass has all of them before it.            *)

Wants(m, r) == /\ Exists(m) /\ points[m][r] # NoPoint /\ <<m, r>> \notin lagged
               /\ points[m][r][pin.db] = NoVector
Before(s, m, r) == <<m, r>> \in save[s].left \/ save[s].page = <<m, r>>
Steady == pin'.db = pin.db /\ \A s \in Saves : DropOld(s) => save[s].from # pin.db

Found ==
    /\ whole => \A m \in Memories : \A r \in Revs : ~Wants(m, r)
    /\ \A s \in sound :
         /\ In(s, "second") /\ save[s].to = pin.db
         /\ \A m \in Memories : \A r \in Revs : Wants(m, r) => Before(s, m, r)
FoundInv == RowInv /\ Stands /\ Found

\* A row that has a point was there before the step.
LEMMA WasThere ==
    ASSUME TInv, Stands, [Next]_vars, NEW m \in Memories, NEW r \in Revs, Exists(m)',
           points[m][r] # NoPoint
    PROVE  Exists(m)
<1>1. mem[m] # Unborn
  BY DEF Stands
<1>2. mem[m] # NoRow
  BY RowSteps, Consts DEF Exists, Embeds, Current
<1> QED
  BY <1>1, <1>2 DEF Exists

\* What is written under the stored pin is not wanting, and what is written under
\* another lags.
LEMMA PutWants ==
    ASSUME TInv, NEW a \in Actors, Upsert(a), NEW m \in Memories, NEW r \in Revs, Wants(m, r)'
    PROVE  Wants(m, r)
<1>0. TypeOK /\ pin' = pin /\ mem' = mem
  BY DEF TInv, Upsert, Put
<1>1. CASE m \in Items(a) /\ r = Attempted(a, m)
  <2>1. <<m, r>> \in Wrote(a)
    BY <1>1 DEF Wrote, Keys
  <2>2. CASE PinOf(a) # pin.db
    BY <2>1, <2>2 DEF Upsert, Wants
  <2>3. CASE PinOf(a) = pin.db
    <3>1. points'[m][r] = [q \in Pins |-> IF q = PinOf(a) THEN [of |-> r, by |-> task[a].by] ELSE NoVector]
      BY <1>1 DEF Upsert, Put, Upserted
    <3>2. points'[m][r][pin.db] = [of |-> r, by |-> task[a].by]
      BY <1>0, <2>3, <3>1, TaskTypes
    <3>3. [of |-> r, by |-> task[a].by] \in Vector
      BY <1>0, TaskTypes DEF Vector
    <3> QED
      BY <1>0, <3>2, <3>3, Consts DEF Wants
  <2> QED
    BY <2>2, <2>3
<1>2. CASE ~(m \in Items(a) /\ r = Attempted(a, m))
  <2>1. points'[m][r] = points[m][r]
    BY <1>2 DEF Upsert, Put, Upserted
  <2>2. <<m, r>> \notin Wrote(a)
    BY <1>2 DEF Wrote
  <2>3. <<m, r>> \notin lagged
    BY <2>2 DEF Upsert, Wants
  <2> QED
    BY <1>0, <2>1, <2>3 DEF Wants, Exists
<1> QED
  BY <1>1, <1>2

LEMMA PageWants ==
    ASSUME TInv, NEW s \in Saves, WriteTarget(s), NEW m \in Memories, NEW r \in Revs, Wants(m, r)'
    PROVE  Wants(m, r) /\ ~(save[s].page = <<m, r>> /\ save[s].to = pin.db)
<1>0. TypeOK /\ pin' = pin /\ mem' = mem /\ points'[m][r] = WithTarget(s, m, r)
  BY DEF TInv, WriteTarget, Still
<1>1. points[m][r] # NoPoint /\ points[m][r] \in Point
  BY <1>0 DEF Wants, WithTarget, TypeOK
<1>2. /\ save[s].to \in Pins /\ [of |-> save[s].text, by |-> save[s].to] # NoVector
      /\ pin.db \in Pins
  <2>1. save[s].to \in Pins /\ save[s].text \in Revs
    BY DEF WriteTarget, TInv, Saving
  <2>2. [of |-> save[s].text, by |-> save[s].to] \in Vector
    BY <2>1 DEF Vector
  <2> QED
    BY <1>0, <2>1, <2>2, Consts DEF TypeOK
<1>3. CASE save[s].page # <<m, r>>
  <2>1. points'[m][r] = points[m][r]
    BY <1>0, <1>3 DEF WithTarget
  <2>2. <<m, r>> \notin lagged
    BY <1>3 DEF WriteTarget, Wants
  <2> QED
    BY <1>0, <1>3, <2>1, <2>2 DEF Wants, Exists
<1>4. CASE save[s].page = <<m, r>>
  <2>1. points'[m][r] = [points[m][r] EXCEPT ![save[s].to] = [of |-> save[s].text, by |-> save[s].to]]
    BY <1>0, <1>1, <1>4 DEF WithTarget
  <2>2. points'[m][r][pin.db] = NoVector
    BY <1>0 DEF Wants
  <2>3. save[s].to # pin.db
    BY <1>1, <1>2, <2>1, <2>2 DEF Point
  <2>4. points[m][r][pin.db] = NoVector
    BY <1>1, <1>2, <2>1, <2>2, <2>3 DEF Point
  <2>5. <<m, r>> \notin lagged
    BY <2>3 DEF WriteTarget, Wants
  <2> QED
    BY <1>0, <1>1, <2>3, <2>4, <2>5 DEF Wants, Exists
<1> QED
  BY <1>3, <1>4

LEMMA OthersPin == ASSUME Others PROVE UNCHANGED <<names, pin>>
BY DEF Others, VCreate, VEdit, DeleteCommit, DeletePurge, DeleteFails, Clean, PutRefused,
       ActorFails, BackfillRead, BackfillStamp, Fetch, Post, PostStamp, PostUndo

\* The history, step by step.
LEMMA LaggedKept ==
    ASSUME TInv, [Next]_vars, pin'.db = pin.db,
           ~(\E a \in Actors : Upsert(a)), ~(\E s \in Saves : WriteTarget(s))
    PROVE  lagged' = lagged
<1> USE DEF Still, Stored, svars, history
<1>0. pin \in PinRecord
  BY DEF TInv, TypeOK, PinRecord
<1>1. ASSUME NEW s \in Saves, Handled(s) PROVE lagged' = lagged
  BY <1>0, <1>1 DEF Handled, SaveRead, Resume, Begin, Refuse, Keep, Start, Store, Pinned, PinRecord
<1>2. ASSUME NEW s \in Saves, \/ AddVector(s) \/ (\E k \in Keys : Scroll(s, k))
                              \/ FirstEnds(s) \/ PersistPin(s) \/ ApplyPin(s) \/ SecondEnds(s)
                              \/ DropOld(s) \/ WriteStatus(s) \/ SwitchFails(s) \/ StatusFails(s)
      PROVE  lagged' = lagged
  BY <1>0, <1>2 DEF AddVector, Scroll, FirstEnds, PersistPin, ApplyPin, SecondEnds,
                    DropOld, WriteStatus, SwitchFails, StatusFails, Pinned, Lost, PinRecord
<1>3. CASE Refresh \/ ApiRestart \/ WorkerRestart
  BY <1>3 DEF Refresh, ApiRestart, WorkerRestart
<1>4. CASE UNCHANGED vars
  BY <1>4 DEF vars
<1> QED
  BY <1>1, <1>2, <1>3, <1>4 DEF Next, Handled

LEMMA WholeKept ==
    ASSUME TInv, [Next]_vars, whole', ~(\E s \in sound : SecondEnds(s)) PROVE whole /\ Steady
<1> USE DEF Still, Stored, svars, history
<1>0. pin \in PinRecord
  BY DEF TInv, TypeOK, PinRecord
<1>1. ASSUME NEW s \in Saves, DropOld(s) PROVE save[s].from # pin.db
  BY <1>1 DEF DropOld, Lost
<1> SUFFICES whole /\ pin'.db = pin.db
  BY <1>1 DEF Steady
<1>2. CASE Others /\ UNCHANGED svars
  <2>1. pin' = pin
    BY <1>2, OthersPin
  <2> QED
    BY <1>2, <2>1
<1>3. ASSUME NEW a \in Actors, Upsert(a) PROVE whole /\ pin'.db = pin.db
  BY <1>3 DEF Upsert, Put
<1>4. ASSUME NEW s \in Saves, Handled(s) PROVE whole /\ pin'.db = pin.db
  BY <1>0, <1>4 DEF Handled, SaveRead, Resume, Begin, Refuse, Keep, Start, Store, Pinned, PinRecord
<1>5. ASSUME NEW s \in Saves, \/ AddVector(s) \/ (\E k \in Keys : Scroll(s, k)) \/ WriteTarget(s)
                              \/ FirstEnds(s) \/ PersistPin(s) \/ ApplyPin(s) \/ SecondEnds(s)
                              \/ DropOld(s) \/ WriteStatus(s) \/ SwitchFails(s) \/ StatusFails(s)
      PROVE  whole /\ pin'.db = pin.db
  BY <1>0, <1>5 DEF AddVector, Scroll, WriteTarget, FirstEnds, PersistPin, ApplyPin, SecondEnds,
                    DropOld, WriteStatus, SwitchFails, StatusFails, Pinned, Lost, PinRecord
<1>6. CASE Refresh \/ ApiRestart \/ WorkerRestart
  BY <1>0, <1>6 DEF Refresh, ApiRestart, WorkerRestart, PinRecord
<1>7. CASE UNCHANGED vars
  BY <1>7 DEF vars
<1> QED
  BY <1>2, <1>3, <1>4, <1>5, <1>6, <1>7 DEF Next, Handled

\* Nothing else is written: a step that keeps the pin and its vectors leaves
\* nothing wanting that was not before.
LEMMA WantsKept ==
    ASSUME TInv, TInv', Stands, [Next]_vars, Steady,
           NEW m \in Memories, NEW r \in Revs, Wants(m, r)'
    PROVE  Wants(m, r)
<1>0. TypeOK /\ pin.db \in Pins /\ points'[m][r] # NoPoint /\ Exists(m)'
  BY DEF TInv, TypeOK, Wants, Exists
<1>1. CASE \E a \in Actors : Upsert(a)
  BY <1>1, PutWants
<1>2. CASE \E s \in Saves : WriteTarget(s)
  BY <1>2, PageWants
<1>3. CASE ~(\E a \in Actors : Upsert(a)) /\ ~(\E s \in Saves : WriteTarget(s))
  <2>1. lagged' = lagged
    BY <1>0, <1>3, LaggedKept DEF Steady
  <2>2. /\ points[m][r] # NoPoint
        /\ points'[m][r] = points[m][r] \/ \E s \in Saves : DropOld(s)
    <3>1. ASSUME NEW a \in Actors, \/ Clean(a) \/ ActorFails(a) \/ BackfillStamp(a) \/ PostUndo(a)
          PROVE  points'[m][r] \in {points[m][r], NoPoint}
      <4>1. points' \in {points, Cleaned(a), Undone(a)}
        BY <3>1 DEF Clean, ActorFails, BackfillStamp, PostUndo
      <4>2. /\ Cleaned(a)[m][r] \in {points[m][r], NoPoint}
            /\ Undone(a)[m][r] \in {points[m][r], NoPoint}
        BY DEF Cleaned, Undone
      <4> QED
        BY <4>1, <4>2
    <3>2. ASSUME NEW d \in Deletions, DeletePurge(d) PROVE points'[m][r] \in {points[m][r], NoPoint}
      BY <1>0, <3>2 DEF DeletePurge, Without, TypeOK
    <3>3. ASSUME NEW s \in Saves, DropOld(s) PROVE points[m][r] # NoPoint
      BY <1>0, <3>3 DEF DropOld, Drops
    <3> QED
      BY <1>0, <1>3, <3>1, <3>2, <3>3, PointsFrame DEF Actors
  <2>3. Exists(m)
    BY <1>0, <2>2, WasThere
  <2>4. points[m][r][pin.db] = NoVector
    <3>1. points'[m][r][pin.db] = NoVector
      BY DEF Wants, Steady
    <3>2. ASSUME NEW s \in Saves, DropOld(s) PROVE points[m][r][pin.db] = NoVector
      <4>1. points[m][r] \in Point /\ save[s].from # pin.db
        BY <1>0, <2>2, <3>2 DEF TypeOK, Steady
      <4>2. points'[m][r] = [points[m][r] EXCEPT ![save[s].from] = NoVector]
        BY <2>2, <3>2 DEF DropOld, Drops
      <4> QED
        BY <1>0, <3>1, <4>1, <4>2 DEF Point
    <3> QED
      BY <2>2, <3>1, <3>2
  <2> QED
    BY <2>1, <2>2, <2>3, <2>4 DEF Wants
<1> QED
  BY <1>1, <1>2, <1>3

\* A second pass that is sound has just begun, or goes on under the same pin.
LEMMA SoundKept ==
    ASSUME TInv, Found, [Next]_vars, NEW s \in sound'
    PROVE  \/ ApplyPin(s) /\ pin.db = save[s].to /\ s \in Saves
           \/ /\ s \in sound /\ Steady
              /\ save'[s] = save[s] \/ WriteTarget(s) \/ \E k \in Keys : Scroll(s, k)
<1> USE DEF Still, Stored, svars, history
<1>0. /\ save \in [Saves -> Saving] /\ pin \in PinRecord /\ sound \subseteq Saves
      /\ \A z \in sound : save[z].pc = "second" /\ save[z].to = pin.db
  BY DEF TInv, TypeOK, PinRecord, Found, In
<1> DEFINE New == ApplyPin(s) /\ pin.db = save[s].to /\ s \in Saves
           On == /\ s \in sound /\ pin'.db = pin.db
                 /\ save'[s] = save[s] \/ WriteTarget(s) \/ \E k \in Keys : Scroll(s, k)
<1>1. ASSUME On PROVE Steady
  <2>1. ASSUME NEW z \in Saves, DropOld(z) PROVE save[z].from # pin.db
    BY <1>0, <1>1, <2>1 DEF DropOld, Lost
  <2> QED
    BY <1>1, <2>1 DEF Steady
<1> SUFFICES New \/ On
  BY <1>1
<1>2. CASE Others /\ UNCHANGED svars
  BY <1>2, OthersPin
<1>3. ASSUME NEW a \in Actors, Upsert(a) PROVE On
  BY <1>3 DEF Upsert, Put
<1>4. ASSUME NEW z \in Saves, Handled(z) PROVE On
  <2>1. ASSUME NEW p \in Pins, Resume(z, p) \/ Begin(z, p) \/ Refuse(z, p) \/ Keep(z, p) PROVE On
    BY <1>0, <2>1 DEF Resume, Begin, Refuse, Keep, SaveRead, In
  <2>2. CASE Start(z)
    BY <1>0, <2>2 DEF Start, In
  <2>3. CASE Store(z)
    BY <1>0, <2>3 DEF Store, Pinned, In, PinRecord
  <2> QED
    BY <1>4, <2>1, <2>2, <2>3 DEF Handled
<1>5. ASSUME NEW z \in Saves, AddVector(z) \/ FirstEnds(z) \/ WriteStatus(z) \/ StatusFails(z)
      PROVE  On
  BY <1>0, <1>5 DEF AddVector, FirstEnds, WriteStatus, StatusFails, In
<1>6. ASSUME NEW z \in Saves, PersistPin(z) PROVE On
  BY <1>0, <1>6 DEF PersistPin, Pinned, Go, In, PinRecord
<1>7. ASSUME NEW z \in Saves, ApplyPin(z) PROVE New \/ On
  BY <1>0, <1>7 DEF ApplyPin, In, PinRecord
<1>8. ASSUME NEW z \in Saves, SecondEnds(z) \/ SwitchFails(z) PROVE On
  BY <1>0, <1>8 DEF SecondEnds, SwitchFails
<1>9. ASSUME NEW z \in Saves, DropOld(z) PROVE On
  BY <1>0, <1>9 DEF DropOld, Lost, Go, In
<1>10. ASSUME NEW z \in Saves, WriteTarget(z) \/ \E k \in Keys : Scroll(z, k) PROVE On
  BY <1>0, <1>10 DEF WriteTarget, Scroll
<1>11. CASE Refresh \/ ApiRestart \/ WorkerRestart
  BY <1>0, <1>11 DEF Refresh, ApiRestart, WorkerRestart, PinRecord
<1>12. CASE UNCHANGED vars
  BY <1>12 DEF vars
<1> QED
  BY <1>2, <1>3, <1>4, <1>5, <1>6, <1>7, <1>8, <1>9, <1>10, <1>11, <1>12 DEF Next, Handled

LEMMA WholeNext ==
    ASSUME TInv, TInv', Stands, Found, [Next]_vars, whole', NEW m \in Memories, NEW r \in Revs
    PROVE  ~Wants(m, r)'
<1>1. ASSUME NEW s \in sound, SecondEnds(s) PROVE ~Wants(m, r)'
  <2>1. /\ UNCHANGED <<points, mem, pin, lagged>> /\ save[s].page = NoPage
        /\ save[s].left \cap There = {}
    BY <1>1 DEF SecondEnds, PassEnds, Still, Stored
  <2>2. Wants(m, r)' <=> Wants(m, r)
    BY <2>1 DEF Wants, Exists
  <2>3. Wants(m, r) => <<m, r>> \in Keys /\ <<m, r>> \in There
    BY DEF Wants, There, Keys
  <2>4. ~Before(s, m, r) \/ ~Wants(m, r)
    BY <2>1, <2>3, SwitchAssumption DEF Before
  <2> QED
    BY <2>2, <2>4 DEF Found
<1>2. CASE ~(\E s \in sound : SecondEnds(s))
  BY <1>2, WholeKept, WantsKept DEF Found
<1> QED
  BY <1>1, <1>2

LEMMA SoundNext ==
    ASSUME TInv, TInv', Stands, Found, [Next]_vars, NEW s \in sound'
    PROVE  /\ In(s, "second")' /\ save'[s].to = pin'.db
           /\ \A m \in Memories : \A r \in Revs : Wants(m, r)' => Before(s, m, r)'
<1>0. save \in [Saves -> Saving] /\ pin \in PinRecord /\ sound \subseteq Saves
  BY DEF TInv, TypeOK, PinRecord
<1>1. ASSUME s \in Saves, ApplyPin(s), pin.db = save[s].to
      PROVE  /\ In(s, "second")' /\ save'[s].to = pin'.db
             /\ \A m \in Memories : \A r \in Revs : Wants(m, r)' => Before(s, m, r)'
  <2> DEFINE e == [save[s] EXCEPT !.pc = "second", !.left = There]
  <2>1. save' = [save EXCEPT ![s] = e] /\ points' = points /\ pin'.db = pin.db
    BY <1>0, <1>1 DEF ApplyPin, Stored, PinRecord
  <2>2. e.left = There /\ e.pc = "second" /\ e.to = save[s].to
    BY <1>0, <1>1 DEF Saving
  <2> HIDE DEF e
  <2>3. save'[s].left = There /\ save'[s].pc = "second" /\ save'[s].to = pin'.db
    BY <1>0, <1>1, <2>1, <2>2
  <2> QED
    BY <2>1, <2>3 DEF Wants, Before, There, Keys, In
<1>2. ASSUME s \in sound, Steady, save'[s] = save[s] \/ WriteTarget(s) \/ \E k \in Keys : Scroll(s, k)
      PROVE  /\ In(s, "second")' /\ save'[s].to = pin'.db
             /\ \A m \in Memories : \A r \in Revs : Wants(m, r)' => Before(s, m, r)'
  <2>0. /\ save[s].pc = "second" /\ save[s].to = pin.db /\ pin'.db = pin.db /\ save[s] \in Saving
        /\ \A m \in Memories : \A r \in Revs : Wants(m, r) => Before(s, m, r)
    BY <1>0, <1>2 DEF Found, In, Steady
  <2>1. \A m \in Memories : \A r \in Revs : Wants(m, r)' => Wants(m, r)
    BY <1>2, WantsKept
  <2>2. CASE save'[s] = save[s]
    BY <2>0, <2>1, <2>2 DEF Before, In
  <2>3. CASE WriteTarget(s)
    <3> DEFINE e == [save[s] EXCEPT !.page = NoPage, !.text = 0]
    <3>1. save' = [save EXCEPT ![s] = e]
      BY <1>0, <1>2, <2>3 DEF WriteTarget
    <3>2. e.left = save[s].left /\ e.to = save[s].to /\ e.pc = save[s].pc
      BY <2>0 DEF Saving
    <3> HIDE DEF e
    <3>3. save'[s].left = save[s].left /\ save'[s].to = pin'.db /\ save'[s].pc = "second"
      BY <1>0, <1>2, <2>0, <3>1, <3>2
    <3>4. \A m \in Memories : \A r \in Revs : Wants(m, r)' => save[s].page # <<m, r>>
      BY <1>0, <1>2, <2>0, <2>3, PageWants
    <3> QED
      BY <2>0, <2>1, <3>3, <3>4 DEF Before, In
  <2>4. ASSUME NEW k \in Keys, Scroll(s, k)
        PROVE  /\ In(s, "second")' /\ save'[s].to = pin'.db
               /\ \A m \in Memories : \A r \in Revs : Wants(m, r)' => Before(s, m, r)'
    <3> DEFINE page == IF Exists(k[1]) THEN k ELSE NoPage
               text == IF Exists(k[1]) THEN mem[k[1]].rev ELSE 0
               e == [save[s] EXCEPT !.left = @ \ {k}, !.page = page, !.text = text]
    <3>1. save' = [save EXCEPT ![s] = e] /\ save[s].page = NoPage
      BY <1>0, <1>2, <2>4 DEF Scroll
    <3> HIDE DEF page, text
    <3>2. /\ e.left = save[s].left \ {k} /\ e.page = page /\ e.to = save[s].to
          /\ e.pc = save[s].pc
      BY <2>0 DEF Saving
    <3> HIDE DEF e
    <3>3. /\ save'[s].left = save[s].left \ {k} /\ save'[s].page = page
          /\ save'[s].to = pin'.db /\ save'[s].pc = "second"
      BY <1>0, <1>2, <2>0, <3>1, <3>2
    <3>4. ASSUME NEW m \in Memories, NEW r \in Revs, Wants(m, r)' PROVE Before(s, m, r)'
      <4>1. Wants(m, r) /\ Exists(m)
        BY <2>1, <3>4 DEF Wants
      <4>2. <<m, r>> \in save[s].left
        BY <2>0, <3>1, <4>1, SwitchAssumption DEF Before, Keys
      <4>3. <<m, r>> = k => save'[s].page = <<m, r>>
        BY <3>3, <4>1 DEF page
      <4> QED
        BY <3>3, <4>2, <4>3 DEF Before
    <3> QED
      BY <3>3, <3>4 DEF In
  <2> QED
    BY <1>2, <2>2, <2>3, <2>4
<1> QED
  BY <1>1, <1>2, SoundKept

\* A row that says it is embedded is found under the stored pin, from the end of a
\* second pass on that the pin and its vectors survived until they no longer do,
\* whatever saves, switches, edits, deletions, failures and restarts come in
\* between and in whatever time: all but what was put last by a process that did
\* not know the pin yet (switch/run.ts, model-switch.ts, embed-backfill.ts).
THEOREM FoundUnlessLagging == Spec => []EmbeddedIsFound
<1>1. Init => FoundInv
  <2> SUFFICES ASSUME Init PROVE FoundInv
    OBVIOUS
  <2>1. RowInv
    BY OwnedInit DEF OwnedInv
  <2>2. \A m \in Memories : mem[m] = Unborn /\ \A r \in Revs : points[m][r] = NoPoint
    BY DEF Init, VInit
  <2>3. \A a \in Actors : Items(a) = {} /\ At(a, "idle")
    BY NewStates DEF Init, VInit, Items, At, Idle
  <2>4. \A d \in Deletions : del[d].pc = "new"
    BY NewStates DEF Init, VInit
  <2>5. Stands
    BY <2>2, <2>3, <2>4 DEF Stands, Exists
  <2>6. Found
    BY <2>2 DEF Found, Wants, Init
  <2> QED
    BY <2>1, <2>5, <2>6 DEF FoundInv
<1>2. FoundInv /\ [Next]_vars => FoundInv'
  <2> SUFFICES ASSUME FoundInv, [Next]_vars PROVE FoundInv'
    OBVIOUS
  <2>1. RowInv /\ RowInv' /\ TInv /\ TInv' /\ SeenRight /\ Stands /\ Found
    BY RowNext DEF FoundInv, RowInv
  <2>2. Stands'
    BY <2>1, StandsNext
  <2>3. whole' => \A m \in Memories : \A r \in Revs : ~Wants(m, r)'
    BY <2>1, WholeNext
  <2>4. \A s \in sound' : /\ In(s, "second")' /\ save'[s].to = pin'.db
                          /\ \A m \in Memories : \A r \in Revs : Wants(m, r)' => Before(s, m, r)'
    BY <2>1, SoundNext
  <2>5. Found'
    BY <2>3, <2>4 DEF Found
  <2> QED
    BY <2>1, <2>2, <2>5 DEF FoundInv
<1>3. FoundInv => EmbeddedIsFound
  <2> SUFFICES ASSUME FoundInv, whole, NEW m \in Memories, Exists(m),
                      mem[m].status = "embedded", <<m, mem[m].rev>> \notin lagged
               PROVE  PointOf(m) # NoPoint /\ PointOf(m)[pin.db] # NoVector
    BY DEF EmbeddedIsFound
  <2>1. mem[m].rev \in Revs
    BY RowTypes DEF FoundInv, RowInv, TInv
  <2> QED
    BY <2>1 DEF FoundInv, Stands, Found, Wants, PointOf
<1> QED
  BY <1>1, <1>2, <1>3, PTL DEF Spec
=============================================================================
