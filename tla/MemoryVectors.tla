---------------------------- MODULE MemoryVectors ----------------------------
(***************************************************************************)
(* Memories and their points in Qdrant.                                    *)
(*                                                                         *)
(* A row is pending until somebody has written the vector of its revision; *)
(* a point belongs to one revision of one row and carries a vector under   *)
(* the name of the pin (model and dimension) that was active.              *)
(*                                                                         *)
(*   - the embed-backfill job reads pending rows, embeds them, upserts     *)
(*     their points, deletes the points of older revisions and marks the   *)
(*     rows, each a call of its own (worker/src/steps/embed-backfill.ts);  *)
(*   - where clients embed, they fetch pending rows and post vectors       *)
(*     (api/src/routes/embedding-projections.ts);                          *)
(*   - edits make a row pending again; a deletion removes the row, then    *)
(*     the point the row named when it was read.                           *)
(*                                                                         *)
(* The processes keep the pin in memory. It does not change here: see      *)
(* ModelSwitch. A text is named by its revision (KnowledgeWrites,          *)
(* RevisionSaysOneThing).                                                  *)
(*                                                                         *)
(* Left out: chunks (DocumentIngest), payloads and tenants, the deletion   *)
(* of all memories of a team (MemoryGraph), imports.                       *)
(***************************************************************************)
EXTENDS Naturals, FiniteSets

CONSTANTS
    Memories,
    Pins,       \* models with a dimension, each with a vector name of its own
    Dim,        \* the dimension of each
    EnvPin,     \* EMBED_MODEL and EMBED_DIM, which a process starts with
    Runs,       \* runs of embed-backfill that may overlap
    Bridges,    \* clients that embed
    Deletions,  \* requests to delete a memory
    MaxRev,     \* bound: revisions of a row
    MaxFaults,  \* bound: failed calls and crashes
    Unborn, NoRow, NoPoint, NoVector

Revs == 1..MaxRev
Actors == Runs \cup Bridges

Row == [rev : Revs, status : {"pending", "embedded"}, point : 0..MaxRev]
Vector == [of : Revs, by : Pins]
Point == [Pins -> Vector \cup {NoVector}]
Task == [pc : {"idle", "put", "clean", "stamp", "undo"},
         seen : [Memories -> 0..MaxRev], by : Pins]

ASSUME VectorAssumption ==
    /\ EnvPin \in Pins /\ Dim \in [Pins -> Nat \ {0}]
    /\ Runs \cap Bridges = {}
    /\ MaxRev \in Nat \ {0} /\ MaxFaults \in Nat
    /\ Unborn # NoRow /\ {Unborn, NoRow} \cap Row = {}
    /\ NoPoint \notin Point /\ NoVector \notin Vector

VARIABLES
    mode,    \* EMBEDDING_MODE
    mem,     \* memory
    points,  \* Qdrant: the point of each revision of each row
    names,   \* Qdrant: the vector names of the collection
    pin,     \* the active pin: in system_settings, in the API, in the worker
    task,    \* what each run of the backfill and each client is doing
    del,     \* the handlers of the deletions
    faults

vvars == <<mode, mem, points, names, pin, task, del, faults>>
-----------------------------------------------------------------------------
Nothing == [m \in Memories |-> 0]
Idle == [pc |-> "idle", seen |-> Nothing, by |-> EnvPin]
Resting == [pc |-> "new", mem |-> NoRow, row |-> NoRow]

VInit == /\ mode \in {"server", "client-bridge"}
         /\ mem = [m \in Memories |-> Unborn]
         /\ points = [m \in Memories |-> [r \in Revs |-> NoPoint]]
         /\ names = {EnvPin} /\ pin = [db |-> EnvPin, api |-> EnvPin, worker |-> EnvPin]
         /\ task = [a \in Actors |-> Idle]
         /\ del = [d \in Deletions |-> Resting]
         /\ faults = 0

VFault == faults < MaxFaults /\ faults' = faults + 1
Exists(m) == mem[m] \notin {Unborn, NoRow}
Without(ps, m, rs) ==
    [ps EXCEPT ![m] = [r \in Revs |-> IF r \in rs THEN NoPoint ELSE @[r]]]
-----------------------------------------------------------------------------
(* Writes: no vector is touched.                                           *)

VCreate(m) ==
    /\ mem[m] = Unborn
    /\ mem' = [mem EXCEPT ![m] = [rev |-> 1, status |-> "pending", point |-> 0]]
    /\ UNCHANGED <<mode, points, names, pin, task, del, faults>>

Edited(row) == [row EXCEPT !.rev = @ + 1, !.status = "pending"]
VEdit(m) ==
    /\ Exists(m) /\ mem[m].rev < MaxRev
    /\ mem' = [mem EXCEPT ![m] = Edited(@)]
    /\ UNCHANGED <<mode, points, names, pin, task, del, faults>>

\* The handler reads the row and deletes it if it is still the row it read (by its
\* updatedAt), which is to delete the row as it is. If it is not, nothing happens.
DeleteCommit(d, m) ==
    /\ del[d].pc = "new" /\ Exists(m)
    /\ mem' = [mem EXCEPT ![m] = NoRow]
    /\ del' = [del EXCEPT ![d] = [pc |-> "purge", mem |-> m, row |-> mem[m]]]
    /\ UNCHANGED <<mode, points, names, pin, task, faults>>
DeletePurge(d) ==
    /\ del[d].pc = "purge"
    /\ points' = Without(points, del[d].mem, {del[d].row.point})
    /\ del' = [del EXCEPT ![d] = [Resting EXCEPT !.pc = "end"]]
    /\ UNCHANGED <<mode, mem, names, pin, task, faults>>
\* The points could not be deleted (which is only logged), or the API died.
DeleteFails(d) ==
    /\ del[d].pc = "purge" /\ VFault
    /\ del' = [del EXCEPT ![d] = [Resting EXCEPT !.pc = "end"]]
    /\ UNCHANGED <<mode, mem, points, names, pin, task>>
-----------------------------------------------------------------------------
(* upsertVectors, for either kind of actor.                                *)

At(a, pc) == task[a].pc = pc
To(a, pc) == task' = [task EXCEPT ![a].pc = pc]
Rest(a) == task' = [task EXCEPT ![a] = Idle]
Items(a) == {m \in Memories : task[a].seen[m] # 0}
Attempted(a, m) == task[a].seen[m]

\* Mutant of PinOf: the worker writes under the pin it started with.
PinOfEnv(a) == IF a \in Runs THEN EnvPin ELSE pin.api

\* The pin is read when the points are made, after the vectors were.
PinOf(a) == IF a \in Runs THEN pin.worker ELSE pin.api

\* Mutant of Fits: dimensions are not compared.
FitsAlways(a) == PinOf(a) \in names

\* The client refuses another dimension, and Qdrant a name it does not have.
Fits(a) == Dim[task[a].by] = Dim[PinOf(a)] /\ PinOf(a) \in names

\* The whole point is replaced: it has no other vector afterwards.
Upserted(a) ==
    [m \in Memories |-> [r \in Revs |->
        IF m \in Items(a) /\ r = Attempted(a, m)
        THEN [p \in Pins |-> IF p = PinOf(a) THEN [of |-> r, by |-> task[a].by]
                                             ELSE NoVector]
        ELSE points[m][r]]]

\* A newer point may be there already, when this actor was slow.
Older(a, m) == {r \in Revs : r < Attempted(a, m)}
Cleaned(a) ==
    [m \in Memories |-> [r \in Revs |->
        IF m \in Items(a) /\ r \in Older(a, m) THEN NoPoint ELSE points[m][r]]]

\* The answer may be lost, which fails the job or the request.
Put(a) ==
    /\ At(a, "put") /\ Fits(a)
    /\ points' = Upserted(a)
    /\ \/ To(a, "clean") /\ UNCHANGED faults
       \/ Rest(a) /\ VFault
    /\ UNCHANGED <<mode, mem, names, pin, del>>
Clean(a) ==
    /\ At(a, "clean") /\ To(a, "stamp")
    /\ points' = Cleaned(a)
    /\ UNCHANGED <<mode, mem, names, pin, del, faults>>
PutRefused(a) ==
    /\ At(a, "put") /\ ~Fits(a) /\ Rest(a)
    /\ UNCHANGED <<mode, mem, points, names, pin, del, faults>>

Marked(m, r) == [mem[m] EXCEPT !.status = "embedded", !.point = r]
-----------------------------------------------------------------------------
(* The embed-backfill job.                                                 *)

Pending == [m \in Memories |->
              IF Exists(m) /\ mem[m].status = "pending" THEN mem[m].rev ELSE 0]
BackfillRead(w) ==
    /\ mode = "server" /\ At(w, "idle") /\ Pending # Nothing
    /\ task' = [task EXCEPT ![w] = [pc |-> "put", seen |-> Pending, by |-> pin.worker]]
    /\ UNCHANGED <<mode, mem, points, names, pin, del, faults>>

\* Still the revision that was embedded, and still pending.
Current(a, m) == Exists(m) /\ mem[m].rev = Attempted(a, m)
Markable(w, m) == Current(w, m) /\ mem[m].status = "pending"

\* Mutant of Outdated: the point of a row that is gone stays.
OutdatedIfEdited(a, m) == Exists(m) /\ mem[m].rev # Attempted(a, m)

\* The row is gone or another revision: the point is of no use to anybody.
Outdated(a, m) == ~Current(a, m)
Undone(a) == [m \in Memories |-> [r \in Revs |->
    IF m \in Items(a) /\ r = Attempted(a, m) /\ Outdated(a, m)
    THEN NoPoint ELSE points[m][r]]]

\* One transaction, which deletes points on its way.
BackfillStamp(w) ==
    /\ At(w, "stamp") /\ Rest(w)
    /\ mem' = [m \in Memories |-> IF m \in Items(w) /\ Markable(w, m)
                                  THEN Marked(m, Attempted(w, m)) ELSE mem[m]]
    /\ points' = Undone(w)
    /\ UNCHANGED <<mode, names, pin, del, faults>>

-----------------------------------------------------------------------------
(* Clients that embed.                                                     *)

\* A client embeds what it fetched with the model it is configured for, and
\* may take its time.
Fetch(b, m) ==
    /\ mode = "client-bridge" /\ At(b, "idle") /\ Pending[m] # 0
    /\ \E p \in Pins :
         task' = [task EXCEPT ![b] =
           [pc |-> "idle", seen |-> [Nothing EXCEPT ![m] = Pending[m]], by |-> p]]
    /\ UNCHANGED <<mode, mem, points, names, pin, del, faults>>

\* assertActivePin, then the row: the revision and the hash of its content.
Accepted(b) ==
    /\ task[b].by = pin.api
    /\ \A m \in Items(b) : Current(b, m)
Post(b) ==
    /\ At(b, "idle") /\ Items(b) # {}
    /\ IF Accepted(b) THEN To(b, "put") ELSE Rest(b)
    /\ UNCHANGED <<mode, mem, points, names, pin, del, faults>>

PostStamp(b) ==
    /\ At(b, "stamp")
    /\ \E m \in Items(b) :
         IF Current(b, m)
         THEN mem' = [mem EXCEPT ![m] = Marked(m, Attempted(b, m))] /\ Rest(b)
         ELSE To(b, "undo") /\ UNCHANGED mem
    /\ UNCHANGED <<mode, points, names, pin, del, faults>>
PostUndo(b) ==
    /\ At(b, "undo") /\ Rest(b)
    /\ points' = Undone(b)
    /\ UNCHANGED <<mode, mem, names, pin, del, faults>>

\* A call fails, having done all or nothing of what it was for, and the job or
\* the request with it (for the upsert that went through see Put).
ActorFails(a) ==
    /\ task[a].pc # "idle" /\ VFault /\ Rest(a)
    /\ points' \in {points} \cup
         CASE At(a, "put")   -> {}
           [] At(a, "clean") -> {Cleaned(a)}
           [] OTHER          -> {Undone(a)}
    /\ UNCHANGED <<mode, mem, names, pin, del>>
-----------------------------------------------------------------------------
\* Every step but Put, of which ModelSwitch keeps a history.
Others ==
    \/ \E m \in Memories : VCreate(m) \/ VEdit(m)
    \/ \E d \in Deletions : \/ \E m \in Memories : DeleteCommit(d, m)
                            \/ DeletePurge(d) \/ DeleteFails(d)
    \/ \E a \in Actors : Clean(a) \/ PutRefused(a) \/ ActorFails(a)
    \/ \E w \in Runs : BackfillRead(w) \/ BackfillStamp(w)
    \/ \E b \in Bridges : \/ \E m \in Memories : Fetch(b, m)
                          \/ Post(b) \/ PostStamp(b) \/ PostUndo(b)
=============================================================================
