----------------------------- MODULE ModelSwitch -----------------------------
(***************************************************************************)
(* The change of the embedding model, with memories being written, embed-  *)
(* ded and deleted meanwhile.                                              *)
(*                                                                         *)
(* PUT /dashboard/settings starts a background task of the API: it adds    *)
(* the vector name of the target, writes a target vector on every point    *)
(* from the text of its row, flips the pin (in system_settings, then in    *)
(* the API), writes every target vector again, drops the old name and      *)
(* writes a final status (api/src/services/model-switch.ts,                *)
(* packages/shared/src/switch). The worker polls the pin.                  *)
(*                                                                         *)
(* A pass takes the points in an order nobody controls: it ends when it    *)
(* has been at every point that was there when it began and still is.      *)
(*                                                                         *)
(* Nothing is assumed about time: a save may be slow between its read and  *)
(* its write, a switch that is at work may be taken for dead (its status   *)
(* is running for 30 minutes), and the worker may poll late.               *)
(***************************************************************************)
EXTENDS MemoryVectors

CONSTANTS
    Saves,     \* requests to save the settings, and the tasks they start, numbered
               \* in the order in which they read the settings
    NoPage

Keys == Memories \X Revs

ASSUME SwitchAssumption == Saves \subseteq Nat /\ NoPage \notin Keys

Status == [state : {"none", "running", "done", "failed"}, from : Pins, to : Pins]

VARIABLES
    status,  \* system_settings.embeddingSwitch
    save,    \* the handlers of the saves, and then their tasks
    whole, sound, lagged  \* history variables, of which the code keeps no record:
             \* a second pass has ended for the pin that is stored; the second passes
             \* under way whose pin has been stored since they began; the points
             \* written last, since the pin is stored, under another

history == <<whole, sound, lagged>>
svars == <<status, save, history>>
vars == <<mode, mem, points, names, pin, task, del, faults, status, save, whole, sound, lagged>>
-----------------------------------------------------------------------------
NewSave == [pc |-> "new", from |-> EnvPin, to |-> EnvPin,
            left |-> {}, page |-> NoPage, text |-> 0]
Ended == [NewSave EXCEPT !.pc = "end"]

Init == /\ VInit
        /\ status = [state |-> "none", from |-> EnvPin, to |-> EnvPin]
        /\ save = [s \in Saves |-> NewSave]
        /\ whole = TRUE /\ sound = {} /\ lagged = {}

In(s, pc) == save[s].pc = pc
Go(s, pc) == save' = [save EXCEPT ![s].pc = pc]
Running == {"add", "first", "flip", "apply", "second", "drop", "done", "failed"}
Alive(s) == save[s].pc \in Running

Still == UNCHANGED <<mode, mem, task, del>>
Stored == UNCHANGED <<points, names>>

\* The history when p becomes the stored pin, and when the vectors of p go.
Pinned(p) == /\ whole' = (whole /\ pin.db = p)
             /\ sound' = {s \in sound : save[s].to = p}
             /\ lagged' = IF pin.db = p THEN lagged ELSE {}
Lost(p) == /\ whole' = (whole /\ pin.db # p)
           /\ sound' = {s \in sound : save[s].to # p} /\ UNCHANGED lagged
-----------------------------------------------------------------------------
(* PUT /dashboard/settings.                                                *)

\* The settings are read once, and decide what becomes of a save for the pin p.
SaveRead(s, pc, from, p) ==
    /\ In(s, "new") /\ \A o \in Saves : In(o, "new") => s <= o
    /\ save' = [save EXCEPT ![s] = [NewSave EXCEPT !.pc = pc, !.from = from, !.to = p]]
    /\ Still /\ Stored /\ UNCHANGED <<pin, faults, status, history>>

\* A switch that failed after its flip is taken up when its target is saved again.
Resumable(p) == status.state = "failed" /\ status.to = p /\ status.from # p
Resume(s, p) == /\ mode = "server" /\ pin.db = p /\ Resumable(p)
                /\ SaveRead(s, "start", status.from, p)

\* A status that says running is refused or, by its age, taken for dead.
Begin(s, p) == /\ mode = "server" /\ pin.db # p
               /\ SaveRead(s, "start", pin.db, p)
Refuse(s, p) == /\ mode = "server" /\ pin.db # p /\ status.state = "running"
                /\ SaveRead(s, "end", EnvPin, EnvPin)

\* Any other save, and any that asks for embedding in the clients.
Keep(s, p) == SaveRead(s, "store", pin.db, p)

Start(s) ==
    /\ In(s, "start")
    /\ status' = [state |-> "running", from |-> save[s].from, to |-> save[s].to]
    /\ save' = [save EXCEPT ![s].pc = "add"]
    /\ Still /\ Stored /\ UNCHANGED <<pin, faults, history>>

Changed(s) == save[s].from # save[s].to

\* The pin is only stored, whether the collection has its name or not.
Store(s) ==
    /\ In(s, "store")
    /\ pin' = [pin EXCEPT !.db = save[s].to, !.api = IF Changed(s) THEN save[s].to ELSE @]
    /\ Pinned(save[s].to)
    /\ save' = [save EXCEPT ![s] = Ended]
    /\ Still /\ Stored /\ UNCHANGED <<faults, status>>
-----------------------------------------------------------------------------
(* runModelSwitch.                                                         *)

There == {k \in Keys : points[k[1]][k[2]] # NoPoint}
Drops(p) == [m \in Memories |-> [r \in Revs |->
               IF points[m][r] = NoPoint THEN NoPoint ELSE [points[m][r] EXCEPT ![p] = NoVector]]]

AddVector(s) ==
    /\ In(s, "add") /\ names' = names \cup {save[s].to}
    /\ save' = [save EXCEPT ![s].pc = "first", ![s].left = There]
    /\ Still /\ UNCHANGED <<points, pin, faults, status, history>>

Passing(s) == In(s, "first") \/ In(s, "second")

\* The texts of a page of points, by their rows. Rows that are gone are left out.
Scroll(s, k) ==
    /\ Passing(s) /\ save[s].page = NoPage /\ k \in There
    /\ save' = [save EXCEPT ![s].left = @ \ {k},
                            ![s].page = IF Exists(k[1]) THEN k ELSE NoPage,
                            ![s].text = IF Exists(k[1]) THEN mem[k[1]].rev ELSE 0]
    /\ Still /\ Stored /\ UNCHANGED <<pin, faults, status, history>>

\* Other vectors of the point stay. A point that is gone is not an error.
WithTarget(s, m, r) ==
    IF points[m][r] = NoPoint \/ save[s].page # <<m, r>> THEN points[m][r]
    ELSE [points[m][r] EXCEPT ![save[s].to] = [of |-> save[s].text, by |-> save[s].to]]
WriteTarget(s) ==
    /\ Passing(s) /\ save[s].page # NoPage /\ save[s].to \in names
    /\ points' = [m \in Memories |-> [r \in Revs |-> WithTarget(s, m, r)]]
    /\ save' = [save EXCEPT ![s].page = NoPage, ![s].text = 0]
    /\ lagged' = IF save[s].to = pin.db THEN lagged \ {save[s].page} ELSE lagged
    /\ Still /\ UNCHANGED <<names, pin, faults, status, whole, sound>>

\* Mutant of PassEnds: only the first page.
PassEndsEarly(s) == save[s].page = NoPage

PassEnds(s) == save[s].page = NoPage /\ save[s].left \cap There = {}

FirstEnds(s) ==
    /\ In(s, "first") /\ PassEnds(s)
    /\ save' = [save EXCEPT ![s].pc = "flip", ![s].left = {}]
    /\ Still /\ Stored /\ UNCHANGED <<pin, faults, status, history>>
PersistPin(s) ==
    /\ In(s, "flip") /\ Go(s, "apply")
    /\ pin' = [pin EXCEPT !.db = save[s].to]
    /\ Pinned(save[s].to)
    /\ Still /\ Stored /\ UNCHANGED <<faults, status>>

ApplyPin(s) ==
    /\ In(s, "apply")
    /\ pin' = [pin EXCEPT !.api = save[s].to]
    /\ save' = [save EXCEPT ![s].pc = "second", ![s].left = There]
    /\ sound' = IF pin.db = save[s].to THEN sound \cup {s} ELSE sound
    /\ Still /\ Stored /\ UNCHANGED <<faults, status, whole, lagged>>
SecondEnds(s) ==
    /\ In(s, "second") /\ PassEnds(s)
    /\ save' = [save EXCEPT ![s].pc = "drop", ![s].left = {}]
    /\ whole' = (whole \/ s \in sound) /\ sound' = sound \ {s}
    /\ Still /\ Stored /\ UNCHANGED <<pin, faults, status, lagged>>
DropOld(s) ==
    /\ In(s, "drop") /\ Go(s, "done")
    /\ names' = names \ {save[s].from} /\ points' = Drops(save[s].from)
    /\ Lost(save[s].from)
    /\ Still /\ UNCHANGED <<pin, faults, status>>
WriteStatus(s) ==
    /\ In(s, "done") \/ In(s, "failed")
    /\ status' = [state |-> save[s].pc, from |-> save[s].from, to |-> save[s].to]
    /\ save' = [save EXCEPT ![s] = Ended]
    /\ Still /\ Stored /\ UNCHANGED <<pin, faults, history>>

\* A call fails, or the name to write was dropped by another task.
SwitchFails(s) ==
    /\ Alive(s) /\ ~In(s, "failed")
    /\ IF Passing(s) /\ save[s].page # NoPage /\ save[s].to \notin names
       THEN UNCHANGED faults ELSE VFault
    /\ save' = [save EXCEPT ![s].pc = "failed", ![s].left = {}, ![s].page = NoPage, ![s].text = 0]
    /\ sound' = sound \ {s}
    /\ Still /\ Stored /\ UNCHANGED <<pin, status, whole, lagged>>

\* The status of the failure is not written, and stays what it was.
StatusFails(s) ==
    /\ In(s, "failed") /\ VFault
    /\ save' = [save EXCEPT ![s] = Ended]
    /\ Still /\ Stored /\ UNCHANGED <<pin, status, history>>
-----------------------------------------------------------------------------
(* The processes.                                                          *)

Refresh ==
    /\ pin.worker # pin.db /\ pin' = [pin EXCEPT !.worker = pin.db]
    /\ Still /\ Stored /\ UNCHANGED <<faults, svars>>

\* A process that starts takes its pin from the environment. The API takes the
\* switches and the requests down with it.
ApiRestart ==
    /\ VFault /\ pin' = [pin EXCEPT !.api = EnvPin]
    /\ save' = [s \in Saves |-> IF In(s, "new") THEN NewSave ELSE Ended]
    /\ task' = [a \in Actors |-> IF a \in Bridges /\ ~At(a, "idle") THEN Idle ELSE task[a]]
    /\ del' = [d \in Deletions |-> IF del[d].pc = "new" THEN del[d]
                                   ELSE [Resting EXCEPT !.pc = "end"]]
    /\ sound' = {}
    /\ Stored /\ UNCHANGED <<mode, mem, status, whole, lagged>>
WorkerRestart ==
    /\ VFault /\ pin' = [pin EXCEPT !.worker = EnvPin]
    /\ task' = [a \in Actors |-> IF a \in Runs THEN Idle ELSE task[a]]
    /\ Stored /\ UNCHANGED <<mode, mem, del, svars>>
-----------------------------------------------------------------------------
\* The worker may not have polled the pin yet, or have just started.
Wrote(a) == {k \in Keys : k[1] \in Items(a) /\ k[2] = Attempted(a, k[1])}
Upsert(a) ==
    /\ Put(a)
    /\ lagged' = IF PinOf(a) = pin.db THEN lagged \ Wrote(a) ELSE lagged \cup Wrote(a)
    /\ UNCHANGED <<status, save, whole, sound>>

Next ==
    \/ Others /\ UNCHANGED svars
    \/ \E a \in Actors : Upsert(a)
    \/ \E s \in Saves :
         \/ \E p \in Pins : Resume(s, p) \/ Begin(s, p) \/ Refuse(s, p) \/ Keep(s, p)
         \/ Start(s) \/ Store(s)
         \/ AddVector(s) \/ (\E k \in Keys : Scroll(s, k)) \/ WriteTarget(s)
         \/ FirstEnds(s) \/ PersistPin(s) \/ ApplyPin(s) \/ SecondEnds(s)
         \/ DropOld(s) \/ WriteStatus(s) \/ SwitchFails(s) \/ StatusFails(s)
    \/ Refresh \/ ApiRestart \/ WorkerRestart

Fairness ==
    /\ \A a \in Actors : WF_vars(Upsert(a) \/ ((Clean(a) \/ PutRefused(a)) /\ UNCHANGED svars))
    /\ \A w \in Runs : WF_vars((BackfillRead(w) \/ BackfillStamp(w)) /\ UNCHANGED svars)
    /\ WF_vars(Refresh)

Spec == Init /\ [][Next]_vars
FairSpec == Spec /\ Fairness
-----------------------------------------------------------------------------
TypeOK ==
    /\ mode \in {"server", "client-bridge"}
    /\ mem \in [Memories -> Row \cup {Unborn, NoRow}]
    /\ points \in [Memories -> [Revs -> Point \cup {NoPoint}]]
    /\ names \subseteq Pins
    /\ pin \in [db : Pins, api : Pins, worker : Pins]
    /\ task \in [Actors -> Task]
    /\ faults \in 0..MaxFaults
    /\ status \in Status
    /\ whole \in BOOLEAN /\ sound \subseteq Saves /\ lagged \subseteq Keys

PointOf(m) == points[m][mem[m].rev]

\* What a search under any pin may find of a row is a vector of what the row says,
\* of the size of that pin: late and overlapping runs, pages of a switch that read
\* one revision and write at another, and pins that change between the embedding
\* and the upsert included. (It may be of another model of the same size.)
SearchIsOfRow ==
    \A m \in Memories : Exists(m) /\ PointOf(m) # NoPoint =>
        \A p \in Pins : LET v == PointOf(m)[p] IN
            v = NoVector \/ (v.of = mem[m].rev /\ Dim[v.by] = Dim[p])

\* A row that says it is embedded is found under the stored pin until that pin is
\* changed or its vectors are dropped, and again from the end of a second pass on
\* during which neither happened, however saves and switches overlap; all but
\* what a process that did not know the stored pin yet has written last.
EmbeddedIsFound ==
    whole =>
        \A m \in Memories :
            Exists(m) /\ mem[m].status = "embedded" /\ <<m, mem[m].rev>> \notin lagged =>
                PointOf(m) # NoPoint /\ PointOf(m)[pin.db] # NoVector

\* Without failures, when nobody is at work no point is left of a row that was
\* deleted, and of an embedded row only the one of its revision.
NoOrphans ==
    (faults = 0 /\ \A a \in Actors : task[a].pc = "idle") =>
        \A m \in Memories : \A r \in Revs :
            points[m][r] # NoPoint =>
                \/ Exists(m) /\ (mem[m].status = "embedded" => r = mem[m].rev)
                \/ \E d \in Deletions : del[d].pc = "purge" /\ del[d].mem = m

Waits(m) == /\ mode = "server" /\ Exists(m) /\ mem[m].status = "pending"
            /\ pin.db \in names

\* No row stays pending: again and again it is embedded or gone, whatever edits and
\* switches do meanwhile, unless the collection has no vectors of the stored pin
\* (which a save for clients leaves behind, and switches that overlap).
PendingIsEmbedded == \A m \in Memories : []<>~Waits(m)
=============================================================================
