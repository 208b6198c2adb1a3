------------------------------- MODULE PiiScan -------------------------------
(***************************************************************************)
(* The periodic scan of stored memories and chunks for personal data and   *)
(* secrets (worker/src/steps/pii-scan.ts). A run takes the oldest rows     *)
(* that were updated since their last scan, asks the scanner about the     *)
(* text of each, records alerts, and stamps all of them in one update.     *)
(*                                                                         *)
(* Time is what the code compares of it: whether updated_at is later than  *)
(* pii_scanned_at. Every update of a row advances updated_at, be it an     *)
(* edit, the bookkeeping of another job or the stamp itself.               *)
(*                                                                         *)
(* Left out: the notification of teams, and what the scanner looks for.    *)
(***************************************************************************)
EXTENDS Naturals, FiniteSets

CONSTANTS
    Memories, Chunks,  \* rows, by the order of their creation
    Texts,
    Secret,            \* the texts the scanner flags
    Runs,              \* runs of the job: the scheduler's, and those started by hand
    Batch,             \* BATCH, the rows of a run
    MaxFaults,         \* bound: failures
    NoText

Rows == Memories \cup Chunks

ASSUME RowsAssumption ==
    /\ Rows \subseteq Nat /\ Memories \cap Chunks = {}
    /\ Secret \subseteq Texts /\ NoText \notin Texts
    /\ Batch \in Nat \ {0} /\ MaxFaults \in Nat

VARIABLES
    row,     \* the rows of memory and chunk
    run,     \* the runs
    alert,   \* security_alert: row and text
    lost,    \* history: the alerts whose write failed
    faults

scanVars == <<row, run, alert, lost, faults>>
-----------------------------------------------------------------------------
\* cursor: updated_at against pii_scanned_at. seen and raced are history: the
\* text that was stamped since the last edit, and whether the row had another
\* one by then.
Fresh(t) == [state |-> "live", text |-> t, cursor |-> "never", seen |-> NoText, raced |-> FALSE]
Unborn == [Fresh(NoText) EXCEPT !.state = "unborn"]
Gone == [Unborn EXCEPT !.state = "gone"]
Idle == [pc |-> "idle", kind |-> "memory", todo |-> {}, done |-> {},
         read |-> [m \in Rows |-> NoText]]

InitScan ==
    /\ row = [m \in Rows |-> Unborn]
    /\ run = [p \in Runs |-> Idle]
    /\ alert = {} /\ lost = {} /\ faults = 0

Fault == faults < MaxFaults /\ faults' = faults + 1
Live == {m \in Rows : row[m].state = "live"}
-----------------------------------------------------------------------------
(* What happens to rows meanwhile.                                         *)

Later(r) == [r EXCEPT !.cursor = IF @ = "never" THEN @ ELSE "later"]

Create(m) ==
    /\ row[m].state = "unborn"
    /\ \E t \in Texts : row' = [row EXCEPT ![m] = Fresh(t)]
    /\ UNCHANGED <<run, alert, lost, faults>>
Edit(m) ==
    /\ m \in Live \cap Memories
    /\ \E t \in Texts \ {row[m].text} :
         row' = [row EXCEPT ![m] = [Later(@) EXCEPT !.text = t, !.seen = NoText, !.raced = FALSE]]
    /\ UNCHANGED <<run, alert, lost, faults>>

\* Vectors, graph and access count are marked on the row.
Touch(m) ==
    /\ m \in Live /\ row' = [row EXCEPT ![m] = Later(@)]
    /\ UNCHANGED <<run, alert, lost, faults>>
Delete(m) ==
    /\ m \in Live /\ row' = [row EXCEPT ![m] = Gone]
    /\ UNCHANGED <<run, alert, lost, faults>>
-----------------------------------------------------------------------------
(* A run.                                                                  *)

At(p, pc) == run[p].pc = pc
OfKind(kind) == IF kind = "memory" THEN Memories ELSE Chunks
NextKind(r) == IF r.kind = "memory" THEN [Idle EXCEPT !.pc = "read", !.kind = "chunk"] ELSE Idle

Due(m) == row[m].cursor \in {"never", "later"}
Oldest(S) == {m \in S : Cardinality({o \in S : o < m}) < Batch}

Start(p) ==
    /\ At(p, "idle") /\ run' = [run EXCEPT ![p].pc = "read"]
    /\ UNCHANGED <<row, alert, lost, faults>>

\* Mutant of NoneDue: nothing to scan among the memories ends the run.
NoneDueEnds(r) == Idle

NoneDue(r) == NextKind(r)
Read(p) ==
    LET todo == Oldest({m \in Live \cap OfKind(run[p].kind) : Due(m)}) IN
    /\ At(p, "read")
    /\ run' = [run EXCEPT ![p] =
         IF todo = {} THEN NoneDue(@)
         ELSE [@ EXCEPT !.pc = "scan", !.todo = todo,
                        !.read = [m \in Rows |-> IF m \in todo THEN row[m].text ELSE NoText]]]
    /\ UNCHANGED <<row, alert, lost, faults>>

First(p) == CHOOSE m \in run[p].todo : \A o \in run[p].todo : m <= o
Scanned(p) == run' = [run EXCEPT ![p].todo = @ \ {First(p)}, ![p].done = @ \cup {First(p)}]

Flagged(p) == IF run[p].read[First(p)] \in Secret THEN {<<First(p), run[p].read[First(p)]>>} ELSE {}

Scan(p) ==
    /\ At(p, "scan") /\ run[p].todo # {}
    /\ Scanned(p) /\ alert' = alert \cup Flagged(p)
    /\ UNCHANGED <<row, lost, faults>>

\* An alert that cannot be written is logged, and the row counts as scanned.
ScanUnrecorded(p) ==
    /\ At(p, "scan") /\ run[p].todo # {} /\ Flagged(p) # {} /\ Fault
    /\ Scanned(p) /\ lost' = lost \cup Flagged(p)
    /\ UNCHANGED <<row, alert>>

\* Mutant of Aborted: a row the scanner does not answer for is taken as clean.
AbortedRow(p) == [run[p] EXCEPT !.todo = @ \ {First(p)}, !.done = @ \cup {First(p)}]

\* The scanner does not answer: the job ends without a stamp.
Aborted(p) == Idle
ScannerDown(p) ==
    /\ At(p, "scan") /\ run[p].todo # {} /\ Fault
    /\ run' = [run EXCEPT ![p] = Aborted(p)]
    /\ UNCHANGED <<row, alert, lost>>

\* The run reads its clock and updates the rows, which takes them to the same
\* millisecond or to a later one.
Stamped(p) == run[p].done \cap Live
Stamp(p) ==
    /\ At(p, "scan") /\ run[p].todo = {}
    /\ \E same \in BOOLEAN :
         row' = [m \in Rows |->
           IF m \notin Stamped(p) THEN row[m]
           ELSE [row[m] EXCEPT !.cursor = IF same THEN "scanned" ELSE "later",
                               !.seen = run[p].read[m], !.raced = row[m].text # run[p].read[m]]]
    /\ run' = [run EXCEPT ![p] = NextKind(@)]
    /\ UNCHANGED <<alert, lost, faults>>

\* The worker dies, or a query fails.
RunFails(p) ==
    /\ ~At(p, "idle") /\ Fault /\ run' = [run EXCEPT ![p] = Idle]
    /\ UNCHANGED <<row, alert, lost>>

ScanJob(p) == Start(p) \/ Read(p) \/ Scan(p) \/ Stamp(p)
-----------------------------------------------------------------------------
Record == [state : {"unborn", "live", "gone"}, text : Texts \cup {NoText},
           cursor : {"never", "later", "scanned"}, seen : Texts \cup {NoText}, raced : BOOLEAN]
Progress == [pc : {"idle", "read", "scan"}, kind : {"memory", "chunk"}, todo : SUBSET Rows,
             done : SUBSET Rows, read : [Rows -> Texts \cup {NoText}]]
ScanTypeOK ==
    /\ row \in [Rows -> Record] /\ run \in [Runs -> Progress]
    /\ alert \subseteq Rows \X Secret /\ lost \subseteq Rows \X Secret
    /\ faults \in 0..MaxFaults

\* A row that no run will take again had its present text scanned, and has its
\* alert if the scanner flagged it: no failure of the scanner in the middle of a
\* batch, no abort and no second run clears a row. What escapes, and the
\* property excuses, is a row edited between the read of a run and its stamp,
\* and an alert that could not be written.
ClearedWasScanned ==
    \A m \in Live : ~Due(m) =>
        /\ row[m].seen # NoText /\ (row[m].seen = row[m].text \/ row[m].raced)
        /\ row[m].seen \in Secret => <<m, row[m].seen>> \in alert \cup lost

\* A full batch of rows that are older than m and due.
Crowded(m) ==
    LET kind == IF m \in Memories THEN Memories ELSE Chunks IN
    Cardinality({o \in Live \cap kind : Due(o) /\ o < m}) >= Batch

\* No failed or aborted run leaves a row out for good, however the stamps of
\* runs fall and whatever else is edited or marked meanwhile: its text is scanned
\* by and by. Two kinds of rows may wait for ever: those that have a full batch
\* of older rows due before them again and again, and those an edit of which
\* raced a stamp.
RowsAreScanned ==
    \A m \in Rows :
        []<>(m \in Live => row[m].seen = row[m].text \/ row[m].raced \/ Crowded(m))
=============================================================================
