---------------------------- MODULE ScheduledJobs ----------------------------
(***************************************************************************)
(* The scheduled jobs of the worker: the row of each in scheduled_job, its *)
(* scheduler in BullMQ, the runs that are queued and those at work.        *)
(*                                                                         *)
(*   - the dashboard pauses, resumes and edits a job, each by one write to *)
(*     Postgres and one call of BullMQ (api/src/services/scheduled.ts);    *)
(*   - every worker that boots brings the schedulers in line with the rows *)
(*     it read (worker/src/scheduled/reconcile.ts);                        *)
(*   - the processor takes a queued run, asks the row whether a run of the *)
(*     scheduler is still wanted, and works (worker/src/scheduled/         *)
(*     processor.ts).                                                      *)
(*                                                                         *)
(* Left out: the telemetry of a run, which nothing else reads, and what    *)
(* the jobs do.                                                            *)
(***************************************************************************)
EXTENDS Naturals

CONSTANTS
    Catalog,    \* SCHEDULED_JOB_CATALOG
    Retired,    \* RETIRED_SCHEDULED_JOB_NAMES
    Crons,
    Default,    \* the cron a job of the catalog starts with
    Bad,        \* a cron that looks plausible and that BullMQ refuses
    Requests,   \* requests of the dashboard
    Workers,    \* worker processes, each booting and reconciling
    Slots,      \* runs a worker works on at once
    MaxFaults,  \* bound: failed calls and crashes
    NoRow, NoCron, NoJob

Jobs == Catalog \cup Retired
Row == [enabled : BOOLEAN, cron : Crons]

ASSUME JobsAssumption ==
    /\ Catalog \cap Retired = {} /\ NoJob \notin Jobs
    /\ Default \in Crons /\ Bad \in Crons /\ Default # Bad /\ NoCron \notin Crons
    /\ NoRow \notin Row /\ MaxFaults \in Nat

VARIABLES
    row,    \* scheduled_job
    sched,  \* BullMQ: the cron of the scheduler of each job
    tick,   \* BullMQ: the jobs whose scheduler has queued a run
    hand,   \* BullMQ: the jobs with runs that were queued by hand
    req,    \* the handlers of the requests
    boot,   \* the reconciliation of each worker
    exec,   \* the processor, by slot
    apart,  \* history: the jobs whose row and scheduler may say different things
    hushed, \* history: the jobs that were paused, with nobody to enable them
    faults

vars == <<row, sched, tick, hand, req, boot, exec, apart, hushed, faults>>
-----------------------------------------------------------------------------
NewReq == [pc |-> "new", op |-> "none", job |-> NoJob, cron |-> NoCron,
           enabled |-> FALSE, solo |-> FALSE]
Free == [pc |-> "free", job |-> NoJob, manual |-> FALSE, hushed |-> FALSE, blind |-> FALSE]
\* A database that has only what an older version left: the jobs retired since.
OldRows == [j \in Jobs |-> IF j \in Retired THEN [enabled |-> TRUE, cron |-> Default] ELSE NoRow]
Down == [pc |-> "down", saw |-> OldRows, left |-> {}, mends |-> {}]
Up == [Down EXCEPT !.pc = "up"]

Init ==
    /\ row = OldRows
    /\ sched = [j \in Jobs |-> IF j \in Retired THEN Default ELSE NoCron]
    /\ tick = {} /\ hand = {}
    /\ req = [r \in Requests |-> NewReq]
    /\ boot = [w \in Workers |-> Down]
    /\ exec = [s \in Slots |-> Free]
    /\ apart = Catalog /\ hushed = {} /\ faults = 0

Fault == faults < MaxFaults /\ faults' = faults + 1
Queued == <<tick, hand>>

Busy(j) == {r \in Requests : req[r].job = j /\ req[r].pc # "end"}
Booting == {w \in Workers : boot[w].pc \notin {"down", "up"}}
-----------------------------------------------------------------------------
(* The dashboard.                                                          *)

At(r, pc) == req[r].pc = pc
ThenAt(r, pc) == req' = [req EXCEPT ![r] = IF pc = "end" THEN [NewReq EXCEPT !.pc = "end"]
                                                         ELSE [@ EXCEPT !.pc = pc]]
Set(j, cron) == sched' = [sched EXCEPT ![j] = cron]

\* History: of requests and reconciliations that overlap nobody knows whose
\* write is the last one.
Begins(r, op, j, pc, cron, enabled) ==
    /\ At(r, "new") /\ row[j] # NoRow
    /\ req' = [q \in Requests |->
         IF q = r THEN [pc |-> pc, op |-> op, job |-> j, cron |-> cron,
                        enabled |-> enabled, solo |-> Busy(j) = {}]
         ELSE IF q \in Busy(j) THEN [req[q] EXCEPT !.solo = FALSE] ELSE req[q]]
    /\ apart' = IF Busy(j) \cup Booting = {} THEN apart ELSE apart \cup {j}
    /\ boot' = [w \in Workers |-> [boot[w] EXCEPT !.mends = @ \ {j}]]
    /\ hushed' = IF enabled THEN hushed \ {j} ELSE hushed
    /\ exec' = [s \in Slots |->
         IF enabled /\ exec[s].job = j THEN [exec[s] EXCEPT !.hushed = FALSE] ELSE exec[s]]
    /\ UNCHANGED faults

\* Mutant of PausedRow: only the scheduler is removed.
PausedRowKept(j) == row

PausedRow(j) == [row EXCEPT ![j].enabled = FALSE]
Pause(r, j) ==
    /\ Begins(r, "pause", j, "drop", NoCron, FALSE)
    /\ row' = PausedRow(j)
    /\ UNCHANGED <<sched, Queued>>
Resume(r, j) ==
    /\ Begins(r, "resume", j, "upsert", row[j].cron, TRUE)
    /\ row' = [row EXCEPT ![j].enabled = TRUE]
    /\ UNCHANGED <<sched, Queued>>

\* The patch over the row as it is read: what the patch leaves out is written
\* again later.
EditRead(r, j) ==
    /\ \E c \in Crons, e \in BOOLEAN :
         Begins(r, "edit", j, IF e THEN "upsert" ELSE "store", c, e)
    /\ UNCHANGED <<row, sched, Queued>>

\* BullMQ checks the cron.
Upsert(r) ==
    /\ At(r, "upsert") /\ req[r].cron # Bad
    /\ Set(req[r].job, req[r].cron)
    /\ ThenAt(r, IF req[r].op = "edit" THEN "store" ELSE "end")
    /\ UNCHANGED <<row, Queued, boot, exec, apart, hushed, faults>>

\* The request ends with an error. An edit has written nothing yet, while a
\* resumption has already enabled the row.
UpsertRefused(r) ==
    /\ At(r, "upsert") /\ req[r].cron = Bad /\ ThenAt(r, "end")
    /\ apart' = IF req[r].op = "edit" THEN apart ELSE apart \cup {req[r].job}
    /\ UNCHANGED <<row, sched, Queued, boot, exec, hushed, faults>>
Store(r) ==
    /\ At(r, "store")
    /\ row' = [row EXCEPT ![req[r].job] = [enabled |-> req[r].enabled, cron |-> req[r].cron]]
    /\ ThenAt(r, IF req[r].enabled THEN "end" ELSE "drop")
    /\ UNCHANGED <<sched, Queued, boot, exec, apart, hushed, faults>>
Drop(r) ==
    /\ At(r, "drop") /\ Set(req[r].job, NoCron) /\ ThenAt(r, "end")
    /\ hushed' = IF req[r].solo THEN hushed \cup {req[r].job} ELSE hushed
    /\ UNCHANGED <<row, Queued, boot, exec, apart, faults>>

\* A call fails, or the API dies, after the first write or before it.
RequestFails(r) ==
    /\ req[r].pc \in {"upsert", "store", "drop"} /\ Fault /\ ThenAt(r, "end")
    /\ apart' = apart \cup {req[r].job}
    /\ UNCHANGED <<row, sched, Queued, boot, exec, hushed>>
-----------------------------------------------------------------------------
(* reconcileSchedules, when a worker boots.                                *)

BootAt(w, pc) == boot[w].pc = pc
Saw(w, j) == boot[w].saw[j]

\* planReconcile.
Missing(w) == {j \in Catalog : Saw(w, j) = NoRow}
Wanted(w) == {j \in Catalog : Saw(w, j) = NoRow \/ Saw(w, j).enabled}
Unwanted(w) == {j \in Catalog : Saw(w, j) # NoRow /\ ~Saw(w, j).enabled}
               \cup {j \in Retired : Saw(w, j) # NoRow}

\* Mutant of CronOf: the cron of the catalog, whatever the dashboard stored.
CronOfCatalog(w, j) == Default

CronOf(w, j) == IF Saw(w, j) = NoRow THEN Default ELSE Saw(w, j).cron

BootRead(w) ==
    /\ BootAt(w, "down")
    /\ boot' = [boot EXCEPT ![w] =
         [pc |-> "create", saw |-> row, left |-> {},
          mends |-> {j \in Catalog : Busy(j) = {} /\ \A v \in Booting : j \in boot[v].mends}]]
    /\ apart' = apart \cup {j \in Catalog : Busy(j) # {}}
    /\ UNCHANGED <<row, sched, Queued, req, exec, hushed, faults>>

\* One row at a time. A row that another worker was faster to create is skipped.
BootCreate(w) ==
    /\ BootAt(w, "create")
    /\ IF \A j \in Missing(w) : row[j] # NoRow
       THEN /\ boot' = [boot EXCEPT ![w].pc = "upsert", ![w].left = Wanted(w)]
            /\ UNCHANGED row
       ELSE /\ \E j \in Missing(w) :
                 row[j] = NoRow /\ row' = [row EXCEPT ![j] = [enabled |-> TRUE, cron |-> Default]]
            /\ UNCHANGED boot
    /\ UNCHANGED <<sched, Queued, req, exec, apart, hushed, faults>>
BootUpsert(w) ==
    /\ BootAt(w, "upsert")
    /\ IF boot[w].left = {}
       THEN boot' = [boot EXCEPT ![w].pc = "remove", ![w].left = Unwanted(w)] /\ UNCHANGED sched
       ELSE \E j \in boot[w].left :
              /\ CronOf(w, j) # Bad /\ Set(j, CronOf(w, j))
              /\ boot' = [boot EXCEPT ![w].left = @ \ {j}]
    /\ UNCHANGED <<row, Queued, req, exec, apart, hushed, faults>>

\* One cron that BullMQ refuses ends the reconciliation of all jobs. The worker
\* goes on without.
BootGivesUp(w) ==
    /\ BootAt(w, "upsert") /\ \E j \in boot[w].left : CronOf(w, j) = Bad
    /\ boot' = [boot EXCEPT ![w] = Up]
    /\ UNCHANGED <<row, sched, Queued, req, exec, apart, hushed, faults>>

\* Mutant of RemovedRows: the rows of retired jobs go before their schedulers.
RetiredRowsFirst(w) == [j \in Jobs |-> IF j \in Retired THEN NoRow ELSE row[j]]

RemovedRows(w) == row
BootRemove(w) ==
    /\ BootAt(w, "remove")
    /\ IF boot[w].left = {}
       THEN boot' = [boot EXCEPT ![w].pc = "delete"] /\ UNCHANGED <<row, sched>>
       ELSE \E j \in boot[w].left :
              /\ Set(j, NoCron) /\ row' = RemovedRows(w)
              /\ boot' = [boot EXCEPT ![w].left = @ \ {j}]
    /\ UNCHANGED <<Queued, req, exec, apart, hushed, faults>>
BootDelete(w) ==
    /\ BootAt(w, "delete")
    /\ row' = [j \in Jobs |-> IF j \in Retired /\ Saw(w, j) # NoRow THEN NoRow ELSE row[j]]
    /\ apart' = apart \ boot[w].mends
    /\ boot' = [boot EXCEPT ![w] = Up]
    /\ UNCHANGED <<sched, Queued, req, exec, hushed, faults>>

\* The worker dies or is started anew, or a call of its reconciliation fails.
BootFails(w) ==
    /\ Fault /\ ~BootAt(w, "down")
    /\ \E up \in {Down, Up} : boot' = [boot EXCEPT ![w] = up]
    /\ UNCHANGED <<row, sched, Queued, req, exec, apart, hushed>>
-----------------------------------------------------------------------------
(* Runs.                                                                   *)

Tick(j) ==
    /\ sched[j] # NoCron /\ j \notin tick /\ tick' = tick \cup {j}
    /\ UNCHANGED <<row, sched, hand, req, boot, exec, apart, hushed, faults>>

RunNow(j) ==
    /\ j \in Catalog /\ hand' = hand \cup {j}
    /\ UNCHANGED <<row, sched, tick, req, boot, exec, apart, hushed, faults>>

Slot(s, pc) == exec[s].pc = pc
Leave(s) == exec' = [exec EXCEPT ![s] = Free]
Take(s) ==
    /\ Slot(s, "free") /\ \E w \in Workers : ~BootAt(w, "down")
    /\ \E j \in Jobs, manual \in BOOLEAN :
         /\ IF manual THEN j \in hand /\ hand' = hand \ {j} /\ UNCHANGED tick
                      ELSE j \in tick /\ tick' = tick \ {j} /\ UNCHANGED hand
         /\ exec' = [exec EXCEPT ![s] = [pc |-> "check", job |-> j, manual |-> manual,
                       hushed |-> ~manual /\ j \in hushed, blind |-> FALSE]]
    /\ UNCHANGED <<row, sched, req, boot, apart, hushed, faults>>

\* Mutant of Skipped: a job that is enabled is skipped.
SkippedIfEnabled(s) ==
    LET j == exec[s].job IN ~exec[s].manual /\ row[j] # NoRow /\ row[j].enabled

\* The row decides whether a run of the scheduler is still wanted.
Skipped(s) ==
    LET j == exec[s].job IN ~exec[s].manual /\ row[j] # NoRow /\ ~row[j].enabled
Check(s) ==
    /\ Slot(s, "check")
    /\ IF exec[s].job \in Catalog /\ ~Skipped(s)
       THEN exec' = [exec EXCEPT ![s].pc = "work"] ELSE Leave(s)
    /\ UNCHANGED <<row, sched, Queued, req, boot, apart, hushed, faults>>

\* A row that cannot be read skips nothing.
CheckBlindly(s) ==
    /\ Slot(s, "check") /\ exec[s].job \in Catalog /\ Fault
    /\ exec' = [exec EXCEPT ![s].pc = "work", ![s].blind = TRUE]
    /\ UNCHANGED <<row, sched, Queued, req, boot, apart, hushed>>
WorkEnds(s) ==
    /\ Slot(s, "work") /\ Leave(s)
    /\ UNCHANGED <<row, sched, Queued, req, boot, apart, hushed, faults>>

\* The worker dies: the run is queued again, or has stalled too often.
RunStalls(s) ==
    /\ ~Slot(s, "free") /\ Fault /\ Leave(s)
    /\ \/ UNCHANGED Queued
       \/ exec[s].manual /\ hand' = hand \cup {exec[s].job} /\ UNCHANGED tick
       \/ ~exec[s].manual /\ tick' = tick \cup {exec[s].job} /\ UNCHANGED hand
    /\ UNCHANGED <<row, sched, req, boot, apart, hushed>>
-----------------------------------------------------------------------------
Next ==
    \/ \E r \in Requests :
         \/ \E j \in Catalog : Pause(r, j) \/ Resume(r, j) \/ EditRead(r, j)
         \/ Upsert(r) \/ UpsertRefused(r) \/ Store(r) \/ Drop(r) \/ RequestFails(r)
    \/ \E w \in Workers : \/ BootRead(w) \/ BootCreate(w) \/ BootUpsert(w) \/ BootGivesUp(w)
                          \/ BootRemove(w) \/ BootDelete(w) \/ BootFails(w)
    \/ \E j \in Jobs : Tick(j) \/ RunNow(j)
    \/ \E s \in Slots : Take(s) \/ Check(s) \/ CheckBlindly(s) \/ WorkEnds(s) \/ RunStalls(s)

Spec == Init /\ [][Next]_vars

\* BullMQ fires, and a worker boots, takes what is queued and gets on with it.
Fairness == /\ \A j \in Catalog : WF_vars(Tick(j))
            /\ \A s \in Slots : WF_vars(Take(s) \/ Check(s) \/ WorkEnds(s))
            /\ \A w \in Workers : WF_vars(BootRead(w))
FairSpec == Spec /\ Fairness
-----------------------------------------------------------------------------
Request == [pc : {"new", "upsert", "store", "drop", "end"}, op : {"none", "pause", "resume", "edit"},
            job : Catalog \cup {NoJob}, cron : Crons \cup {NoCron}, enabled : BOOLEAN, solo : BOOLEAN]
Reconciliation == [pc : {"down", "create", "upsert", "remove", "delete", "up"},
                   saw : [Jobs -> Row \cup {NoRow}], left : SUBSET Jobs, mends : SUBSET Catalog]
Processor == [pc : {"free", "check", "work"}, job : Jobs \cup {NoJob},
              manual : BOOLEAN, hushed : BOOLEAN, blind : BOOLEAN]
TypeOK ==
    /\ row \in [Jobs -> Row \cup {NoRow}] /\ sched \in [Jobs -> Crons \cup {NoCron}]
    /\ tick \subseteq Jobs /\ hand \subseteq Catalog
    /\ req \in [Requests -> Request] /\ boot \in [Workers -> Reconciliation]
    /\ exec \in [Slots -> Processor]
    /\ apart \subseteq Catalog /\ hushed \subseteq Catalog /\ faults \in 0..MaxFaults

InStepAt(j) == sched[j] = IF row[j] # NoRow /\ row[j].enabled THEN row[j].cron ELSE NoCron

\* When no request is at it, a job is scheduled as its row says: requests that do
\* not overlap keep it so, whatever they are refused, a reconciliation repairs
\* what overlapping or failed ones left, and none disturbs what was in step.
InStep == \A j \in Catalog \ apart : Busy(j) = {} => InStepAt(j)

\* Once a pause is answered, with nobody about to enable the job, no run of the
\* scheduler that is taken from the queue gets to work, though a reconciliation
\* that read before the pause puts the scheduler back; only a run that could not
\* read the row does.
PausedIsQuiet ==
    \A s \in Slots : ~(exec[s].pc = "work" /\ exec[s].hushed /\ ~exec[s].blind)

\* The scheduler of a retired job goes before its row, which is all that tells
\* the next boot to remove it.
RetiredIsUnscheduled == \A j \in Retired : row[j] = NoRow => sched[j] = NoCron

\* A job that stays enabled, with its row and scheduler in step, runs again and
\* again.
EnabledRuns ==
    \A j \in Catalog :
        <>[](row[j] # NoRow /\ row[j].enabled /\ j \notin apart /\ Busy(j) \cup Booting = {})
            => []<>(\E s \in Slots : exec[s].job = j /\ exec[s].pc = "work")
=============================================================================
