------------------------- MODULE ScheduledJobsProofs -------------------------
(***************************************************************************)
(* Proofs about ScheduledJobs, for any jobs, requests, workers, slots and  *)
(* faults: the types, the quiet of a paused job, the order in which a      *)
(* retired job goes, and the agreement of rows and schedulers.             *)
(***************************************************************************)
EXTENDS ScheduledJobs, TLAPS

\* A request at work has a job of the catalog with a row, and a cron to store; one
\* that is not has no job. A run that was taken has a job.
RequestAtWork(r) ==
    IF req[r].pc \in {"upsert", "store", "drop"}
    THEN /\ req[r].job \in Catalog /\ row[req[r].job] # NoRow
         /\ req[r].pc # "drop" => req[r].cron \in Crons
    ELSE req[r].job = NoJob /\ ~req[r].solo
SlotAtWork(s) ==
    exec[s].pc # "free" => exec[s].job \in Jobs /\ (exec[s].manual => exec[s].job \in Catalog)
AtWork == (\A r \in Requests : RequestAtWork(r)) /\ (\A s \in Slots : SlotAtWork(s))

TInv == TypeOK /\ AtWork
-----------------------------------------------------------------------------
(* Types. A step changes one entry of a function; each lemma is about one   *)
(* of the three records.                                                    *)

LEMMA NewStates ==
    /\ NewReq \in Request /\ [NewReq EXCEPT !.pc = "end"] \in Request
    /\ Down \in Reconciliation /\ Up \in Reconciliation /\ Free \in Processor
    /\ OldRows \in [Jobs -> Row \cup {NoRow}]
<1>1. NewReq \in Request /\ [NewReq EXCEPT !.pc = "end"] \in Request
  BY DEF NewReq, Request
<1>2. OldRows \in [Jobs -> Row \cup {NoRow}]
  BY JobsAssumption DEF OldRows, Row
<1>3. Down \in Reconciliation /\ Up \in Reconciliation
  BY <1>2 DEF Down, Up, Reconciliation
<1>4. Free \in Processor
  BY DEF Free, Processor
<1> QED
  BY <1>1, <1>2, <1>3, <1>4

LEMMA ThenAtType ==
    ASSUME TypeOK, NEW r \in Requests, NEW pc \in {"upsert", "store", "drop", "end"},
           ThenAt(r, pc)
    PROVE  req' \in [Requests -> Request]
BY NewStates DEF TypeOK, ThenAt, Request

LEMMA BeginsType ==
    ASSUME TypeOK, NEW r \in Requests, NEW op \in {"pause", "resume", "edit"}, NEW j \in Catalog,
           NEW pc \in {"upsert", "store", "drop"}, NEW cron \in Crons \cup {NoCron},
           NEW enabled \in BOOLEAN, Begins(r, op, j, pc, cron, enabled)
    PROVE  /\ req' \in [Requests -> Request] /\ boot' \in [Workers -> Reconciliation]
           /\ exec' \in [Slots -> Processor]
           /\ apart' \subseteq Catalog /\ hushed' \subseteq Catalog /\ faults' = faults
<1>1. req' \in [Requests -> Request]
  <2> DEFINE New(b) == [pc |-> pc, op |-> op, job |-> j, cron |-> cron, enabled |-> enabled, solo |-> b]
  <2>1. \A b \in BOOLEAN : New(b) \in Request
    BY DEF Request
  <2>2. \A x \in Request : [x EXCEPT !.solo = FALSE] \in Request
    BY DEF Request
  <2>3. PICK b \in BOOLEAN : b = (Busy(j) = {})
    OBVIOUS
  <2>4. req' = [q \in Requests |-> IF q = r THEN New(b)
                  ELSE IF q \in Busy(j) THEN [req[q] EXCEPT !.solo = FALSE] ELSE req[q]]
    BY <2>3 DEF Begins
  <2> HIDE DEF New
  <2> QED
    BY <2>1, <2>2, <2>4 DEF TypeOK
<1>2. boot' \in [Workers -> Reconciliation]
  <2>1. \A x \in Reconciliation : [x EXCEPT !.mends = @ \ {j}] \in Reconciliation
    BY DEF Reconciliation
  <2> QED
    BY <2>1 DEF TypeOK, Begins
<1>3. exec' \in [Slots -> Processor]
  <2>1. \A x \in Processor : [x EXCEPT !.hushed = FALSE] \in Processor
    BY DEF Processor
  <2> QED
    BY <2>1 DEF TypeOK, Begins
<1> QED
  BY <1>1, <1>2, <1>3 DEF TypeOK, Begins

LEMMA InitType == Init => TInv
<1> SUFFICES ASSUME Init PROVE TInv
  OBVIOUS
<1>1. sched \in [Jobs -> Crons \cup {NoCron}]
  BY JobsAssumption DEF Init
<1>2. faults \in 0..MaxFaults
  BY JobsAssumption DEF Init
<1>3. AtWork
  BY DEF Init, AtWork, RequestAtWork, SlotAtWork, NewReq, Free
<1> QED
  BY <1>1, <1>2, <1>3, NewStates DEF Init, TypeOK, TInv

LEMMA RequestsKeepTypes ==
    ASSUME TInv, NEW r \in Requests,
           \/ \E j \in Catalog : Pause(r, j) \/ Resume(r, j) \/ EditRead(r, j)
           \/ Upsert(r) \/ UpsertRefused(r) \/ Store(r) \/ Drop(r) \/ RequestFails(r)
    PROVE  TypeOK'
<1> USE DEF TInv
<1>0. req[r] \in Request
  BY DEF TypeOK
<1>1. ASSUME NEW j \in Catalog, Pause(r, j) PROVE TypeOK'
  <2>1. \A x \in Row : [x EXCEPT !.enabled = FALSE] \in Row
    BY DEF Row
  <2>2. row[j] \in Row /\ j \in Jobs
    BY <1>1 DEF Pause, Begins, TypeOK, Jobs
  <2>3. row' \in [Jobs -> Row \cup {NoRow}]
    BY <1>1, <2>1, <2>2 DEF Pause, PausedRow, TypeOK
  <2> QED
    BY <1>1, <2>3, BeginsType DEF Pause, Queued, TypeOK
<1>2. ASSUME NEW j \in Catalog, Resume(r, j) PROVE TypeOK'
  <2>1. \A x \in Row : [x EXCEPT !.enabled = TRUE] \in Row /\ x.cron \in Crons
    BY DEF Row
  <2>2. row[j] \in Row /\ j \in Jobs
    BY <1>2 DEF Resume, Begins, TypeOK, Jobs
  <2>3. row' \in [Jobs -> Row \cup {NoRow}]
    BY <1>2, <2>1, <2>2 DEF Resume, TypeOK
  <2> QED
    BY <1>2, <2>1, <2>2, <2>3, BeginsType DEF Resume, Queued, TypeOK
<1>3. ASSUME NEW j \in Catalog, EditRead(r, j) PROVE TypeOK'
  <2>1. PICK c \in Crons, e \in BOOLEAN :
          Begins(r, "edit", j, IF e THEN "upsert" ELSE "store", c, e)
    BY <1>3 DEF EditRead
  <2> QED
    BY <1>3, <2>1, BeginsType DEF EditRead, Queued, TypeOK
<1>4. ASSUME Upsert(r) PROVE TypeOK'
  <2>2. req' \in [Requests -> Request]
    BY <1>4, ThenAtType DEF Upsert
  <2>3. sched' \in [Jobs -> Crons \cup {NoCron}]
    BY <1>0, <1>4 DEF Upsert, Set, TypeOK, Request
  <2> QED
    BY <1>4, <2>2, <2>3 DEF Upsert, Queued, TypeOK
<1>5. ASSUME UpsertRefused(r) PROVE TypeOK'
  <2>1. req' \in [Requests -> Request]
    BY <1>5, ThenAtType DEF UpsertRefused
  <2>2. req[r].job \in Catalog
    BY <1>5 DEF UpsertRefused, At, AtWork, RequestAtWork
  <2> QED
    BY <1>5, <2>1, <2>2 DEF UpsertRefused, Queued, TypeOK
<1>6. ASSUME Store(r) PROVE TypeOK'
  <2>1. req' \in [Requests -> Request]
    BY <1>6, ThenAtType DEF Store
  <2>2. [enabled |-> req[r].enabled, cron |-> req[r].cron] \in Row
    BY <1>0, <1>6 DEF Store, At, AtWork, RequestAtWork, SlotAtWork, Row, Request
  <2>3. row' \in [Jobs -> Row \cup {NoRow}]
    BY <1>6, <2>2 DEF Store, TypeOK
  <2> QED
    BY <1>6, <2>1, <2>3 DEF Store, Queued, TypeOK
<1>7. ASSUME Drop(r) PROVE TypeOK'
  <2>1. req' \in [Requests -> Request]
    BY <1>7, ThenAtType DEF Drop
  <2>2. req[r].job \in Catalog
    BY <1>7 DEF Drop, At, AtWork, RequestAtWork
  <2> QED
    BY <1>7, <2>1, <2>2 DEF Drop, Set, Queued, TypeOK
<1>8. ASSUME RequestFails(r) PROVE TypeOK'
  <2>1. req' \in [Requests -> Request]
    BY <1>8, ThenAtType DEF RequestFails
  <2>2. req[r].job \in Catalog
    BY <1>8 DEF RequestFails, AtWork, RequestAtWork
  <2>3. faults' \in 0..MaxFaults
    BY <1>8, JobsAssumption DEF RequestFails, Fault, TypeOK
  <2> QED
    BY <1>8, <2>1, <2>2, <2>3 DEF RequestFails, Queued, TypeOK
<1> QED
  BY <1>1, <1>2, <1>3, <1>4, <1>5, <1>6, <1>7, <1>8

\* A row that is created was missing, and gets what the catalog says.
LEMMA BootCreates ==
    ASSUME TypeOK, NEW w \in Workers, NEW j \in Jobs, BootCreate(w)
    PROVE  \/ row'[j] = row[j]
           \/ /\ j \in Missing(w) /\ row[j] = NoRow
              /\ row'[j] = [enabled |-> TRUE, cron |-> Default] /\ row'[j] # NoRow
<1>1. [enabled |-> TRUE, cron |-> Default] # NoRow
  <2>1. [enabled |-> TRUE, cron |-> Default] \in Row
    BY JobsAssumption DEF Row
  <2> QED
    BY <2>1, JobsAssumption
<1>2. ASSUME NEW i \in Missing(w), row[i] = NoRow,
             row' = [row EXCEPT ![i] = [enabled |-> TRUE, cron |-> Default]]
      PROVE  \/ row'[j] = row[j]
             \/ /\ j \in Missing(w) /\ row[j] = NoRow
                /\ row'[j] = [enabled |-> TRUE, cron |-> Default]
  BY <1>2 DEF TypeOK
<1> QED
  BY <1>1, <1>2 DEF BootCreate

LEMMA BootsKeepTypes ==
    ASSUME TInv, NEW w \in Workers,
           \/ BootRead(w) \/ BootCreate(w) \/ BootUpsert(w) \/ BootGivesUp(w)
           \/ BootRemove(w) \/ BootDelete(w) \/ BootFails(w)
    PROVE  TypeOK'
<1> USE DEF TInv
<1>0. boot[w] \in Reconciliation
  BY DEF TypeOK
<1>1. ASSUME BootRead(w) PROVE TypeOK'
  <2> DEFINE M == {j \in Catalog : Busy(j) = {} /\ \A v \in Booting : j \in boot[v].mends}
  <2>1. [pc |-> "create", saw |-> row, left |-> {}, mends |-> M] \in Reconciliation
    BY DEF TypeOK, Reconciliation
  <2>2. boot' \in [Workers -> Reconciliation]
    BY <1>1, <2>1 DEF BootRead, TypeOK
  <2> QED
    BY <1>1, <2>2 DEF BootRead, Queued, TypeOK
<1>2. ASSUME BootCreate(w) PROVE TypeOK'
  <2>1. [enabled |-> TRUE, cron |-> Default] \in Row
    BY JobsAssumption DEF Row
  <2>2. row' \in [Jobs -> Row \cup {NoRow}]
    <3>1. ASSUME NEW j \in Missing(w), row' = [row EXCEPT ![j] = [enabled |-> TRUE, cron |-> Default]]
          PROVE  row' \in [Jobs -> Row \cup {NoRow}]
      BY <2>1, <3>1 DEF TypeOK
    <3> QED
      BY <1>2, <3>1 DEF BootCreate, TypeOK
  <2>3. Wanted(w) \subseteq Jobs
    BY DEF Wanted, Jobs
  <2>4. [boot[w] EXCEPT !.pc = "upsert", !.left = Wanted(w)] \in Reconciliation
    BY <1>0, <2>3 DEF Reconciliation
  <2>5. boot' \in [Workers -> Reconciliation]
    <3>1. boot' = [boot EXCEPT ![w].pc = "upsert", ![w].left = Wanted(w)] \/ boot' = boot
      BY <1>2 DEF BootCreate
    <3> QED
      BY <2>4, <3>1 DEF TypeOK
  <2> QED
    BY <1>2, <2>2, <2>5 DEF BootCreate, Queued, TypeOK
<1>3. ASSUME BootUpsert(w) PROVE TypeOK'
  <2>1. Unwanted(w) \subseteq Jobs
    BY DEF Unwanted, Jobs
  <2>2. [boot[w] EXCEPT !.pc = "remove", !.left = Unwanted(w)] \in Reconciliation
    BY <1>0, <2>1 DEF Reconciliation
  <2>3. \A j : [boot[w] EXCEPT !.left = @ \ {j}] \in Reconciliation
    BY <1>0 DEF Reconciliation
  <2>4. boot' \in [Workers -> Reconciliation]
    <3>1. CASE boot[w].left = {}
      BY <1>3, <2>2, <3>1 DEF BootUpsert, TypeOK
    <3>2. CASE boot[w].left # {}
      BY <1>3, <2>3, <3>2 DEF BootUpsert, TypeOK
    <3> QED
      BY <3>1, <3>2
  <2>5. \A j \in Jobs : CronOf(w, j) \in Crons
    BY <1>0, JobsAssumption DEF CronOf, Saw, Reconciliation, Row
  <2>6. boot[w].left \subseteq Jobs
    BY <1>0 DEF Reconciliation
  <2>7. sched' \in [Jobs -> Crons \cup {NoCron}]
    BY <1>3, <2>5, <2>6 DEF BootUpsert, Set, TypeOK
  <2> QED
    BY <1>3, <2>4, <2>7 DEF BootUpsert, Queued, TypeOK
<1>4. ASSUME BootGivesUp(w) PROVE TypeOK'
  BY <1>4, NewStates DEF BootGivesUp, Queued, TypeOK
<1>5. ASSUME BootRemove(w) PROVE TypeOK'
  <2>1. \A j : [boot[w] EXCEPT !.left = @ \ {j}] \in Reconciliation
    BY <1>0 DEF Reconciliation
  <2>2. [boot[w] EXCEPT !.pc = "delete"] \in Reconciliation
    BY <1>0 DEF Reconciliation
  <2>3. boot' \in [Workers -> Reconciliation]
    BY <1>5, <2>1, <2>2 DEF BootRemove, TypeOK
  <2>4. sched' \in [Jobs -> Crons \cup {NoCron}] /\ row' = row
    BY <1>5 DEF BootRemove, RemovedRows, Set, TypeOK
  <2> QED
    BY <1>5, <2>3, <2>4 DEF BootRemove, Queued, TypeOK
<1>6. ASSUME BootDelete(w) PROVE TypeOK'
  <2>1. boot' \in [Workers -> Reconciliation]
    BY <1>6, NewStates DEF BootDelete, TypeOK
  <2>2. row' \in [Jobs -> Row \cup {NoRow}]
    BY <1>6 DEF BootDelete, TypeOK
  <2> QED
    BY <1>6, <2>1, <2>2 DEF BootDelete, Queued, TypeOK
<1>7. ASSUME BootFails(w) PROVE TypeOK'
  <2>1. boot' \in [Workers -> Reconciliation]
    BY <1>7, NewStates DEF BootFails, TypeOK
  <2>2. faults' \in 0..MaxFaults
    BY <1>7, JobsAssumption DEF BootFails, Fault, TypeOK
  <2> QED
    BY <1>7, <2>1, <2>2 DEF BootFails, Queued, TypeOK
<1> QED
  BY <1>1, <1>2, <1>3, <1>4, <1>5, <1>6, <1>7

LEMMA RunsKeepTypes ==
    ASSUME TInv,
           \/ \E j \in Jobs : Tick(j) \/ RunNow(j)
           \/ \E s \in Slots : Take(s) \/ Check(s) \/ CheckBlindly(s) \/ WorkEnds(s) \/ RunStalls(s)
    PROVE  TypeOK'
<1> USE DEF TInv
<1>1. ASSUME NEW j \in Jobs, Tick(j) \/ RunNow(j) PROVE TypeOK'
  BY <1>1 DEF Tick, RunNow, TypeOK
<1>2. ASSUME NEW s \in Slots, Leave(s) PROVE exec' \in [Slots -> Processor]
  BY <1>2, NewStates DEF Leave, TypeOK
<1>3. ASSUME NEW s \in Slots, Take(s) PROVE TypeOK'
  <2>1. PICK j \in Jobs, manual \in BOOLEAN :
          /\ IF manual THEN j \in hand /\ hand' = hand \ {j} /\ UNCHANGED tick
                       ELSE j \in tick /\ tick' = tick \ {j} /\ UNCHANGED hand
          /\ exec' = [exec EXCEPT ![s] = [pc |-> "check", job |-> j, manual |-> manual,
                        hushed |-> ~manual /\ j \in hushed, blind |-> FALSE]]
    BY <1>3 DEF Take
  <2>2. PICK b \in BOOLEAN : b = (~manual /\ j \in hushed)
    OBVIOUS
  <2>3. [pc |-> "check", job |-> j, manual |-> manual, hushed |-> b, blind |-> FALSE] \in Processor
    BY DEF Processor
  <2>4. exec' \in [Slots -> Processor]
    BY <2>1, <2>2, <2>3 DEF TypeOK
  <2>5. tick' \subseteq Jobs /\ hand' \subseteq Catalog
    BY <2>1 DEF TypeOK
  <2> QED
    BY <1>3, <2>4, <2>5 DEF Take, TypeOK
<1>4. ASSUME NEW s \in Slots, Check(s) \/ WorkEnds(s) PROVE TypeOK'
  <2>1. [exec[s] EXCEPT !.pc = "work"] \in Processor
    BY DEF TypeOK, Processor
  <2>2. exec' \in [Slots -> Processor]
    BY <1>2, <1>4, <2>1 DEF Check, WorkEnds, TypeOK
  <2> QED
    BY <1>4, <2>2 DEF Check, WorkEnds, Queued, TypeOK
<1>5. ASSUME NEW s \in Slots, CheckBlindly(s) PROVE TypeOK'
  <2>1. [exec[s] EXCEPT !.pc = "work", !.blind = TRUE] \in Processor
    BY DEF TypeOK, Processor
  <2>2. exec' \in [Slots -> Processor]
    BY <1>5, <2>1 DEF CheckBlindly, TypeOK
  <2>3. faults' \in 0..MaxFaults
    BY <1>5, JobsAssumption DEF CheckBlindly, Fault, TypeOK
  <2> QED
    BY <1>5, <2>2, <2>3 DEF CheckBlindly, Queued, TypeOK
<1>6. ASSUME NEW s \in Slots, RunStalls(s) PROVE TypeOK'
  <2>1. faults' \in 0..MaxFaults
    BY <1>6, JobsAssumption DEF RunStalls, Fault, TypeOK
  <2>2. tick' \subseteq Jobs /\ hand' \subseteq Catalog
    BY <1>6 DEF RunStalls, Slot, Queued, TypeOK, AtWork, SlotAtWork
  <2> QED
    BY <1>2, <1>6, <2>1, <2>2 DEF RunStalls, TypeOK
<1> QED
  BY <1>1, <1>3, <1>4, <1>5, <1>6

LEMMA NextType == TInv /\ [Next]_vars => TypeOK'
<1> SUFFICES ASSUME TInv, [Next]_vars PROVE TypeOK'
  OBVIOUS
<1>1. CASE UNCHANGED vars
  BY <1>1 DEF vars, TInv, TypeOK
<1> QED
  BY <1>1, RequestsKeepTypes, BootsKeepTypes, RunsKeepTypes DEF Next

\* The rows of jobs that have one keep it, unless the job is retired.
LEMMA RowsStay ==
    ASSUME TInv, [Next]_vars, NEW j \in Catalog, row[j] # NoRow
    PROVE  row'[j] # NoRow
<1>0. TypeOK' /\ j \in Jobs /\ j \notin Retired
  BY NextType, JobsAssumption DEF Jobs
<1>1. CASE row' = row
  BY <1>1
<1>2. ASSUME NEW r \in Requests, NEW i \in Catalog, Pause(r, i) \/ Resume(r, i) PROVE row'[j] # NoRow
  <2>1. \A x \in Row : [x EXCEPT !.enabled = FALSE] \in Row /\ [x EXCEPT !.enabled = TRUE] \in Row
    BY DEF Row
  <2>2. row[j] \in Row /\ row \in [Jobs -> Row \cup {NoRow}] /\ NoRow \notin Row
    BY <1>0, JobsAssumption DEF TInv, TypeOK
  <2>3. CASE i = j
    <3>1. /\ [row[j] EXCEPT !.enabled = FALSE] # NoRow
          /\ [row[j] EXCEPT !.enabled = TRUE] # NoRow
      BY <2>1, <2>2
    <3>2. \/ row' = [row EXCEPT ![j].enabled = FALSE]
          \/ row' = [row EXCEPT ![j].enabled = TRUE]
      BY <1>2, <2>3 DEF Pause, Resume, PausedRow
    <3>3. \/ row'[j] = [row[j] EXCEPT !.enabled = FALSE]
          \/ row'[j] = [row[j] EXCEPT !.enabled = TRUE]
      BY <1>0, <2>2, <3>2
    <3> QED
      BY <3>1, <3>3
  <2>4. CASE i # j
    BY <1>0, <1>2, <2>2, <2>4 DEF Pause, Resume, PausedRow
  <2> QED
    BY <2>3, <2>4
<1>3. ASSUME NEW r \in Requests, Store(r) PROVE row'[j] # NoRow
  <2>1. req[r] \in Request
    BY DEF TInv, TypeOK
  <2>2. [enabled |-> req[r].enabled, cron |-> req[r].cron] \in Row
    BY <1>3, <2>1 DEF Store, At, TInv, AtWork, RequestAtWork, SlotAtWork, Row, Request
  <2> QED
    BY <1>0, <1>3, <2>2, JobsAssumption DEF Store, TInv, TypeOK
<1>4. ASSUME NEW w \in Workers, BootCreate(w) PROVE row'[j] # NoRow
  BY <1>0, <1>4, BootCreates DEF TInv, Jobs
<1>5. ASSUME NEW w \in Workers, BootDelete(w) PROVE row'[j] # NoRow
  BY <1>0, <1>5 DEF BootDelete
<1>6. ASSUME NEW w \in Workers, BootRemove(w) PROVE row' = row
  BY <1>6 DEF BootRemove, RemovedRows
<1> QED
  BY <1>1, <1>2, <1>3, <1>4, <1>5, <1>6 DEF Next, vars, EditRead, Upsert, UpsertRefused, Drop,
     RequestFails, BootRead, BootUpsert, BootGivesUp, BootFails, Tick, RunNow, Take, Check,
     CheckBlindly, WorkEnds, RunStalls

LEMMA BeginsAtWork ==
    ASSUME TInv, [Next]_vars, NEW r \in Requests, NEW op \in {"pause", "resume", "edit"},
           NEW j \in Catalog, NEW pc \in {"upsert", "store", "drop"}, NEW cron \in Crons \cup {NoCron},
           NEW enabled \in BOOLEAN, Begins(r, op, j, pc, cron, enabled),
           pc # "drop" => cron \in Crons
    PROVE  AtWork'
<1>1. ASSUME NEW q \in Requests PROVE RequestAtWork(q)'
  <2>1. CASE q = r
    <3>1. req'[q].pc = pc /\ req'[q].job = j /\ req'[q].cron = cron
      BY <2>1 DEF Begins
    <3>2. row'[j] # NoRow
      BY RowsStay DEF Begins
    <3> QED
      BY <3>1, <3>2 DEF RequestAtWork
  <2>2. CASE q # r
    <3>1. req[q] \in Request /\ RequestAtWork(q)
      BY DEF TInv, TypeOK, AtWork
    <3>2. \/ req'[q] = req[q]
          \/ req'[q] = [req[q] EXCEPT !.solo = FALSE]
      BY <2>2 DEF Begins
    <3>3. /\ req'[q].pc = req[q].pc /\ req'[q].job = req[q].job /\ req'[q].cron = req[q].cron
          /\ req'[q].solo => req[q].solo
      BY <3>1, <3>2 DEF Request
    <3>4. req[q].job \in Catalog /\ row[req[q].job] # NoRow => row'[req[q].job] # NoRow
      BY RowsStay
    <3> QED
      BY <3>1, <3>3, <3>4 DEF RequestAtWork
  <2> QED
    BY <2>1, <2>2
<1>2. ASSUME NEW s \in Slots PROVE SlotAtWork(s)'
  <2>1. exec[s] \in Processor /\ SlotAtWork(s)
    BY DEF TInv, TypeOK, AtWork
  <2>2. exec'[s] = exec[s] \/ exec'[s] = [exec[s] EXCEPT !.hushed = FALSE]
    BY DEF Begins
  <2>3. exec'[s].pc = exec[s].pc /\ exec'[s].job = exec[s].job /\ exec'[s].manual = exec[s].manual
    BY <2>1, <2>2 DEF Processor
  <2> QED
    BY <2>1, <2>3 DEF SlotAtWork
<1> QED
  BY <1>1, <1>2 DEF AtWork

LEMMA ThenAtWork ==
    ASSUME TInv, [Next]_vars, NEW r \in Requests, NEW pc \in {"store", "drop", "end"},
           ThenAt(r, pc), req[r].pc \in {"upsert", "store", "drop"},
           pc = "store" => req[r].pc = "upsert"
    PROVE  \A q \in Requests : RequestAtWork(q)'
<1> SUFFICES ASSUME NEW q \in Requests PROVE RequestAtWork(q)'
  OBVIOUS
<1>1. req[q] \in Request /\ RequestAtWork(q) /\ req \in [Requests -> Request]
  BY DEF TInv, TypeOK, AtWork
<1>2. req[q].job \in Catalog /\ row[req[q].job] # NoRow => row'[req[q].job] # NoRow
  BY RowsStay
<1>3. CASE q # r
  <2>1. req'[q] = req[q]
    BY <1>1, <1>3 DEF ThenAt
  <2> QED
    BY <1>1, <1>2, <2>1 DEF RequestAtWork
<1>4. CASE q = r /\ pc = "end"
  <2>1. req'[q].pc = "end" /\ req'[q].job = NoJob /\ req'[q].solo = FALSE
    BY <1>1, <1>4 DEF ThenAt, NewReq
  <2> QED
    BY <2>1 DEF RequestAtWork
<1>5. CASE q = r /\ pc # "end"
  <2>1. req'[q].pc = pc /\ req'[q].job = req[q].job /\ req'[q].cron = req[q].cron
    BY <1>1, <1>5 DEF ThenAt, Request
  <2> QED
    BY <1>1, <1>2, <1>5, <2>1 DEF RequestAtWork
<1> QED
  BY <1>3, <1>4, <1>5
LEMMA NextAtWork == TInv /\ [Next]_vars => AtWork'
<1> SUFFICES ASSUME TInv, [Next]_vars PROVE AtWork'
  OBVIOUS
<1>1. req' = req => \A q \in Requests : RequestAtWork(q)'
  BY RowsStay DEF TInv, AtWork, RequestAtWork
<1>2. exec' = exec => \A s \in Slots : SlotAtWork(s)'
  BY DEF TInv, AtWork, SlotAtWork
<1>3. ASSUME NEW s \in Slots, Leave(s) PROVE \A q \in Slots : SlotAtWork(q)'
  BY <1>3 DEF Leave, Free, TInv, TypeOK, AtWork, SlotAtWork
<1>4. ASSUME NEW r \in Requests, NEW j \in Catalog, Pause(r, j) \/ Resume(r, j) \/ EditRead(r, j)
      PROVE  AtWork'
  <2>1. CASE Pause(r, j)
    BY <2>1, BeginsAtWork DEF Pause
  <2>2. CASE Resume(r, j)
    <3>1. row[j] # NoRow /\ j \in Jobs
      BY <2>2 DEF Resume, Begins, Jobs
    <3>2. row[j].cron \in Crons
      BY <3>1 DEF TInv, TypeOK, Row
    <3> QED
      BY <2>2, <3>2, BeginsAtWork DEF Resume
  <2>3. CASE EditRead(r, j)
    <3>1. PICK c \in Crons, e \in BOOLEAN :
            Begins(r, "edit", j, IF e THEN "upsert" ELSE "store", c, e)
      BY <2>3 DEF EditRead
    <3> QED
      BY <3>1, BeginsAtWork
  <2> QED
    BY <1>4, <2>1, <2>2, <2>3
<1>5. ASSUME NEW r \in Requests, Upsert(r) \/ UpsertRefused(r) \/ Store(r) \/ Drop(r) \/ RequestFails(r)
      PROVE  AtWork'
  BY <1>2, <1>5, ThenAtWork DEF Upsert, UpsertRefused, Store, Drop, RequestFails, At, AtWork
<1>6. ASSUME NEW w \in Workers,
             \/ BootRead(w) \/ BootCreate(w) \/ BootUpsert(w) \/ BootGivesUp(w)
             \/ BootRemove(w) \/ BootDelete(w) \/ BootFails(w)
      PROVE  req' = req /\ exec' = exec
  BY <1>6 DEF BootRead, BootCreate, BootUpsert, BootGivesUp, BootRemove, BootDelete, BootFails
<1>7. ASSUME NEW j \in Jobs, Tick(j) \/ RunNow(j) PROVE req' = req /\ exec' = exec
  BY <1>7 DEF Tick, RunNow
<1>8. ASSUME NEW s \in Slots, Take(s) PROVE AtWork'
  <2>1. PICK j \in Jobs, manual \in BOOLEAN :
          /\ manual => j \in hand
          /\ exec' = [exec EXCEPT ![s] = [pc |-> "check", job |-> j, manual |-> manual,
                        hushed |-> ~manual /\ j \in hushed, blind |-> FALSE]]
    BY <1>8 DEF Take
  <2>2. exec'[s].job = j /\ exec'[s].manual = manual
    BY <2>1 DEF TInv, TypeOK
  <2>3. manual => j \in Catalog
    BY <2>1 DEF TInv, TypeOK
  <2>4. \A q \in Slots : SlotAtWork(q)'
    BY <2>1, <2>2, <2>3 DEF TInv, AtWork, SlotAtWork
  <2> QED
    BY <1>1, <1>8, <2>4 DEF Take, AtWork
<1>9. ASSUME NEW s \in Slots, Check(s) \/ CheckBlindly(s) PROVE AtWork'
  <2>1. exec[s] \in Processor /\ SlotAtWork(s) /\ exec[s].pc = "check"
    BY <1>9 DEF Check, CheckBlindly, Slot, TInv, TypeOK, AtWork
  <2>2. \/ Leave(s)
        \/ exec' = [exec EXCEPT ![s] = [exec[s] EXCEPT !.pc = "work"]]
        \/ exec' = [exec EXCEPT ![s] = [exec[s] EXCEPT !.pc = "work", !.blind = TRUE]]
    BY <1>9 DEF Check, CheckBlindly, TInv, TypeOK
  <2>3. \A q \in Slots : SlotAtWork(q)'
    <3>1. CASE Leave(s)
      BY <1>3, <3>1
    <3>2. CASE ~Leave(s)
      <4>1. exec'[s].job = exec[s].job /\ exec'[s].manual = exec[s].manual
        <5>1. exec'[s] \in {[exec[s] EXCEPT !.pc = "work"], [exec[s] EXCEPT !.pc = "work", !.blind = TRUE]}
          BY <2>2, <3>2 DEF TInv, TypeOK
        <5> QED
          BY <2>1, <5>1 DEF Processor
      <4>2. \A q \in Slots \ {s} : exec'[q] = exec[q]
        BY <2>2, <3>2 DEF TInv, TypeOK
      <4> QED
        BY <2>1, <4>1, <4>2 DEF SlotAtWork, TInv, AtWork
    <3> QED
      BY <3>1, <3>2
  <2> QED
    BY <1>1, <1>9, <2>3 DEF Check, CheckBlindly, AtWork
<1>10. ASSUME NEW s \in Slots, WorkEnds(s) \/ RunStalls(s) PROVE AtWork'
  BY <1>1, <1>3, <1>10 DEF WorkEnds, RunStalls, AtWork
<1>11. CASE UNCHANGED vars
  BY <1>1, <1>2, <1>11 DEF vars, AtWork
<1> QED
  BY <1>1, <1>2, <1>4, <1>5, <1>6, <1>7, <1>8, <1>9, <1>10, <1>11 DEF Next, AtWork

\* Every variable keeps its type, for any jobs, requests, workers, slots and faults.
THEOREM TypeCorrect == Spec => []TypeOK
<1>1. Init => TInv
  BY InitType
<1>2. TInv /\ [Next]_vars => TInv'
  BY NextType, NextAtWork DEF TInv
<1>3. TInv => TypeOK
  BY DEF TInv
<1> QED
  BY <1>1, <1>2, <1>3, PTL DEF Spec
-----------------------------------------------------------------------------
(* Retired jobs. A boot that has seen the row of one takes its scheduler    *)
(* first; nobody else schedules it, and nobody gives it a row again.        *)

Cleared(w) ==
    LET seen == {j \in Retired : boot[w].saw[j] # NoRow} IN
    /\ boot[w].pc = "upsert" => boot[w].left \subseteq Catalog
    /\ boot[w].pc = "remove" => \A j \in seen \ boot[w].left : sched[j] = NoCron
    /\ boot[w].pc = "delete" => \A j \in seen : sched[j] = NoCron

RetiredInv == RetiredIsUnscheduled /\ \A w \in Workers : Cleared(w)

LEMMA RetiredNotScheduled ==
    ASSUME TInv, RetiredInv, [Next]_vars, NEW j \in Retired
    PROVE  sched'[j] \in {sched[j], NoCron}
<1>0. j \in Jobs /\ j \notin Catalog /\ sched \in [Jobs -> Crons \cup {NoCron}]
  BY JobsAssumption DEF Jobs, TInv, TypeOK
<1>1. sched' = sched => sched'[j] \in {sched[j], NoCron}
  OBVIOUS
<1>2. ASSUME NEW r \in Requests, Upsert(r) PROVE sched'[j] = sched[j]
  <2>1. req[r].job \in Catalog
    BY <1>2 DEF Upsert, At, TInv, AtWork, RequestAtWork
  <2> QED
    BY <1>0, <1>2, <2>1 DEF Upsert, Set
<1>3. ASSUME NEW r \in Requests, Drop(r) PROVE sched'[j] \in {sched[j], NoCron}
  BY <1>0, <1>3 DEF Drop, Set
<1>4. ASSUME NEW w \in Workers, BootUpsert(w) PROVE sched'[j] = sched[j]
  <2>1. boot[w].left \subseteq Catalog
    BY <1>4 DEF BootUpsert, BootAt, RetiredInv, Cleared
  <2> QED
    BY <1>0, <1>4, <2>1 DEF BootUpsert, Set
<1>5. ASSUME NEW w \in Workers, BootRemove(w) PROVE sched'[j] \in {sched[j], NoCron}
  BY <1>0, <1>5 DEF BootRemove, Set
<1> QED
  BY <1>1, <1>2, <1>3, <1>4, <1>5 DEF Next, vars, Pause, Resume, EditRead, UpsertRefused, Store,
     RequestFails, BootRead, BootCreate, BootGivesUp, BootDelete, BootFails, Tick, RunNow, Take,
     Check, CheckBlindly, WorkEnds, RunStalls

LEMMA RetiredRowsGo ==
    ASSUME TInv, [Next]_vars, NEW j \in Retired, row'[j] = NoRow
    PROVE  row[j] = NoRow \/ \E w \in Workers : BootDelete(w) /\ Saw(w, j) # NoRow
<1>0. j \in Jobs /\ j \notin Catalog /\ row \in [Jobs -> Row \cup {NoRow}]
  BY JobsAssumption DEF Jobs, TInv, TypeOK
<1>1. ASSUME NEW r \in Requests, NEW i \in Catalog, Pause(r, i) \/ Resume(r, i) PROVE row'[j] = row[j]
  BY <1>0, <1>1 DEF Pause, PausedRow, Resume
<1>2. ASSUME NEW r \in Requests, Store(r) PROVE row'[j] = row[j]
  <2>1. req[r].job \in Catalog
    BY <1>2 DEF Store, At, TInv, AtWork, RequestAtWork
  <2> QED
    BY <1>0, <1>2, <2>1 DEF Store
<1>3. ASSUME NEW w \in Workers, BootCreate(w) PROVE row'[j] = row[j]
  BY <1>0, <1>3, BootCreates DEF TInv, Missing
<1>4. ASSUME NEW w \in Workers, BootRemove(w) PROVE row' = row
  BY <1>4 DEF BootRemove, RemovedRows
<1>5. ASSUME NEW w \in Workers, BootDelete(w), Saw(w, j) = NoRow PROVE row'[j] = row[j]
  BY <1>0, <1>5 DEF BootDelete
<1> QED
  BY <1>1, <1>2, <1>3, <1>4, <1>5 DEF Next, vars, EditRead, Upsert, UpsertRefused, Drop,
     RequestFails, BootRead, BootUpsert, BootGivesUp, BootFails, Tick, RunNow, Take, Check,
     CheckBlindly, WorkEnds, RunStalls

\* All rows that a worker missed are there.
BootCreated(w) ==
    /\ \A j \in Missing(w) : row[j] # NoRow
    /\ boot' = [boot EXCEPT ![w].pc = "upsert", ![w].left = Wanted(w)]

\* The steps of a boot, as far as they matter here.
LEMMA BootSteps ==
    ASSUME TInv, [Next]_vars, NEW w \in Workers
    PROVE  \/ /\ boot'[w].pc = boot[w].pc /\ boot'[w].saw = boot[w].saw
              /\ boot'[w].left = boot[w].left
           \/ boot'[w].pc \in {"create", "down", "up"}
           \/ BootCreated(w) \/ BootUpsert(w) \/ BootRemove(w)
<1>0. boot[w] \in Reconciliation /\ boot \in [Workers -> Reconciliation]
  BY DEF TInv, TypeOK
<1>1. ASSUME NEW r \in Requests, NEW op, NEW j, NEW pc, NEW cron, NEW enabled,
             Begins(r, op, j, pc, cron, enabled)
      PROVE  /\ boot'[w].pc = boot[w].pc /\ boot'[w].saw = boot[w].saw
             /\ boot'[w].left = boot[w].left
  <2>1. boot'[w] = [boot[w] EXCEPT !.mends = @ \ {j}]
    BY <1>1 DEF Begins
  <2> QED
    BY <1>0, <2>1 DEF Reconciliation
<1>2. ASSUME NEW r \in Requests, NEW j \in Catalog, Pause(r, j) \/ Resume(r, j) \/ EditRead(r, j)
      PROVE  /\ boot'[w].pc = boot[w].pc /\ boot'[w].saw = boot[w].saw
             /\ boot'[w].left = boot[w].left
  BY <1>1, <1>2 DEF Pause, Resume, EditRead
<1>3. ASSUME NEW v \in Workers, v # w,
             \/ BootRead(v) \/ BootCreate(v) \/ BootUpsert(v) \/ BootGivesUp(v)
             \/ BootRemove(v) \/ BootDelete(v) \/ BootFails(v)
      PROVE  boot'[w] = boot[w]
  BY <1>0, <1>3 DEF BootRead, BootCreate, BootUpsert, BootGivesUp, BootRemove, BootDelete, BootFails
<1>4. ASSUME BootRead(w) \/ BootGivesUp(w) \/ BootDelete(w) \/ BootFails(w)
      PROVE  boot'[w].pc \in {"create", "down", "up"}
  BY <1>0, <1>4 DEF BootRead, BootGivesUp, BootDelete, BootFails, Up, Down
<1>5. boot' = boot => boot'[w] = boot[w]
  OBVIOUS
<1>6. BootCreate(w) => BootCreated(w) \/ boot' = boot
  BY DEF BootCreate, BootCreated
<1> QED
  BY <1>2, <1>3, <1>4, <1>5, <1>6 DEF Next, vars, Upsert, UpsertRefused, Store, Drop, RequestFails, Tick,
     RunNow, Take, Check, CheckBlindly, WorkEnds, RunStalls

LEMMA RetiredStep == TInv /\ RetiredInv /\ [Next]_vars => RetiredInv'
<1> SUFFICES ASSUME TInv, RetiredInv, [Next]_vars PROVE RetiredInv'
  OBVIOUS
<1>0. \A w \in Workers : Cleared(w) /\ boot[w] \in Reconciliation
  BY DEF RetiredInv, TInv, TypeOK
<1>1. ASSUME NEW j \in Retired, row'[j] = NoRow PROVE sched'[j] = NoCron
  <2>1. row[j] = NoRow => sched[j] = NoCron
    BY DEF RetiredInv, RetiredIsUnscheduled
  <2>2. ASSUME NEW w \in Workers, BootDelete(w), Saw(w, j) # NoRow PROVE sched[j] = NoCron
    BY <1>0, <2>2 DEF BootDelete, BootAt, Saw, Cleared
  <2> QED
    BY <1>1, <2>1, <2>2, RetiredRowsGo, RetiredNotScheduled
<1>2. ASSUME NEW w \in Workers PROVE Cleared(w)'
  <2>1. boot \in [Workers -> Reconciliation] /\ sched \in [Jobs -> Crons \cup {NoCron}]
    BY DEF TInv, TypeOK
  <2>2. CASE /\ boot'[w].pc = boot[w].pc /\ boot'[w].saw = boot[w].saw
             /\ boot'[w].left = boot[w].left
    BY <1>0, <2>2, RetiredNotScheduled DEF Cleared
  <2>3. CASE boot'[w].pc \in {"create", "down", "up"}
    BY <2>3 DEF Cleared
  <2>4. CASE BootCreated(w)
    <3>1. boot'[w] = [boot[w] EXCEPT !.pc = "upsert", !.left = Wanted(w)]
      BY <2>1, <2>4 DEF BootCreated
    <3>2. boot'[w].pc = "upsert" /\ boot'[w].left = Wanted(w)
      BY <1>0, <3>1 DEF Reconciliation
    <3> QED
      BY <3>2 DEF Cleared, Wanted
  <2>5. CASE BootUpsert(w)
    <3>1. CASE boot[w].left = {}
      <4>1. boot'[w] = [boot[w] EXCEPT !.pc = "remove", !.left = Unwanted(w)]
        BY <2>1, <2>5, <3>1 DEF BootUpsert
      <4>2. boot'[w].pc = "remove" /\ boot'[w].left = Unwanted(w) /\ boot'[w].saw = boot[w].saw
        BY <1>0, <4>1 DEF Reconciliation
      <4> QED
        BY <4>2 DEF Cleared, Unwanted, Saw
    <3>2. CASE boot[w].left # {}
      <4>1. PICK j \in boot[w].left : boot' = [boot EXCEPT ![w].left = @ \ {j}]
        BY <2>5, <3>2 DEF BootUpsert
      <4>2. boot'[w] = [boot[w] EXCEPT !.left = @ \ {j}] /\ boot[w].pc = "upsert"
        BY <2>1, <2>5, <4>1 DEF BootUpsert, BootAt
      <4>3. boot'[w].pc = "upsert" /\ boot'[w].left \subseteq boot[w].left
        BY <1>0, <4>2 DEF Reconciliation
      <4> QED
        BY <1>0, <4>2, <4>3 DEF Cleared
    <3> QED
      BY <3>1, <3>2
  <2>6. CASE BootRemove(w)
    <3>1. CASE boot[w].left = {}
      <4>1. boot'[w] = [boot[w] EXCEPT !.pc = "delete"] /\ sched' = sched /\ boot[w].pc = "remove"
        BY <2>1, <2>6, <3>1 DEF BootRemove, BootAt
      <4>2. boot'[w].pc = "delete" /\ boot'[w].saw = boot[w].saw
        BY <1>0, <4>1 DEF Reconciliation
      <4> QED
        BY <1>0, <3>1, <4>1, <4>2 DEF Cleared
    <3>2. CASE boot[w].left # {}
      <4>1. PICK j \in boot[w].left : /\ boot' = [boot EXCEPT ![w].left = @ \ {j}]
                                      /\ sched' = [sched EXCEPT ![j] = NoCron]
        BY <2>6, <3>2 DEF BootRemove, Set
      <4>2. boot'[w] = [boot[w] EXCEPT !.left = @ \ {j}] /\ boot[w].pc = "remove"
        BY <2>1, <2>6, <4>1 DEF BootRemove, BootAt
      <4>3. /\ boot'[w].pc = "remove" /\ boot'[w].saw = boot[w].saw
            /\ boot'[w].left = boot[w].left \ {j}
        BY <1>0, <4>2 DEF Reconciliation
      <4>4. \A i \in Retired : sched'[i] = IF i = j THEN NoCron ELSE sched[i]
        BY <2>1, <4>1 DEF Jobs
      <4> QED
        BY <1>0, <4>2, <4>3, <4>4 DEF Cleared
    <3> QED
      BY <3>1, <3>2
  <2> QED
    BY <2>2, <2>3, <2>4, <2>5, <2>6, BootSteps
<1> QED
  BY <1>1, <1>2 DEF RetiredInv, RetiredIsUnscheduled

\* The scheduler of a retired job goes before its row, for any number of workers
\* that boot, die and boot again, and whatever requests are about.
THEOREM RetiredGoesLast == Spec => []RetiredIsUnscheduled
<1>1. Init => TInv /\ RetiredInv
  <2>1. ASSUME Init PROVE RetiredInv
    <3>1. [enabled |-> TRUE, cron |-> Default] \in Row
      BY JobsAssumption DEF Row
    <3>2. \A j \in Retired : row[j] # NoRow
      BY <2>1, <3>1, JobsAssumption DEF Init, OldRows, Jobs
    <3>3. \A w \in Workers : boot[w].pc = "down"
      BY <2>1 DEF Init, Down
    <3> QED
      BY <3>2, <3>3 DEF RetiredInv, RetiredIsUnscheduled, Cleared
  <2> QED
    BY <2>1, InitType
<1>2. TInv /\ RetiredInv /\ [Next]_vars => TInv' /\ RetiredInv'
  BY NextType, NextAtWork, RetiredStep DEF TInv
<1>3. RetiredInv => RetiredIsUnscheduled
  BY DEF RetiredInv
<1> QED
  BY <1>1, <1>2, <1>3, PTL DEF Spec
-----------------------------------------------------------------------------
(* Pauses. A request that is alone with its job knows what the row says     *)
(* until it ends; a job stays hushed until a request means to enable it.    *)

\* Of a request that is alone no other has the job.
Alone == \A r, q \in Requests : req[r].solo /\ req[q].job = req[r].job => q = r

\* A request that is about to remove the scheduler has disabled the row.
Disabled == \A r \in Requests : req[r].pc = "drop" =>
    /\ ~req[r].enabled
    /\ req[r].solo => ~row[req[r].job].enabled

Hushed == \A j \in hushed :
    /\ row[j] # NoRow /\ ~row[j].enabled
    /\ \A r \in Requests : req[r].job = j => ~req[r].enabled

\* What was taken of a hushed job has not been checked, or could not be.
HushedRuns == \A s \in Slots : exec[s].hushed =>
    /\ exec[s].job \in hushed /\ ~exec[s].manual
    /\ exec[s].pc = "work" => exec[s].blind

QuietInv == Alone /\ Disabled /\ Hushed /\ HushedRuns

\* The row of a job of the catalog is enabled by nobody but the requests.
LEMMA RowsByRequests ==
    ASSUME TInv, NEW w \in Workers, NEW j \in Catalog, row[j] # NoRow,
           BootCreate(w) \/ BootRemove(w) \/ BootDelete(w)
    PROVE  row'[j] = row[j]
<1>1. j \in Jobs /\ j \notin Retired
  BY JobsAssumption DEF Jobs
<1>2. BootCreate(w) => row'[j] = row[j]
  BY <1>1, BootCreates DEF TInv
<1> QED
  BY <1>1, <1>2 DEF BootRemove, RemovedRows, BootDelete

LEMMA BeginsQuiet ==
    ASSUME TInv, QuietInv, NEW r \in Requests, NEW op \in {"pause", "resume", "edit"},
           NEW j \in Catalog, NEW pc \in {"upsert", "store", "drop"}, NEW cron \in Crons \cup {NoCron},
           NEW enabled \in BOOLEAN, Begins(r, op, j, pc, cron, enabled),
           \A i \in Catalog \ {j} : row'[i] = row[i],
           row'[j] # NoRow,
           pc = "drop" => ~enabled /\ ~row'[j].enabled,
           ~enabled => row'[j] = row[j] \/ ~row'[j].enabled
    PROVE  QuietInv'
<1> DEFINE Others == Requests \ {r}
<1>1. /\ req'[r].pc = pc /\ req'[r].job = j /\ req'[r].enabled = enabled
      /\ req'[r].solo = (Busy(j) = {})
  BY DEF Begins
<1>2. \A q \in Others : /\ req'[q].pc = req[q].pc /\ req'[q].job = req[q].job
                        /\ req'[q].enabled = req[q].enabled
                        /\ req'[q].solo => req[q].solo
                        /\ req'[q].solo /\ req[q].pc # "end" => req[q].job # j
  <2> SUFFICES ASSUME NEW q \in Others
               PROVE  /\ req'[q].pc = req[q].pc /\ req'[q].job = req[q].job
                      /\ req'[q].enabled = req[q].enabled
                      /\ req'[q].solo => req[q].solo
                      /\ req'[q].solo /\ req[q].pc # "end" => req[q].job # j
    OBVIOUS
  <2>1. req[q] \in Request
    BY DEF TInv, TypeOK
  <2>2. CASE q \in Busy(j)
    <3>1. req'[q] = [req[q] EXCEPT !.solo = FALSE]
      BY <2>2 DEF Begins
    <3> QED
      BY <2>1, <3>1 DEF Request
  <2>3. CASE q \notin Busy(j)
    <3>1. req'[q] = req[q]
      BY <2>3 DEF Begins
    <3> QED
      BY <2>3, <3>1 DEF Busy
  <2> QED
    BY <2>2, <2>3
<1>3. \A q \in Requests : req[q].pc \in {"new", "end"} => req[q].job = NoJob /\ ~req[q].solo
  BY DEF TInv, AtWork, RequestAtWork
<1>4. j # NoJob
  BY JobsAssumption DEF Jobs
<1>5. Alone'
  <2> SUFFICES ASSUME NEW p \in Requests, NEW q \in Requests, req'[p].solo, req'[q].job = req'[p].job
               PROVE  q = p
    BY DEF Alone
  <2>1. CASE p = r /\ q # r
    <3>1. Busy(j) = {} /\ req[q].job = j
      BY <1>1, <1>2, <2>1
    <3> QED
      BY <1>3, <1>4, <3>1 DEF Busy
  <2>2. CASE p # r /\ q = r
    <3>1. req[p].solo /\ req[p].job = j
      BY <1>1, <1>2, <2>2
    <3> QED
      BY <1>2, <1>3, <2>2, <3>1
  <2>3. CASE p # r /\ q # r
    BY <1>2, <2>3 DEF QuietInv, Alone
  <2> QED
    BY <2>1, <2>2, <2>3
<1>6. Disabled'
  <2> SUFFICES ASSUME NEW q \in Requests, req'[q].pc = "drop"
               PROVE  ~req'[q].enabled /\ (req'[q].solo => ~row'[req'[q].job].enabled)
    BY DEF Disabled
  <2>1. CASE q = r
    BY <1>1, <2>1
  <2>2. CASE q # r
    <3>1. req[q].job \in Catalog
      BY <1>2, <2>2 DEF TInv, AtWork, RequestAtWork
    <3> QED
      BY <1>2, <2>2, <3>1 DEF QuietInv, Disabled
  <2> QED
    BY <2>1, <2>2
<1>7. hushed' = IF enabled THEN hushed \ {j} ELSE hushed
  BY DEF Begins
<1>8. Hushed'
  <2> SUFFICES ASSUME NEW i \in hushed'
               PROVE  /\ row'[i] # NoRow /\ ~row'[i].enabled
                      /\ \A q \in Requests : req'[q].job = i => ~req'[q].enabled
    BY DEF Hushed
  <2>1. i \in hushed /\ i \in Catalog
    BY <1>7 DEF TInv, TypeOK
  <2>2. row[i] # NoRow /\ ~row[i].enabled /\ \A q \in Requests : req[q].job = i => ~req[q].enabled
    BY <2>1 DEF QuietInv, Hushed
  <2>3. CASE i = j
    <3>1. ~enabled
      BY <1>7, <2>3
    <3> QED
      BY <1>1, <1>2, <2>2, <2>3, <3>1
  <2>4. CASE i # j
    BY <1>1, <1>2, <2>1, <2>2, <2>4
  <2> QED
    BY <2>3, <2>4
<1>9. HushedRuns'
  <2> SUFFICES ASSUME NEW s \in Slots, exec'[s].hushed
               PROVE  /\ exec'[s].job \in hushed' /\ ~exec'[s].manual
                      /\ exec'[s].pc = "work" => exec'[s].blind
    BY DEF HushedRuns
  <2>1. exec[s] \in Processor
    BY DEF TInv, TypeOK
  <2>2. exec'[s] = IF enabled /\ exec[s].job = j THEN [exec[s] EXCEPT !.hushed = FALSE] ELSE exec[s]
    BY DEF Begins
  <2>3. ~(enabled /\ exec[s].job = j) /\ exec'[s] = exec[s]
    BY <2>1, <2>2 DEF Processor
  <2> QED
    BY <1>7, <2>3 DEF QuietInv, HushedRuns
<1> QED
  BY <1>5, <1>6, <1>8, <1>9 DEF QuietInv

LEMMA ThenAtQuiet ==
    ASSUME TInv, QuietInv, NEW r \in Requests, NEW pc \in {"store", "drop", "end"}, ThenAt(r, pc),
           req[r].pc \in {"upsert", "store", "drop"},
           \A i \in Catalog \ {req[r].job} : row'[i] = row[i],
           \/ row' = row
           \/ row'[req[r].job] # NoRow /\ row'[req[r].job].enabled = req[r].enabled,
           pc = "drop" => ~req[r].enabled /\ ~row'[req[r].job].enabled,
           \/ hushed' = hushed
           \/ /\ pc = "end" /\ req[r].pc = "drop" /\ row' = row
              /\ req[r].solo /\ hushed' = hushed \cup {req[r].job},
           exec' = exec
    PROVE  QuietInv'
<1> DEFINE job == req[r].job
<1>0. /\ job \in Catalog /\ job # NoJob /\ row[job] # NoRow /\ req \in [Requests -> Request]
      /\ \A q \in Requests : req[q].pc \in {"new", "end"} => req[q].job = NoJob /\ ~req[q].solo
  BY JobsAssumption DEF TInv, TypeOK, AtWork, RequestAtWork, Jobs
<1>1. \A q \in Requests \ {r} : req'[q] = req[q]
  BY <1>0 DEF ThenAt
<1>2. pc = "end" => req'[r].pc = "end" /\ req'[r].job = NoJob /\ ~req'[r].solo /\ ~req'[r].enabled
  BY <1>0 DEF ThenAt, NewReq
<1>3. pc # "end" => /\ req'[r].pc = pc /\ req'[r].job = job /\ req'[r].solo = req[r].solo
                    /\ req'[r].enabled = req[r].enabled
  BY <1>0 DEF ThenAt, Request
<1>4. Alone'
  <2> SUFFICES ASSUME NEW p \in Requests, NEW q \in Requests, req'[p].solo, req'[q].job = req'[p].job
               PROVE  q = p
    BY DEF Alone
  <2>1. req[p].solo /\ req'[p].job = req[p].job
    BY <1>1, <1>2, <1>3
  <2>2. req[p].job # NoJob
    BY <1>0, <2>1, JobsAssumption DEF TInv, TypeOK, AtWork, RequestAtWork, Jobs, Request
  <2>3. req'[q].job = req[q].job
    BY <1>1, <1>2, <1>3, <2>1, <2>2
  <2> QED
    BY <2>1, <2>3 DEF QuietInv, Alone
<1>5. Disabled'
  <2> SUFFICES ASSUME NEW q \in Requests, req'[q].pc = "drop"
               PROVE  ~req'[q].enabled /\ (req'[q].solo => ~row'[req'[q].job].enabled)
    BY DEF Disabled
  <2>1. CASE q = r
    BY <1>2, <1>3, <2>1
  <2>2. CASE q # r
    <3>1. req'[q] = req[q] /\ req[q].job \in Catalog
      BY <1>1, <2>2 DEF TInv, AtWork, RequestAtWork
    <3>2. req[q].solo => req[q].job # job
      BY <2>2 DEF QuietInv, Alone
    <3> QED
      BY <3>1, <3>2 DEF QuietInv, Disabled
  <2> QED
    BY <2>1, <2>2
<1>6. Hushed'
  <2> SUFFICES ASSUME NEW i \in hushed'
               PROVE  /\ row'[i] # NoRow /\ ~row'[i].enabled
                      /\ \A q \in Requests : req'[q].job = i => ~req'[q].enabled
    BY DEF Hushed
  <2>1. CASE i \in hushed
    <3>1. i \in Catalog
      BY <2>1 DEF TInv, TypeOK
    <3>2. row[i] # NoRow /\ ~row[i].enabled /\ \A q \in Requests : req[q].job = i => ~req[q].enabled
      BY <2>1 DEF QuietInv, Hushed
    <3>3. row'[i] # NoRow /\ ~row'[i].enabled
      BY <3>1, <3>2
    <3> QED
      BY <1>1, <1>2, <1>3, <3>2, <3>3
  <2>2. CASE i \notin hushed
    <3>1. i = job /\ pc = "end" /\ req[r].pc = "drop" /\ row' = row /\ req[r].solo
      BY <2>2
    <3>2. row'[i] # NoRow /\ ~row'[i].enabled
      BY <1>0, <3>1 DEF QuietInv, Disabled
    <3>3. \A q \in Requests : req'[q].job # i
      BY <1>0, <1>1, <1>2, <3>1 DEF QuietInv, Alone
    <3> QED
      BY <3>2, <3>3
  <2> QED
    BY <2>1, <2>2
<1>7. HushedRuns'
  BY DEF QuietInv, HushedRuns
<1> QED
  BY <1>4, <1>5, <1>6, <1>7 DEF QuietInv

LEMMA BootsQuiet ==
    ASSUME TInv, QuietInv, req' = req, exec' = exec, hushed' = hushed,
           \A j \in Catalog : row[j] # NoRow => row'[j] = row[j]
    PROVE  QuietInv'
<1>1. Alone' /\ HushedRuns'
  BY DEF QuietInv, Alone, HushedRuns
<1>2. Disabled'
  BY DEF QuietInv, Disabled, TInv, AtWork, RequestAtWork
<1>3. Hushed'
  BY DEF QuietInv, Hushed, TInv, TypeOK
<1> QED
  BY <1>1, <1>2, <1>3 DEF QuietInv

LEMMA RunsQuiet ==
    ASSUME TInv, QuietInv, req' = req, row' = row, hushed' = hushed, HushedRuns'
    PROVE  QuietInv'
BY DEF QuietInv, Alone, Disabled, Hushed

\* A run that is taken is hushed if its job is, and is skipped then by the check.
LEMMA RunsHushed ==
    ASSUME TInv, QuietInv, NEW s \in Slots,
           Take(s) \/ Check(s) \/ CheckBlindly(s) \/ WorkEnds(s) \/ RunStalls(s)
    PROVE  HushedRuns'
<1>0. exec \in [Slots -> Processor] /\ exec[s] \in Processor /\ HushedRuns /\ hushed' = hushed
  BY DEF TInv, TypeOK, QuietInv, Take, Check, CheckBlindly, WorkEnds, RunStalls
<1> SUFFICES ASSUME NEW t \in Slots, exec'[t].hushed
             PROVE  /\ exec'[t].job \in hushed /\ ~exec'[t].manual
                    /\ exec'[t].pc = "work" => exec'[t].blind
  BY <1>0 DEF HushedRuns
<1>1. CASE exec'[t] = exec[t]
  BY <1>0, <1>1 DEF HushedRuns
<1>2. Leave(s) => exec'[t] = exec[t]
  BY <1>0 DEF Leave, Free
<1>3. CASE Take(s)
  <2>1. PICK j \in Jobs, manual \in BOOLEAN :
          exec' = [exec EXCEPT ![s] = [pc |-> "check", job |-> j, manual |-> manual,
                     hushed |-> ~manual /\ j \in hushed, blind |-> FALSE]]
    BY <1>3 DEF Take
  <2>2. CASE t = s
    BY <1>0, <2>1, <2>2
  <2>3. CASE t # s
    BY <1>0, <1>1, <2>1, <2>3
  <2> QED
    BY <2>2, <2>3
<1>4. CASE Check(s) /\ ~Leave(s)
  <2>1. /\ exec[s].job \in Catalog /\ ~Skipped(s)
        /\ exec' = [exec EXCEPT ![s].pc = "work"]
    BY <1>4 DEF Check
  <2>2. CASE t = s
    <3>1. exec[s].hushed
      BY <1>0, <2>1, <2>2 DEF Processor
    <3>2. exec[s].job \in hushed /\ ~exec[s].manual
      BY <1>0, <3>1 DEF HushedRuns
    <3>3. Skipped(s)
      BY <3>2 DEF Skipped, QuietInv, Hushed
    <3> QED
      BY <2>1, <3>3
  <2>3. CASE t # s
    BY <1>0, <1>1, <2>1, <2>3
  <2> QED
    BY <2>2, <2>3
<1>5. CASE CheckBlindly(s)
  <2>1. exec' = [exec EXCEPT ![s].pc = "work", ![s].blind = TRUE]
    BY <1>5 DEF CheckBlindly
  <2>2. CASE t = s
    <3>1. exec'[t] = [exec[s] EXCEPT !.pc = "work", !.blind = TRUE]
      BY <1>0, <2>1, <2>2
    <3>2. /\ exec'[t].hushed = exec[s].hushed /\ exec'[t].job = exec[s].job
          /\ exec'[t].manual = exec[s].manual /\ exec'[t].blind = TRUE
      BY <1>0, <3>1 DEF Processor
    <3> QED
      BY <1>0, <3>2 DEF HushedRuns
  <2>3. CASE t # s
    BY <1>0, <1>1, <2>1, <2>3
  <2> QED
    BY <2>2, <2>3
<1> QED
  BY <1>1, <1>2, <1>3, <1>4, <1>5 DEF WorkEnds, RunStalls

LEMMA QuietStep == TInv /\ QuietInv /\ [Next]_vars => QuietInv'
<1> SUFFICES ASSUME TInv, QuietInv, [Next]_vars PROVE QuietInv'
  OBVIOUS
<1>0. /\ row \in [Jobs -> Row \cup {NoRow}] /\ req \in [Requests -> Request]
      /\ \A j \in Catalog : j \in Jobs
  BY DEF TInv, TypeOK, Jobs
<1>1. ASSUME NEW r \in Requests, NEW j \in Catalog, Pause(r, j) PROVE QuietInv'
  <2>1. row[j] # NoRow /\ row[j] \in Row
    BY <1>0, <1>1 DEF Pause, Begins
  <2>2. row'[j] # NoRow
    BY <2>1, RowsStay
  <2>3. row'[j] = [row[j] EXCEPT !.enabled = FALSE]
    BY <1>0, <1>1 DEF Pause, PausedRow
  <2>4. ~row'[j].enabled
    BY <2>1, <2>3 DEF Row
  <2>5. \A i \in Catalog \ {j} : row'[i] = row[i]
    BY <1>0, <1>1 DEF Pause, PausedRow
  <2>6. Begins(r, "pause", j, "drop", NoCron, FALSE)
    BY <1>1 DEF Pause
  <2> QED
    BY <2>2, <2>4, <2>5, <2>6, BeginsQuiet
<1>2. ASSUME NEW r \in Requests, NEW j \in Catalog, Resume(r, j) PROVE QuietInv'
  <2>1. row[j] # NoRow /\ row[j] \in Row
    BY <1>0, <1>2 DEF Resume, Begins
  <2>2. row'[j] # NoRow
    BY <2>1, RowsStay
  <2>3. \A i \in Catalog \ {j} : row'[i] = row[i]
    BY <1>0, <1>2 DEF Resume
  <2>4. Begins(r, "resume", j, "upsert", row[j].cron, TRUE) /\ row[j].cron \in Crons
    BY <1>2, <2>1 DEF Resume, Row
  <2> QED
    BY <2>2, <2>3, <2>4, BeginsQuiet
<1>3. ASSUME NEW r \in Requests, NEW j \in Catalog, EditRead(r, j) PROVE QuietInv'
  <2>1. PICK c \in Crons, e \in BOOLEAN :
          Begins(r, "edit", j, IF e THEN "upsert" ELSE "store", c, e)
    BY <1>3 DEF EditRead
  <2>2. row' = row /\ row'[j] # NoRow
    BY <1>3, <2>1 DEF EditRead, Begins
  <2>3. CASE e
    <3>1. Begins(r, "edit", j, "upsert", c, e)
      BY <2>1, <2>3
    <3> QED
      BY <2>2, <3>1, BeginsQuiet
  <2>4. CASE ~e
    <3>1. Begins(r, "edit", j, "store", c, e)
      BY <2>1, <2>4
    <3> QED
      BY <2>2, <3>1, BeginsQuiet
  <2> QED
    BY <2>3, <2>4
<1>4. ASSUME NEW r \in Requests, UpsertRefused(r) \/ Drop(r) \/ RequestFails(r) PROVE QuietInv'
  <2>1. ThenAt(r, "end") /\ req[r].pc \in {"upsert", "store", "drop"} /\ row' = row /\ exec' = exec
    BY <1>4 DEF UpsertRefused, Drop, RequestFails, At
  <2>2. \/ hushed' = hushed
        \/ req[r].pc = "drop" /\ req[r].solo /\ hushed' = hushed \cup {req[r].job}
    BY <1>4 DEF UpsertRefused, Drop, RequestFails, At
  <2> QED
    BY <2>1, <2>2, ThenAtQuiet
<1>5. ASSUME NEW r \in Requests, Upsert(r) PROVE QuietInv'
  <2>1. /\ req[r].pc = "upsert" /\ row' = row /\ exec' = exec /\ hushed' = hushed
        /\ ThenAt(r, "store") \/ ThenAt(r, "end")
    BY <1>5 DEF Upsert, At
  <2> QED
    BY <2>1, ThenAtQuiet
<1>6. ASSUME NEW r \in Requests, Store(r) PROVE QuietInv'
  <2> DEFINE stored == [enabled |-> req[r].enabled, cron |-> req[r].cron]
  <2>1. req[r].pc = "store" /\ req[r].job \in Catalog /\ row[req[r].job] # NoRow /\ req[r].enabled \in BOOLEAN
    BY <1>0, <1>6 DEF Store, At, TInv, AtWork, RequestAtWork, Request
  <2>2. row' = [row EXCEPT ![req[r].job] = stored] /\ exec' = exec /\ hushed' = hushed
    BY <1>6 DEF Store
  <2>3. /\ row'[req[r].job].enabled = req[r].enabled /\ row'[req[r].job] # NoRow
        /\ \A i \in Catalog \ {req[r].job} : row'[i] = row[i]
    BY <1>0, <2>1, <2>2, RowsStay
  <2>4. CASE req[r].enabled
    <3>1. ThenAt(r, "end")
      BY <1>6, <2>4 DEF Store
    <3> QED
      BY <2>1, <2>2, <2>3, <3>1, ThenAtQuiet
  <2>5. CASE ~req[r].enabled
    <3>1. ThenAt(r, "drop")
      BY <1>6, <2>5 DEF Store
    <3> QED
      BY <2>1, <2>2, <2>3, <2>5, <3>1, ThenAtQuiet
  <2> QED
    BY <2>4, <2>5
<1>7. ASSUME NEW w \in Workers,
             \/ BootRead(w) \/ BootCreate(w) \/ BootUpsert(w) \/ BootGivesUp(w)
             \/ BootRemove(w) \/ BootDelete(w) \/ BootFails(w)
      PROVE  QuietInv'
  <2>1. req' = req /\ exec' = exec /\ hushed' = hushed
    BY <1>7 DEF BootRead, BootCreate, BootUpsert, BootGivesUp, BootRemove, BootDelete, BootFails
  <2>2. \A j \in Catalog : row[j] # NoRow => row'[j] = row[j]
    BY <1>7, RowsByRequests DEF BootRead, BootUpsert, BootGivesUp, BootFails
  <2> QED
    BY <2>1, <2>2, BootsQuiet
<1>8. ASSUME NEW j \in Jobs, Tick(j) \/ RunNow(j) PROVE QuietInv'
  BY <1>8, BootsQuiet DEF Tick, RunNow
<1>9. ASSUME NEW s \in Slots,
             Take(s) \/ Check(s) \/ CheckBlindly(s) \/ WorkEnds(s) \/ RunStalls(s)
      PROVE  QuietInv'
  <2>1. req' = req /\ row' = row /\ hushed' = hushed
    BY <1>9 DEF Take, Check, CheckBlindly, WorkEnds, RunStalls
  <2> QED
    BY <1>9, <2>1, RunsHushed, RunsQuiet
<1>10. CASE UNCHANGED vars
  BY <1>10, BootsQuiet DEF vars
<1> QED
  BY <1>1, <1>2, <1>3, <1>4, <1>5, <1>6, <1>7, <1>8, <1>9, <1>10 DEF Next

\* Once a pause is answered, with nobody about to enable the job, no run of the
\* scheduler gets to work that could read the row, whatever the reconciliations of
\* any number of workers and the requests for other jobs do meanwhile.
THEOREM PausedQuiet == Spec => []PausedIsQuiet
<1>1. Init => TInv /\ QuietInv
  <2>1. ASSUME Init PROVE QuietInv
    BY <2>1 DEF Init, NewReq, Free, QuietInv, Alone, Disabled, Hushed, HushedRuns
  <2> QED
    BY <2>1, InitType
<1>2. TInv /\ QuietInv /\ [Next]_vars => TInv' /\ QuietInv'
  BY NextType, NextAtWork, QuietStep DEF TInv
<1>3. QuietInv => PausedIsQuiet
  BY DEF QuietInv, HushedRuns, PausedIsQuiet
<1> QED
  BY <1>1, <1>2, <1>3, PTL DEF Spec
-----------------------------------------------------------------------------
(* Rows and schedulers. For each job: as long as every reconciliation at    *)
(* work began while nobody was at the job, all of them want the same of it, *)
(* which is what its row says; and a request that has the job to itself     *)
(* knows how far the two have come apart.                                   *)

NewRow == [enabled |-> TRUE, cron |-> Default]

\* What a reconciliation has left to do is what it saw.
Lefts == \A w \in Workers :
    /\ boot[w].pc = "upsert" => boot[w].left \subseteq Wanted(w)
    /\ boot[w].pc = "remove" => boot[w].left \subseteq Unwanted(w)

\* A reconciliation that mends j is one of those that all mend it, with no
\* request about, and has seen its row or the lack of it.
Mending(w, j) ==
    /\ Busy(j) = {} /\ \A v \in Booting : j \in boot[v].mends
    /\ Saw(w, j) = row[j] \/ (Saw(w, j) = NoRow /\ row[j] = NewRow)
    /\ boot[w].pc # "create" => row[j] # NoRow
    /\ boot[w].pc = "upsert" => (row[j].enabled /\ j \notin boot[w].left => InStepAt(j))
    /\ boot[w].pc = "remove" => (j \notin boot[w].left => InStepAt(j))
    /\ boot[w].pc = "delete" => InStepAt(j)

\* How far the only request of j has got.
Handling(r, j) ==
    /\ \A q \in Requests : req[q].job = j => q = r
    /\ req[r].pc = "drop" => ~row[j].enabled
    /\ req[r].pc = "upsert" => IF req[r].op = "edit" THEN InStepAt(j) /\ req[r].enabled
                               ELSE row[j].enabled /\ row[j].cron = req[r].cron
    /\ req[r].pc = "store" /\ req[r].enabled => sched[j] = req[r].cron

Kept(j) ==
    /\ row[j] # NoRow /\ \A w \in Booting : j \in boot[w].mends
    /\ Busy(j) = {} => InStepAt(j)
    /\ \A r \in Requests : req[r].job = j => Handling(r, j)

StepAt(j) == /\ \A w \in Booting : j \in boot[w].mends => Mending(w, j)
             /\ j \notin apart => Kept(j)
StepInv == Lefts /\ \A j \in Catalog : StepAt(j)

\* A request has a job of the catalog only while it is at work.
LEMMA BusyOnes ==
    ASSUME TInv, NEW j \in Catalog
    PROVE  Busy(j) = {r \in Requests : req[r].job = j}
BY JobsAssumption DEF TInv, AtWork, RequestAtWork, Busy, Jobs, TypeOK, Request

LEMMA BusyOnesNext ==
    ASSUME TInv', NEW j \in Catalog
    PROVE  Busy(j)' = {r \in Requests : req'[r].job = j}
BY JobsAssumption DEF TInv, AtWork, RequestAtWork, Busy, Jobs, TypeOK, Request

\* A step that has nothing to do with j.
LEMMA ElsewhereInStep ==
    ASSUME TInv, TInv', NEW j \in Catalog, StepAt(j),
           row'[j] = row[j], sched'[j] = sched[j], j \in apart => j \in apart',
           \A q \in Requests : (req'[q].job = j) = (req[q].job = j),
           \A q \in Requests : req[q].job = j =>
             /\ req'[q].pc = req[q].pc /\ req'[q].op = req[q].op
             /\ req'[q].cron = req[q].cron /\ req'[q].enabled = req[q].enabled,
           \A w \in Workers : /\ boot'[w].pc = boot[w].pc /\ boot'[w].saw = boot[w].saw
                              /\ boot'[w].left = boot[w].left
                              /\ (j \in boot'[w].mends) = (j \in boot[w].mends)
    PROVE  StepAt(j)'
<1>1. Busy(j)' = Busy(j) /\ Booting' = Booting
  BY BusyOnes, BusyOnesNext DEF Booting
<1>2. InStepAt(j)' = InStepAt(j)
  BY DEF InStepAt
<1>3. ASSUME NEW w \in Booting', j \in boot'[w].mends PROVE Mending(w, j)'
  <2>1. Mending(w, j) /\ w \in Workers
    BY <1>1, <1>3 DEF StepAt, Booting
  <2> QED
    BY <1>1, <1>2, <2>1 DEF Mending, Saw, Booting
<1>4. ASSUME j \notin apart' PROVE Kept(j)'
  <2>1. Kept(j)
    BY <1>4 DEF StepAt
  <2>2. ASSUME NEW r \in Requests, req'[r].job = j PROVE Handling(r, j)'
    <3>1. Handling(r, j) /\ req[r].job = j
      BY <2>1, <2>2 DEF Kept
    <3> QED
      BY <1>2, <3>1 DEF Handling
  <2> QED
    BY <1>1, <1>2, <2>1, <2>2 DEF Kept, Booting
<1> QED
  BY <1>3, <1>4 DEF StepAt

LEMMA BeginsInStep ==
    ASSUME TInv, TInv', NEW r \in Requests, NEW op \in {"pause", "resume", "edit"},
           NEW j \in Catalog, NEW pc \in {"upsert", "store", "drop"}, NEW cron \in Crons \cup {NoCron},
           NEW enabled \in BOOLEAN, Begins(r, op, j, pc, cron, enabled), sched' = sched,
           NEW i \in Catalog, StepAt(i), i # j => row'[i] = row[i],
           row'[j] # NoRow,
           pc = "drop" => ~row'[j].enabled,
           pc = "upsert" => IF op = "edit" THEN row' = row /\ enabled
                            ELSE row'[j].enabled /\ row'[j].cron = cron,
           pc = "store" => ~enabled
    PROVE  StepAt(i)'
<1>0. /\ \A q \in Requests : req[q] \in Request
      /\ \A w \in Workers : boot[w] \in Reconciliation
  BY DEF TInv, TypeOK
<1>1. \A w \in Workers : boot'[w] = [boot[w] EXCEPT !.mends = @ \ {j}]
  BY DEF Begins
<1>2. \A w \in Workers : /\ boot'[w].pc = boot[w].pc /\ boot'[w].saw = boot[w].saw
                         /\ boot'[w].left = boot[w].left /\ boot'[w].mends = boot[w].mends \ {j}
  BY <1>0, <1>1 DEF Reconciliation
<1>3. /\ req'[r].pc = pc /\ req'[r].job = j /\ req'[r].op = op
      /\ req'[r].cron = cron /\ req'[r].enabled = enabled
  BY DEF Begins
<1>4. \A q \in Requests \ {r} :
        /\ req'[q].pc = req[q].pc /\ req'[q].job = req[q].job /\ req'[q].op = req[q].op
        /\ req'[q].cron = req[q].cron /\ req'[q].enabled = req[q].enabled
  <2> SUFFICES ASSUME NEW q \in Requests \ {r}
               PROVE  /\ req'[q].pc = req[q].pc /\ req'[q].job = req[q].job /\ req'[q].op = req[q].op
                      /\ req'[q].cron = req[q].cron /\ req'[q].enabled = req[q].enabled
    OBVIOUS
  <2>1. req'[q] \in {req[q], [req[q] EXCEPT !.solo = FALSE]}
    BY DEF Begins
  <2> QED
    BY <1>0, <2>1 DEF Request
<1>5. req[r].job = NoJob /\ NoJob # i /\ NoJob # j
  BY JobsAssumption DEF Begins, At, TInv, AtWork, RequestAtWork, Jobs
<1>6. apart' = IF Busy(j) \cup Booting = {} THEN apart ELSE apart \cup {j}
  BY DEF Begins
<1>7. CASE i # j
  <2>1. \A q \in Requests : (req'[q].job = i) = (req[q].job = i)
    BY <1>3, <1>4, <1>5, <1>7
  <2>2. \A q \in Requests : req[q].job = i => q # r
    BY <1>5
  <2> QED
    BY <1>2, <1>4, <1>6, <1>7, <2>1, <2>2, ElsewhereInStep
<1>8. CASE i = j
  <2>1. \A w \in Workers : j \notin boot'[w].mends
    BY <1>2
  <2>2. ASSUME j \notin apart' PROVE Kept(j)'
    <3>1. Busy(j) = {} /\ Booting = {} /\ Kept(j)
      BY <1>6, <1>8, <2>2 DEF StepAt
    <3>2. Booting' = {}
      BY <1>2, <3>1 DEF Booting
    <3>3. \A q \in Requests : req'[q].job = j => q = r
      BY <1>4, <3>1, BusyOnes
    <3>4. InStepAt(j)
      BY <3>1 DEF Kept
    <3>5. row' = row => InStepAt(j)'
      BY <3>4 DEF InStepAt
    <3>6. Handling(r, j)'
      BY <1>3, <3>3, <3>5 DEF Handling
    <3>7. r \in Busy(j)'
      BY <1>3, BusyOnesNext
    <3> QED
      BY <3>2, <3>3, <3>6, <3>7 DEF Kept
  <2> QED
    BY <1>8, <2>1, <2>2 DEF StepAt, Booting
<1> QED
  BY <1>7, <1>8

\* The rest of a request. Nobody mends its job.
LEMMA ThenAtInStep ==
    ASSUME TInv, TInv', NEW r \in Requests, NEW pc \in {"store", "drop", "end"}, ThenAt(r, pc),
           req[r].pc \in {"upsert", "store", "drop"}, boot' = boot,
           NEW i \in Catalog, StepAt(i),
           i # req[r].job => row'[i] = row[i] /\ sched'[i] = sched[i] /\ (i \in apart => i \in apart'),
           i = req[r].job /\ i \notin apart' =>
             /\ i \notin apart
             /\ Handling(r, i) =>
                  /\ row'[i] # NoRow
                  /\ pc = "end" => InStepAt(i)'
                  /\ pc = "drop" => ~row'[i].enabled
                  /\ pc = "store" /\ req[r].enabled => sched'[i] = req[r].cron
    PROVE  StepAt(i)'
<1>0. /\ req \in [Requests -> Request] /\ req[r] \in Request /\ req[r].job \in Catalog
      /\ NoJob # i
  BY JobsAssumption DEF TInv, TypeOK, AtWork, RequestAtWork, Jobs
<1>1. \A q \in Requests \ {r} : req'[q] = req[q]
  BY <1>0 DEF ThenAt
<1>2. pc = "end" => req'[r].pc = "end" /\ req'[r].job = NoJob
  BY <1>0 DEF ThenAt, NewReq
<1>3. pc # "end" => /\ req'[r].pc = pc /\ req'[r].job = req[r].job /\ req'[r].op = req[r].op
                    /\ req'[r].cron = req[r].cron /\ req'[r].enabled = req[r].enabled
  BY <1>0 DEF ThenAt, Request
<1>4. CASE i # req[r].job
  <2>1. \A q \in Requests : (req'[q].job = i) = (req[q].job = i)
    BY <1>0, <1>1, <1>2, <1>3, <1>4
  <2>2. \A q \in Requests : req[q].job = i => req'[q] = req[q]
    BY <1>1, <1>4
  <2> QED
    BY <1>4, <2>1, <2>2, ElsewhereInStep
<1>5. CASE i = req[r].job
  <2>1. r \in Busy(i)
    BY <1>5, BusyOnes
  <2>2. Booting' = Booting /\ \A w \in Booting : i \notin boot[w].mends
    BY <2>1 DEF StepAt, Mending, Booting
  <2>3. ASSUME i \notin apart' PROVE Kept(i)'
    <3>1. Kept(i) /\ Handling(r, i)
      BY <1>5, <2>3 DEF StepAt, Kept
    <3>2. Booting' = {}
      BY <2>2, <3>1 DEF Kept
    <3>3. \A q \in Requests : req'[q].job = i => q = r /\ pc # "end"
      BY <1>0, <1>1, <1>2, <3>1 DEF Handling
    <3>4. \A q \in Requests : req'[q].job = i => Handling(q, i)'
      BY <1>3, <1>5, <2>3, <3>1, <3>3 DEF Handling
    <3>5. Busy(i)' = {} => InStepAt(i)'
      <4>1. pc # "end" => r \in Busy(i)'
        BY <1>3, <1>5, BusyOnesNext
      <4> QED
        BY <1>5, <2>3, <3>1, <4>1
    <3> QED
      BY <1>5, <2>3, <3>1, <3>2, <3>4, <3>5 DEF Kept
  <2> QED
    BY <2>2, <2>3 DEF StepAt
<1> QED
  BY <1>4, <1>5

LEMMA LeftsStep == TInv /\ Lefts /\ [Next]_vars => Lefts'
<1> SUFFICES ASSUME TInv, Lefts, [Next]_vars, NEW w \in Workers
             PROVE  /\ boot'[w].pc = "upsert" => boot'[w].left \subseteq Wanted(w)'
                    /\ boot'[w].pc = "remove" => boot'[w].left \subseteq Unwanted(w)'
  BY DEF Lefts
<1>0. boot \in [Workers -> Reconciliation] /\ boot[w] \in Reconciliation
  BY DEF TInv, TypeOK
<1>1. boot'[w].saw = boot[w].saw => Wanted(w)' = Wanted(w) /\ Unwanted(w)' = Unwanted(w)
  BY DEF Wanted, Unwanted, Saw
<1>2. CASE /\ boot'[w].pc = boot[w].pc /\ boot'[w].saw = boot[w].saw
           /\ boot'[w].left = boot[w].left
  BY <1>1, <1>2 DEF Lefts
<1>3. CASE boot'[w].pc \in {"create", "down", "up"}
  BY <1>3
<1>4. CASE BootCreated(w)
  <2>1. boot'[w] = [boot[w] EXCEPT !.pc = "upsert", !.left = Wanted(w)]
    BY <1>0, <1>4 DEF BootCreated
  <2>2. boot'[w].pc = "upsert" /\ boot'[w].left = Wanted(w) /\ boot'[w].saw = boot[w].saw
    BY <1>0, <2>1 DEF Reconciliation
  <2> QED
    BY <1>1, <2>2
<1>5. ASSUME NEW i \in boot[w].left, boot'[w] = [boot[w] EXCEPT !.left = @ \ {i}]
      PROVE  /\ boot'[w].pc = boot[w].pc /\ boot'[w].saw = boot[w].saw
             /\ boot'[w].left \subseteq boot[w].left
  BY <1>0, <1>5 DEF Reconciliation
<1>6. CASE BootUpsert(w)
  <2>1. CASE boot[w].left = {}
    <3>1. boot'[w] = [boot[w] EXCEPT !.pc = "remove", !.left = Unwanted(w)]
      BY <1>0, <1>6, <2>1 DEF BootUpsert
    <3>2. boot'[w].pc = "remove" /\ boot'[w].left = Unwanted(w) /\ boot'[w].saw = boot[w].saw
      BY <1>0, <3>1 DEF Reconciliation
    <3> QED
      BY <1>1, <3>2
  <2>2. CASE boot[w].left # {}
    <3>1. PICK i \in boot[w].left : boot'[w] = [boot[w] EXCEPT !.left = @ \ {i}]
      BY <1>0, <1>6, <2>2 DEF BootUpsert
    <3> QED
      BY <1>1, <1>5, <3>1 DEF Lefts
  <2> QED
    BY <2>1, <2>2
<1>7. CASE BootRemove(w)
  <2>1. CASE boot[w].left = {}
    <3>1. boot'[w] = [boot[w] EXCEPT !.pc = "delete"]
      BY <1>0, <1>7, <2>1 DEF BootRemove
    <3> QED
      BY <1>0, <3>1 DEF Reconciliation
  <2>2. CASE boot[w].left # {}
    <3>1. PICK i \in boot[w].left : boot'[w] = [boot[w] EXCEPT !.left = @ \ {i}]
      BY <1>0, <1>7, <2>2 DEF BootRemove
    <3> QED
      BY <1>1, <1>5, <3>1 DEF Lefts
  <2> QED
    BY <2>1, <2>2
<1> QED
  BY <1>2, <1>3, <1>4, <1>6, <1>7, BootSteps

\* A reconciliation that mends j goes on with it, or leaves the mending to others:
\* nobody else moves, and the row of j does not either.
LEMMA BootInStep ==
    ASSUME TInv, TInv', NEW w \in Workers, NEW j \in Catalog, StepAt(j), req' = req,
           \A v \in Workers \ {w} : boot'[v] = boot[v],
           row'[j] = row[j], j \in apart => j \in apart' \/ (row[j] # NoRow /\ Mending(w, j)
                                                             /\ \A v \in Booting : j \in boot[v].mends),
           \/ sched'[j] = sched[j]
           \/ w \in Booting /\ (j \in boot[w].mends => InStepAt(j)'),
           w \in Booting' => /\ w \in Booting /\ boot'[w].saw = boot[w].saw
                             /\ boot'[w].mends = boot[w].mends,
           w \in Booting' /\ Mending(w, j) =>
             /\ boot'[w].pc # "create" => row[j] # NoRow
             /\ boot'[w].pc = "upsert" => (row[j].enabled /\ j \notin boot'[w].left => InStepAt(j)')
             /\ boot'[w].pc = "remove" => (j \notin boot'[w].left => InStepAt(j)')
             /\ boot'[w].pc = "delete" => InStepAt(j)',
           j \in apart /\ j \notin apart' => InStepAt(j)'
    PROVE  StepAt(j)'
<1>1. Busy(j)' = Busy(j) /\ Booting' \subseteq Booting
  BY BusyOnes, BusyOnesNext DEF Booting
<1>2. \A v \in Booting' : boot'[v].mends = boot[v].mends
  BY DEF Booting
<1>3. (\E v \in Booting : j \in boot[v].mends) => (InStepAt(j) => InStepAt(j)')
  <2>1. ASSUME NEW v \in Booting, j \in boot[v].mends, w \in Booting PROVE j \in boot[w].mends
    BY <2>1 DEF StepAt, Mending
  <2> QED
    BY <2>1 DEF InStepAt
<1>4. ASSUME NEW v \in Booting', j \in boot'[v].mends PROVE Mending(v, j)'
  <2>1. Mending(v, j)
    BY <1>1, <1>2, <1>4 DEF StepAt
  <2>2. v \in Workers /\ InStepAt(j) => InStepAt(j)'
    BY <1>1, <1>2, <1>3, <1>4
  <2>3. Busy(j)' = {} /\ \A u \in Booting' : j \in boot'[u].mends
    BY <1>1, <1>2, <2>1 DEF Mending
  <2>4. CASE v = w
    BY <1>4, <2>1, <2>3, <2>4 DEF Mending, Saw
  <2>5. CASE v # w
    <3>1. boot'[v] = boot[v]
      BY <2>5 DEF Booting
    <3> QED
      BY <2>1, <2>2, <2>3, <3>1 DEF Mending, Saw, Booting
  <2> QED
    BY <2>4, <2>5
<1>5. ASSUME j \notin apart' PROVE Kept(j)'
  <2>1. CASE j \in apart
    <3>1. Busy(j) = {} /\ row[j] # NoRow /\ \A v \in Booting : j \in boot[v].mends
      BY <1>5, <2>1 DEF Mending
    <3>2. \A r \in Requests : req'[r].job # j
      BY <3>1, BusyOnes
    <3> QED
      BY <1>1, <1>2, <1>5, <2>1, <3>1, <3>2 DEF Kept
  <2>2. CASE j \notin apart
    <3>1. Kept(j)
      BY <2>2 DEF StepAt
    <3>2. CASE \E v \in Booting : j \in boot[v].mends
      <4>1. Busy(j) = {}
        BY <3>2 DEF StepAt, Mending
      <4>2. \A r \in Requests : req'[r].job # j
        BY <4>1, BusyOnes
      <4> QED
        BY <1>1, <1>2, <1>3, <3>1, <3>2, <4>1, <4>2 DEF Kept
    <3>3. CASE Booting = {}
      <4>1. InStepAt(j)' = InStepAt(j) /\ sched'[j] = sched[j]
        BY <3>3 DEF InStepAt
      <4>2. \A r \in Requests : req[r].job = j => Handling(r, j)'
        BY <3>1, <4>1 DEF Kept, Handling
      <4> QED
        BY <1>1, <3>1, <3>3, <4>1, <4>2 DEF Kept
    <3> QED
      BY <3>1, <3>2, <3>3 DEF Kept
  <2> QED
    BY <2>1, <2>2
<1> QED
  BY <1>4, <1>5 DEF StepAt

LEMMA BootReadInStep ==
    ASSUME TInv, TInv', NEW w \in Workers, NEW j \in Catalog, StepAt(j), BootRead(w)
    PROVE  StepAt(j)'
<1> DEFINE M == {i \in Catalog : Busy(i) = {} /\ \A v \in Booting : i \in boot[v].mends}
<1>0. boot \in [Workers -> Reconciliation] /\ w \notin Booting
  BY DEF TInv, TypeOK, BootRead, BootAt, Booting
<1>1. boot' = [boot EXCEPT ![w] = [pc |-> "create", saw |-> row, left |-> {}, mends |-> M]]
  BY DEF BootRead
<1>2. boot'[w].pc = "create" /\ boot'[w].saw = row /\ boot'[w].mends = M
  <2> HIDE DEF M
  <2> QED
    BY <1>0, <1>1
<1>3. \A v \in Workers \ {w} : boot'[v] = boot[v]
  BY <1>0, <1>1
<1>4. row' = row /\ req' = req /\ sched' = sched /\ apart' = apart \cup {i \in Catalog : Busy(i) # {}}
  BY DEF BootRead
<1>5. Busy(j)' = Busy(j) /\ Booting' = Booting \cup {w}
  BY <1>2, <1>3, <1>4, BusyOnes, BusyOnesNext DEF Booting
<1>6. InStepAt(j)' = InStepAt(j)
  BY <1>4 DEF InStepAt
<1>7. j \in M => \A v \in Booting' : j \in boot'[v].mends
  BY <1>0, <1>2, <1>3, <1>5 DEF Booting
<1>8. ASSUME NEW v \in Booting', j \in boot'[v].mends PROVE Mending(v, j)'
  <2>1. CASE v = w
    <3>1. Busy(j)' = {} /\ \A u \in Booting' : j \in boot'[u].mends
      BY <1>2, <1>5, <1>7, <1>8, <2>1
    <3> QED
      BY <1>2, <1>4, <2>1, <3>1 DEF Mending, Saw
  <2>2. CASE v # w
    <3>1. v \in Booting /\ boot'[v] = boot[v] /\ Mending(v, j)
      BY <1>3, <1>5, <1>8, <2>2 DEF StepAt, Booting
    <3>2. j \in M
      BY <3>1 DEF Mending
    <3>3. \A u \in Booting' : j \in boot'[u].mends
      BY <1>7, <3>2
    <3> QED
      BY <1>4, <1>5, <1>6, <3>1, <3>3 DEF Mending, Saw
  <2> QED
    BY <2>1, <2>2
<1>9. ASSUME j \notin apart' PROVE Kept(j)'
  <2>1. Busy(j) = {} /\ Kept(j)
    BY <1>4, <1>9 DEF StepAt
  <2>2. j \in M
    BY <2>1 DEF Kept
  <2>3. \A r \in Requests : req'[r].job # j
    BY <1>4, <2>1, BusyOnes
  <2> QED
    BY <1>4, <1>5, <1>6, <1>7, <2>1, <2>2, <2>3 DEF Kept
<1> QED
  BY <1>8, <1>9 DEF StepAt

\* Creating the rows that are missing shows no mended scheduler a new row.
LEMMA BootCreateInStep ==
    ASSUME TInv, TInv', NEW w \in Workers, NEW j \in Catalog, StepAt(j), BootCreate(w)
    PROVE  StepAt(j)'
<1>0. boot \in [Workers -> Reconciliation] /\ w \in Booting /\ j \in Jobs
  BY DEF TInv, TypeOK, BootCreate, BootAt, Booting, Jobs
<1>1. \/ boot' = boot
      \/ /\ boot' = [boot EXCEPT ![w].pc = "upsert", ![w].left = Wanted(w)] /\ row' = row
         /\ \A i \in Missing(w) : row[i] # NoRow
  BY DEF BootCreate
<1>2. /\ boot[w].pc = "create"
      /\ boot'[w].saw = boot[w].saw /\ boot'[w].mends = boot[w].mends
      /\ \/ boot'[w].pc = "create"
         \/ /\ boot'[w].pc = "upsert" /\ boot'[w].left = Wanted(w)
            /\ row' = row /\ \A i \in Missing(w) : row[i] # NoRow
  <2>1. CASE boot' = boot
    BY <2>1 DEF BootCreate, BootAt
  <2>2. CASE boot' # boot
    <3>1. boot'[w] = [boot[w] EXCEPT !.pc = "upsert", !.left = Wanted(w)]
      BY <1>0, <1>1, <2>2
    <3> QED
      BY <1>0, <1>1, <2>2, <3>1 DEF BootCreate, BootAt, Reconciliation
  <2> QED
    BY <2>1, <2>2
<1>3. \A v \in Workers \ {w} : boot'[v] = boot[v]
  BY <1>0, <1>1
<1>4. req' = req /\ sched' = sched /\ apart' = apart
  BY DEF BootCreate
<1>5. row'[j] = row[j] \/ (j \in Missing(w) /\ row[j] = NoRow /\ row'[j] = NewRow)
  BY <1>0, BootCreates DEF NewRow, TInv
<1>6. NewRow # NoRow /\ NewRow.enabled
  <2>1. NewRow \in Row /\ NewRow.enabled = TRUE
    BY JobsAssumption DEF NewRow, Row
  <2> QED
    BY <2>1, JobsAssumption
<1>7. Busy(j)' = Busy(j) /\ Booting' = Booting
  BY <1>0, <1>2, <1>3, <1>4, BusyOnes, BusyOnesNext DEF Booting
<1>8. row[j] # NoRow => row'[j] = row[j] /\ InStepAt(j)' = InStepAt(j)
  BY <1>4, <1>5 DEF InStepAt
<1>9. \A v \in Booting : boot'[v].mends = boot[v].mends
  BY <1>2, <1>3 DEF Booting
<1>10. ASSUME NEW v \in Booting', j \in boot'[v].mends PROVE Mending(v, j)'
  <2>1. Mending(v, j) /\ j \in boot[w].mends /\ v \in Workers
    BY <1>0, <1>7, <1>9, <1>10 DEF StepAt, Mending, Booting
  <2>2. Mending(w, j)
    BY <1>0, <2>1 DEF StepAt
  <2>3. Busy(j)' = {} /\ \A u \in Booting' : j \in boot'[u].mends
    BY <1>7, <1>9, <2>1 DEF Mending
  <2>4. CASE v = w
    <3>1. boot'[w].pc # "create" => row'[j] = row[j] /\ row[j] # NoRow
      BY <1>2, <2>2 DEF Mending, Missing
    <3>2. row'[j].enabled /\ row'[j] # NoRow => j \in Wanted(w)
      BY <1>5, <1>6, <2>2 DEF Mending, Wanted, Missing
    <3>3. Saw(w, j) = row'[j] \/ (Saw(w, j) = NoRow /\ row'[j] = NewRow)
      BY <1>5, <2>2 DEF Mending, Missing
    <3> QED
      BY <1>2, <1>6, <2>3, <2>4, <3>1, <3>2, <3>3 DEF Mending, Saw
  <2>5. CASE v # w
    <3>1. boot'[v] = boot[v]
      BY <1>3, <2>1, <2>5
    <3>2. CASE row[j] # NoRow
      BY <1>8, <2>1, <2>3, <3>1, <3>2 DEF Mending, Saw, NewRow
    <3>3. CASE row[j] = NoRow
      <4>1. boot[v].pc = "create" /\ Saw(v, j) = NoRow
        BY <1>6, <2>1, <3>3 DEF Mending
      <4>2. row'[j] = NoRow \/ row'[j] = NewRow
        BY <1>5, <3>3
      <4> QED
        BY <2>3, <3>1, <4>1, <4>2 DEF Mending, Saw, NewRow
    <3> QED
      BY <3>2, <3>3
  <2> QED
    BY <2>4, <2>5
<1>11. ASSUME j \notin apart' PROVE Kept(j)'
  <2>1. Kept(j) /\ row[j] # NoRow
    BY <1>4, <1>11 DEF StepAt, Kept
  <2>2. \A r \in Requests : req[r].job = j => Handling(r, j)'
    BY <1>4, <1>8, <2>1 DEF Kept, Handling
  <2> QED
    BY <1>4, <1>7, <1>8, <1>9, <2>1, <2>2 DEF Kept
<1> QED
  BY <1>10, <1>11 DEF StepAt

LEMMA BootSchedulesInStep ==
    ASSUME TInv, TInv', Lefts, NEW w \in Workers, NEW j \in Catalog, StepAt(j),
           BootUpsert(w) \/ BootRemove(w)
    PROVE  StepAt(j)'
<1>0. /\ boot \in [Workers -> Reconciliation] /\ boot[w] \in Reconciliation /\ w \in Booting
      /\ sched \in [Jobs -> Crons \cup {NoCron}] /\ j \in Jobs /\ j \notin Retired
  BY JobsAssumption DEF TInv, TypeOK, BootUpsert, BootRemove, BootAt, Booting, Jobs
<1>1. req' = req /\ row' = row /\ apart' = apart
  BY DEF BootUpsert, BootRemove, RemovedRows
<1>2. \A v \in Workers \ {w} : boot'[v] = boot[v]
  BY <1>0 DEF BootUpsert, BootRemove
<1>3. CASE boot[w].left = {}
  <2>1. sched' = sched
    BY <1>3 DEF BootUpsert, BootRemove
  <2>2. InStepAt(j)' = InStepAt(j)
    BY <1>1, <2>1 DEF InStepAt
  <2>3. CASE BootUpsert(w)
    <3>1. boot'[w] = [boot[w] EXCEPT !.pc = "remove", !.left = Unwanted(w)] /\ boot[w].pc = "upsert"
      BY <1>0, <1>3, <2>3 DEF BootUpsert, BootAt
    <3>2. /\ boot'[w].pc = "remove" /\ boot'[w].left = Unwanted(w)
          /\ boot'[w].saw = boot[w].saw /\ boot'[w].mends = boot[w].mends
      BY <1>0, <3>1 DEF Reconciliation
    <3>3. Mending(w, j) => row[j] # NoRow /\ (row[j].enabled => InStepAt(j))
      BY <1>3, <3>1 DEF Mending
    <3>4. Mending(w, j) /\ j \notin Unwanted(w) => row[j].enabled
      BY <1>0, <3>3 DEF Mending, Unwanted, NewRow
    <3> QED
      BY <1>0, <1>1, <1>2, <2>1, <2>2, <3>2, <3>3, <3>4, BootInStep
  <2>4. CASE BootRemove(w)
    <3>1. boot'[w] = [boot[w] EXCEPT !.pc = "delete"] /\ boot[w].pc = "remove"
      BY <1>0, <1>3, <2>4 DEF BootRemove, BootAt
    <3>2. /\ boot'[w].pc = "delete" /\ boot'[w].saw = boot[w].saw /\ boot'[w].mends = boot[w].mends
      BY <1>0, <3>1 DEF Reconciliation
    <3>3. Mending(w, j) => row[j] # NoRow /\ InStepAt(j)
      BY <1>3, <3>1 DEF Mending
    <3> QED
      BY <1>0, <1>1, <1>2, <2>1, <2>2, <3>2, <3>3, BootInStep
  <2> QED
    BY <2>3, <2>4
<1>4. CASE boot[w].left # {}
  <2>1. PICK i \in boot[w].left :
          /\ boot' = [boot EXCEPT ![w].left = @ \ {i}]
          /\ \/ boot[w].pc = "upsert" /\ sched' = [sched EXCEPT ![i] = CronOf(w, i)]
             \/ boot[w].pc = "remove" /\ sched' = [sched EXCEPT ![i] = NoCron]
    BY <1>4 DEF BootUpsert, BootRemove, BootAt, Set
  <2>2. boot'[w] = [boot[w] EXCEPT !.left = @ \ {i}]
    BY <1>0, <2>1
  <2>3. /\ boot'[w].pc = boot[w].pc /\ boot'[w].left = boot[w].left \ {i}
        /\ boot'[w].saw = boot[w].saw /\ boot'[w].mends = boot[w].mends
    BY <1>0, <2>2 DEF Reconciliation
  <2>4. CASE i # j
    <3>1. sched'[j] = sched[j]
      BY <1>0, <2>1, <2>4
    <3>2. InStepAt(j)' = InStepAt(j)
      BY <1>1, <3>1 DEF InStepAt
    <3>3. Mending(w, j) =>
            /\ boot'[w].pc # "create" => row[j] # NoRow
            /\ boot'[w].pc = "upsert" => (row[j].enabled /\ j \notin boot'[w].left => InStepAt(j)')
            /\ boot'[w].pc = "remove" => (j \notin boot'[w].left => InStepAt(j)')
            /\ boot'[w].pc = "delete" => InStepAt(j)'
      BY <2>3, <2>4, <3>2 DEF Mending
    <3> QED
      BY <1>0, <1>1, <1>2, <2>3, <3>1, <3>3, BootInStep
  <2>5. CASE i = j
    <3>1. ASSUME Mending(w, j) PROVE row[j] # NoRow /\ InStepAt(j)'
      <4>1. row[j] # NoRow
        BY <2>1, <3>1 DEF Mending
      <4>2. CASE boot[w].pc = "upsert"
        <5>1. j \in Wanted(w) /\ sched'[j] = CronOf(w, j)
          BY <1>0, <2>1, <2>5, <4>2 DEF Lefts
        <5> QED
          BY <1>1, <3>1, <4>1, <5>1 DEF InStepAt, Mending, Wanted, CronOf, NewRow
      <4>3. CASE boot[w].pc = "remove"
        <5>1. j \in Unwanted(w) /\ sched'[j] = NoCron
          BY <1>0, <2>1, <2>5, <4>3 DEF Lefts
        <5> QED
          BY <1>0, <1>1, <3>1, <4>1, <5>1 DEF InStepAt, Mending, Unwanted
      <4> QED
        BY <2>1, <4>1, <4>2, <4>3
    <3>2. j \in boot[w].mends => Mending(w, j)
      BY <1>0 DEF StepAt
    <3>3. boot'[w].pc \in {"upsert", "remove"}
      BY <2>1, <2>3
    <3> QED
      BY <1>0, <1>1, <1>2, <2>3, <3>1, <3>2, <3>3, BootInStep
  <2> QED
    BY <2>4, <2>5
<1> QED
  BY <1>3, <1>4

LEMMA BootEndsInStep ==
    ASSUME TInv, TInv', NEW w \in Workers, NEW j \in Catalog, StepAt(j),
           BootGivesUp(w) \/ BootDelete(w) \/ BootFails(w)
    PROVE  StepAt(j)'
<1>0. /\ boot \in [Workers -> Reconciliation] /\ row \in [Jobs -> Row \cup {NoRow}]
      /\ j \in Jobs /\ j \notin Retired
  BY JobsAssumption DEF TInv, TypeOK, Jobs
<1>1. req' = req /\ sched' = sched /\ row'[j] = row[j]
  BY <1>0 DEF BootGivesUp, BootDelete, BootFails
<1>2. InStepAt(j)' = InStepAt(j)
  BY <1>1 DEF InStepAt
<1>3. \A v \in Workers \ {w} : boot'[v] = boot[v]
  BY <1>0 DEF BootGivesUp, BootDelete, BootFails
<1>4. w \notin Booting'
  <2>1. boot'[w] \in {Up, Down}
    BY <1>0 DEF BootGivesUp, BootDelete, BootFails
  <2> QED
    BY <2>1 DEF Booting, Up, Down
<1>5. ASSUME j \in apart, j \notin apart'
      PROVE  row[j] # NoRow /\ Mending(w, j) /\ (\A v \in Booting : j \in boot[v].mends) /\ InStepAt(j)
  <2>1. BootDelete(w) /\ j \in boot[w].mends
    BY <1>5 DEF BootGivesUp, BootDelete, BootFails
  <2>2. Mending(w, j) /\ boot[w].pc = "delete"
    BY <2>1 DEF BootDelete, BootAt, Booting, StepAt
  <2> QED
    BY <2>2 DEF Mending
<1> QED
  BY <1>1, <1>2, <1>3, <1>4, <1>5, BootInStep

LEMMA RequestsInStep ==
    ASSUME TInv, TInv', [Next]_vars, NEW r \in Requests, NEW i \in Catalog, StepAt(i),
           \/ \E j \in Catalog : Pause(r, j) \/ Resume(r, j) \/ EditRead(r, j)
           \/ Upsert(r) \/ UpsertRefused(r) \/ Store(r) \/ Drop(r) \/ RequestFails(r)
    PROVE  StepAt(i)'
<1>0. /\ row \in [Jobs -> Row \cup {NoRow}] /\ sched \in [Jobs -> Crons \cup {NoCron}]
      /\ req[r] \in Request /\ i \in Jobs /\ \A j \in Catalog : j \in Jobs
  BY DEF TInv, TypeOK, Jobs
<1>1. ASSUME NEW j \in Catalog, Pause(r, j) PROVE StepAt(i)'
  <2>1. row[j] # NoRow /\ row[j] \in Row /\ row'[j] # NoRow
    BY <1>0, <1>1, RowsStay DEF Pause, Begins
  <2>2. row'[j] = [row[j] EXCEPT !.enabled = FALSE] /\ (i # j => row'[i] = row[i])
    BY <1>0, <1>1 DEF Pause, PausedRow
  <2>3. ~row'[j].enabled
    BY <2>1, <2>2 DEF Row
  <2>4. Begins(r, "pause", j, "drop", NoCron, FALSE) /\ sched' = sched
    BY <1>1 DEF Pause
  <2> QED
    BY <2>1, <2>2, <2>3, <2>4, BeginsInStep
<1>2. ASSUME NEW j \in Catalog, Resume(r, j) PROVE StepAt(i)'
  <2>1. row[j] # NoRow /\ row[j] \in Row /\ row'[j] # NoRow
    BY <1>0, <1>2, RowsStay DEF Resume, Begins
  <2>2. row'[j] = [row[j] EXCEPT !.enabled = TRUE] /\ (i # j => row'[i] = row[i])
    BY <1>0, <1>2 DEF Resume
  <2>3. row'[j].enabled /\ row'[j].cron = row[j].cron /\ row[j].cron \in Crons
    BY <2>1, <2>2 DEF Row
  <2>4. Begins(r, "resume", j, "upsert", row[j].cron, TRUE) /\ sched' = sched
    BY <1>2 DEF Resume
  <2> QED
    BY <2>1, <2>2, <2>3, <2>4, BeginsInStep
<1>3. ASSUME NEW j \in Catalog, EditRead(r, j) PROVE StepAt(i)'
  <2>1. PICK c \in Crons, e \in BOOLEAN :
          Begins(r, "edit", j, IF e THEN "upsert" ELSE "store", c, e)
    BY <1>3 DEF EditRead
  <2>2. row' = row /\ row'[j] # NoRow /\ sched' = sched
    BY <1>3, <2>1 DEF EditRead, Begins
  <2>3. CASE e
    <3>1. Begins(r, "edit", j, "upsert", c, e)
      BY <2>1, <2>3
    <3> QED
      BY <2>2, <2>3, <3>1, BeginsInStep
  <2>4. CASE ~e
    <3>1. Begins(r, "edit", j, "store", c, e)
      BY <2>1, <2>4
    <3> QED
      BY <2>2, <2>4, <3>1, BeginsInStep
  <2> QED
    BY <2>3, <2>4
<1> DEFINE job == req[r].job
<1>4. /\ req[r].pc \in {"upsert", "store", "drop"} => job \in Catalog /\ row[job] # NoRow
      /\ row[i] # NoRow => row'[i] # NoRow
  BY RowsStay DEF TInv, AtWork, RequestAtWork
<1>5. ASSUME Upsert(r) PROVE StepAt(i)'
  <2>1. /\ req[r].pc = "upsert" /\ row' = row /\ boot' = boot /\ apart' = apart
        /\ sched' = [sched EXCEPT ![job] = req[r].cron]
        /\ ThenAt(r, IF req[r].op = "edit" THEN "store" ELSE "end")
    BY <1>5 DEF Upsert, At, Set
  <2>2. sched'[job] = req[r].cron /\ (i # job => sched'[i] = sched[i])
    BY <1>0, <1>4, <2>1
  <2>3. CASE req[r].op = "edit"
    <3>1. ThenAt(r, "store")
      BY <2>1, <2>3
    <3> QED
      BY <1>4, <2>1, <2>2, <3>1, ThenAtInStep
  <2>4. CASE req[r].op # "edit"
    <3>1. ThenAt(r, "end")
      BY <2>1, <2>4
    <3>2. i = job /\ Handling(r, i) => InStepAt(i)'
      BY <1>4, <2>1, <2>2, <2>4 DEF Handling, InStepAt
    <3> QED
      BY <1>4, <2>1, <2>2, <3>1, <3>2, ThenAtInStep
  <2> QED
    BY <2>3, <2>4
<1>6. ASSUME UpsertRefused(r) \/ RequestFails(r) PROVE StepAt(i)'
  <2>1. /\ req[r].pc \in {"upsert", "store", "drop"} /\ row' = row /\ boot' = boot /\ sched' = sched
        /\ ThenAt(r, "end")
    BY <1>6 DEF UpsertRefused, RequestFails, At
  <2>2. i \in apart => i \in apart'
    BY <1>6 DEF UpsertRefused, RequestFails
  <2>3. i = job /\ i \notin apart' => req[r].pc = "upsert" /\ req[r].op = "edit"
    BY <1>6 DEF UpsertRefused, RequestFails, At
  <2>4. i = job /\ i \notin apart' /\ Handling(r, i) => InStepAt(i)'
    BY <2>1, <2>3 DEF Handling, InStepAt
  <2> QED
    BY <1>4, <2>1, <2>2, <2>4, ThenAtInStep
<1>7. ASSUME Store(r) PROVE StepAt(i)'
  <2>1. /\ req[r].pc = "store" /\ boot' = boot /\ sched' = sched /\ apart' = apart
        /\ ThenAt(r, IF req[r].enabled THEN "end" ELSE "drop")
    BY <1>7 DEF Store, At
  <2>2. /\ row' = [row EXCEPT ![job] = [enabled |-> req[r].enabled, cron |-> req[r].cron]]
    BY <1>7 DEF Store
  <2>3. /\ i # job => row'[i] = row[i]
        /\ row'[job].enabled = req[r].enabled /\ row'[job].cron = req[r].cron
    BY <1>0, <1>4, <2>1, <2>2
  <2>4. CASE req[r].enabled
    <3>1. ThenAt(r, "end")
      BY <2>1, <2>4
    <3>2. i = job /\ Handling(r, i) => InStepAt(i)'
      BY <1>4, <2>1, <2>3, <2>4 DEF Handling, InStepAt
    <3> QED
      BY <1>4, <2>1, <2>3, <3>1, <3>2, ThenAtInStep
  <2>5. CASE ~req[r].enabled
    <3>1. ThenAt(r, "drop")
      BY <2>1, <2>5
    <3> QED
      BY <1>4, <2>1, <2>3, <2>5, <3>1, ThenAtInStep
  <2> QED
    BY <2>4, <2>5
<1>8. ASSUME Drop(r) PROVE StepAt(i)'
  <2>1. /\ req[r].pc = "drop" /\ boot' = boot /\ row' = row /\ apart' = apart
        /\ ThenAt(r, "end") /\ sched' = [sched EXCEPT ![job] = NoCron]
    BY <1>8 DEF Drop, At, Set
  <2>2. sched'[job] = NoCron /\ (i # job => sched'[i] = sched[i])
    BY <1>0, <1>4, <2>1
  <2>3. i = job /\ Handling(r, i) => InStepAt(i)'
    BY <2>1, <2>2 DEF Handling, InStepAt
  <2> QED
    BY <1>4, <2>1, <2>2, <2>3, ThenAtInStep
<1> QED
  BY <1>1, <1>2, <1>3, <1>5, <1>6, <1>7, <1>8

LEMMA StepStep == TInv /\ StepInv /\ [Next]_vars => StepInv'
<1> SUFFICES ASSUME TInv, TInv', Lefts, [Next]_vars, NEW j \in Catalog, StepAt(j) PROVE StepAt(j)'
  BY NextType, NextAtWork, LeftsStep DEF TInv, StepInv
<1>1. ASSUME NEW w \in Workers,
             \/ BootRead(w) \/ BootCreate(w) \/ BootUpsert(w) \/ BootGivesUp(w)
             \/ BootRemove(w) \/ BootDelete(w) \/ BootFails(w)
      PROVE  StepAt(j)'
  BY <1>1, BootReadInStep, BootCreateInStep, BootSchedulesInStep, BootEndsInStep
<1>2. CASE row' = row /\ sched' = sched /\ req' = req /\ boot' = boot /\ apart' = apart
  BY <1>2, ElsewhereInStep
<1> QED
  BY <1>1, <1>2, RequestsInStep DEF Next, vars, Tick, RunNow, Take, Check, CheckBlindly, WorkEnds,
     RunStalls

\* A job that nobody is at is scheduled as its row says, while workers reconcile
\* too, unless requests or reconciliations overlapped or failed since a reconciliation
\* last had it to itself: for any number of both, and whatever BullMQ refuses.
THEOREM RowsAndSchedulersAgree == Spec => []InStep
<1>1. Init => TInv /\ StepInv
  <2>1. ASSUME Init PROVE StepInv
    BY <2>1 DEF Init, StepInv, Lefts, StepAt, Booting, Down
  <2> QED
    BY <2>1, InitType
<1>2. TInv /\ StepInv /\ [Next]_vars => TInv' /\ StepInv'
  BY NextType, NextAtWork, StepStep DEF TInv
<1>3. StepInv => InStep
  BY DEF StepInv, StepAt, Kept, InStep
<1> QED
  BY <1>1, <1>2, <1>3, PTL DEF Spec
=============================================================================
