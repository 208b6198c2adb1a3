------------------------ MODULE DeletionPreviewProofs ------------------------
(***************************************************************************)
(* Proofs about DeletionPreview and PiiScan, for any rows, texts, runs,    *)
(* previews and confirmations: the types, that no failure clears a row     *)
(* that was not scanned, that a token deletes once, and that it deletes    *)
(* what was shown.                                                         *)
(***************************************************************************)
EXTENDS DeletionPreview, FiniteSetTheorems, WellFoundedInduction, TLAPS

LEMMA Least == ASSUME NEW S \in SUBSET Nat, S # {} PROVE \E m \in S : \A n \in S : m <= n
<1>1. IsWellFoundedOn(OpToRel(<, Nat), Nat)
  BY NatLessThanWellFounded
<1>2. PICK m \in S : \A n \in S : <<n, m>> \notin OpToRel(<, Nat)
  BY <1>1, WFMin
<1>3. \A n \in S : ~(n < m)
  BY <1>2 DEF OpToRel
<1> QED
  BY <1>3

LEMMA FirstIsOne == ASSUME TypeOK, NEW p \in Runs, run[p].todo # {} PROVE First(p) \in run[p].todo
<1>1. run[p] \in Progress
  BY DEF TypeOK, ScanTypeOK
<1>2. run[p].todo \in SUBSET Nat
  BY <1>1, RowsAssumption DEF Progress
<1>3. \E m \in run[p].todo : \A o \in run[p].todo : m <= o
  BY <1>2, Least
<1> QED
  BY <1>3 DEF First
-----------------------------------------------------------------------------
(* Types.                                                                  *)

LEMMA NewStates ==
    /\ Unborn \in Record /\ Gone \in Record /\ \A t \in Texts : Fresh(t) \in Record
    /\ Idle \in Progress /\ NewPreview \in Offer /\ NewConfirm \in Confirmation
    /\ Gone.state = "gone" /\ Unborn.state = "unborn"
<1>1. \A t \in Texts \cup {NoText} : Fresh(t) \in Record
  BY DEF Fresh, Record
<1>2. Unborn \in Record /\ Gone \in Record /\ Gone.state = "gone" /\ Unborn.state = "unborn"
  BY DEF Unborn, Gone, Fresh, Record
<1>3. Idle \in Progress /\ NewPreview \in Offer /\ NewConfirm \in Confirmation
  BY DEF Idle, Progress, NewPreview, Offer, NewConfirm, Confirmation
<1> QED
  BY <1>1, <1>2, <1>3

\* What a step does to one row.
LEMMA RowTypes ==
    ASSUME NEW r \in Record
    PROVE  /\ Later(r) \in Record /\ Later(r).state = r.state /\ Later(r).text = r.text
           /\ Later(r).seen = r.seen /\ Later(r).raced = r.raced
           /\ \A t \in Texts : LET e == [Later(r) EXCEPT !.text = t, !.seen = NoText, !.raced = FALSE]
                               IN  e \in Record /\ e.state = r.state /\ e.text = t
                                   /\ e.cursor \in {"never", "later"}
           /\ r.cursor = "never" => Later(r).cursor = "never"
           /\ r.cursor # "never" => Later(r).cursor = "later"
BY DEF Later, Record

LEMMA NextKindType == ASSUME NEW r \in Progress PROVE
    NextKind(r) \in Progress /\ NextKind(r).pc \in {"idle", "read"}
    /\ NextKind(r).todo = {} /\ NextKind(r).done = {}
BY DEF NextKind, Idle, Progress

LEMMA RowStepType == TypeOK /\ RowStep => row' \in [Rows -> Record]
<1> SUFFICES ASSUME TypeOK, NEW m \in Rows, Edit(m) \/ Touch(m) \/ Delete(m) \/ Create(m)
             PROVE  row' \in [Rows -> Record]
  BY DEF RowStep
<1>1. row \in [Rows -> Record]
  BY DEF TypeOK, ScanTypeOK
<1>2. ASSUME NEW r \in Record, row' = [row EXCEPT ![m] = r] PROVE row' \in [Rows -> Record]
  BY <1>1, <1>2
<1>3. row[m] \in Record
  BY <1>1
<1>4. CASE Edit(m)
  <2>1. PICK t \in Texts :
          row' = [row EXCEPT ![m] = [Later(@) EXCEPT !.text = t, !.seen = NoText, !.raced = FALSE]]
    BY <1>4 DEF Edit
  <2>2. [Later(row[m]) EXCEPT !.text = t, !.seen = NoText, !.raced = FALSE] \in Record
    BY <1>3, RowTypes
  <2>3. row' = [row EXCEPT ![m] = [Later(row[m]) EXCEPT !.text = t, !.seen = NoText, !.raced = FALSE]]
    BY <1>1, <2>1
  <2> QED
    BY <1>2, <2>2, <2>3
<1>5. CASE Touch(m)
  <2>1. Later(row[m]) \in Record /\ row' = [row EXCEPT ![m] = Later(row[m])]
    BY <1>3, <1>5, RowTypes DEF Touch
  <2> QED
    BY <1>2, <2>1
<1>6. CASE Delete(m)
  BY <1>2, <1>6, NewStates DEF Delete
<1>7. CASE Create(m)
  BY <1>2, <1>7, NewStates DEF Create
<1> QED
  BY <1>4, <1>5, <1>6, <1>7

LEMMA StampSteps ==
    ASSUME TypeOK, NEW p \in Runs, Stamp(p), NEW m \in Rows
    PROVE  /\ row'[m] \in Record
           /\ m \notin Stamped(p) => row'[m] = row[m]
           /\ m \in Stamped(p) =>
                /\ row'[m].state = row[m].state /\ row'[m].text = row[m].text
                /\ row'[m].seen = run[p].read[m]
                /\ row'[m].raced = (row[m].text # run[p].read[m])
<1>1. row[m] \in Record /\ run[p].read[m] \in Texts \cup {NoText}
  BY DEF TypeOK, ScanTypeOK, Progress
<1>2. PICK b \in BOOLEAN : b = (row[m].text # run[p].read[m])
  OBVIOUS
<1>3. PICK c \in {"scanned", "later"} :
        row'[m] = IF m \notin Stamped(p) THEN row[m]
                  ELSE [row[m] EXCEPT !.cursor = c, !.seen = run[p].read[m], !.raced = b]
  <2>1. PICK same1 \in BOOLEAN :
          row' = [n \in Rows |->
            IF n \notin Stamped(p) THEN row[n]
            ELSE [row[n] EXCEPT !.cursor = IF same1 THEN "scanned" ELSE "later",
                                !.seen = run[p].read[n], !.raced = row[n].text # run[p].read[n]]]
    BY DEF Stamp
  <2> QED
    BY <1>2, <2>1
<1>4. CASE m \in Stamped(p)
  <2> DEFINE new == [row[m] EXCEPT !.cursor = c, !.seen = run[p].read[m], !.raced = b]
  <2>1. new \in Record /\ new.state = row[m].state /\ new.text = row[m].text
        /\ new.seen = run[p].read[m] /\ new.raced = b
    BY <1>1 DEF Record
  <2>2. row'[m] = new
    BY <1>3, <1>4
  <2> QED
    BY <1>2, <1>4, <2>1, <2>2
<1> QED
  BY <1>1, <1>3, <1>4

LEMMA ScanStepType ==
    TypeOK /\ ScanStep =>
      /\ row' \in [Rows -> Record] /\ run' \in [Runs -> Progress]
      /\ alert' \subseteq Rows \X Secret /\ lost' \subseteq Rows \X Secret /\ faults' \in 0..MaxFaults
<1> SUFFICES ASSUME TypeOK, NEW p \in Runs,
               \/ Stamp(p) \/ Start(p) \/ Read(p) \/ Scan(p) \/ ScanUnrecorded(p)
               \/ ScannerDown(p) \/ RunFails(p)
             PROVE  /\ row' \in [Rows -> Record] /\ run' \in [Runs -> Progress]
                    /\ alert' \subseteq Rows \X Secret /\ lost' \subseteq Rows \X Secret
                    /\ faults' \in 0..MaxFaults
  BY DEF ScanStep
<1>0. /\ row \in [Rows -> Record] /\ run \in [Runs -> Progress] /\ run[p] \in Progress
      /\ alert \subseteq Rows \X Secret /\ lost \subseteq Rows \X Secret /\ faults \in 0..MaxFaults
  BY DEF TypeOK, ScanTypeOK
<1>1. Fault => faults' \in 0..MaxFaults
  BY <1>0, RowsAssumption DEF Fault
<1>2. run[p].todo # {} => First(p) \in Rows
  BY <1>0, FirstIsOne DEF Progress
<1>3. run[p].todo # {} => Flagged(p) \subseteq Rows \X Secret
  BY <1>2 DEF Flagged
<1>4. ASSUME Scan(p) \/ ScanUnrecorded(p) PROVE run' \in [Runs -> Progress]
  <2>1. [run[p] EXCEPT !.todo = @ \ {First(p)}, !.done = @ \cup {First(p)}] \in Progress
    BY <1>0, <1>2, <1>4 DEF Scan, ScanUnrecorded, Progress
  <2> QED
    BY <1>0, <1>4, <2>1 DEF Scan, ScanUnrecorded, Scanned
<1>5. CASE Stamp(p)
  <2>1. row' \in [Rows -> Record]
    <3>1. \A m \in Rows : row'[m] \in Record
      BY <1>5, StampSteps
    <3>2. row' = [m \in Rows |-> row'[m]]
      BY <1>5 DEF Stamp
    <3> QED
      BY <3>1, <3>2
  <2>2. run' \in [Runs -> Progress]
    BY <1>0, <1>5, NextKindType DEF Stamp
  <2> QED
    BY <1>0, <1>5, <2>1, <2>2 DEF Stamp
<1>6. CASE Read(p)
  <2> DEFINE todo == Oldest({m \in Live \cap OfKind(run[p].kind) : Due(m)})
             read == [m \in Rows |-> IF m \in todo THEN row[m].text ELSE NoText]
  <2>1. todo \subseteq Rows
    BY DEF Oldest, Live
  <2>2. read \in [Rows -> Texts \cup {NoText}]
    BY <1>0 DEF Record
  <2>3. [run[p] EXCEPT !.pc = "scan", !.todo = todo, !.read = read] \in Progress
    <3> HIDE DEF todo, read
    <3> QED
      BY <1>0, <2>1, <2>2 DEF Progress
  <2>4. NoneDue(run[p]) \in Progress
    BY <1>0, NextKindType DEF NoneDue
  <2>5. run' = [run EXCEPT ![p] = IF todo = {} THEN NoneDue(run[p])
                                  ELSE [run[p] EXCEPT !.pc = "scan", !.todo = todo, !.read = read]]
    BY <1>0, <1>6 DEF Read
  <2>6. run' \in [Runs -> Progress]
    <3> HIDE DEF todo, read
    <3> QED
      BY <1>0, <2>3, <2>4, <2>5
  <2> QED
    BY <1>0, <1>6, <2>6 DEF Read
<1>7. CASE Start(p)
  <2>1. [run[p] EXCEPT !.pc = "read"] \in Progress
    BY <1>0 DEF Progress
  <2> QED
    BY <1>0, <1>7, <2>1 DEF Start
<1>8. CASE ScannerDown(p) \/ RunFails(p)
  BY <1>0, <1>1, <1>8, NewStates DEF ScannerDown, RunFails, Aborted
<1>9. CASE Scan(p)
  BY <1>0, <1>3, <1>4, <1>9 DEF Scan
<1>10. CASE ScanUnrecorded(p)
  BY <1>0, <1>1, <1>3, <1>4, <1>10 DEF ScanUnrecorded
<1> QED
  BY <1>5, <1>6, <1>7, <1>8, <1>9, <1>10

LEMMA ConfirmTypes ==
    ASSUME TypeOK,
           \/ \E p \in Previews : Preview(p) \/ Expire(p)
           \/ \E c \in Confirms : \/ \E p \in Previews : ConfirmRead(c, p)
                                  \/ ConfirmCheck(c) \/ ConfirmDelete(c)
    PROVE  TypeOK'
<1>0. /\ row \in [Rows -> Record] /\ preview \in [Previews -> Offer]
      /\ confirm \in [Confirms -> Confirmation] /\ same \in [Previews \cup Confirms -> SUBSET Rows]
  BY DEF TypeOK, ScanTypeOK
<1>1. ASSUME NEW p \in Previews, Preview(p) PROVE TypeOK'
  <2>1. PICK kind \in {"one", "bulk"}, rows \in SUBSET (Memories \cap Live) :
            /\ preview' = [preview EXCEPT ![p] =
                 [pc |-> "open", kind |-> kind, rows |-> rows, expired |-> FALSE,
                  shown |-> [m \in Memories |-> IF m \in rows THEN row[m].text ELSE NoText]]]
            /\ same' = [same EXCEPT ![p] = rows]
    BY <1>1 DEF Preview
  <2> DEFINE shown == [m \in Memories |-> IF m \in rows THEN row[m].text ELSE NoText]
  <2>2. shown \in [Memories -> Texts \cup {NoText}]
    BY <1>0 DEF Record, Rows
  <2>3. [pc |-> "open", kind |-> kind, rows |-> rows, expired |-> FALSE,
         shown |-> shown] \in Offer
    <3> HIDE DEF shown
    <3> QED
      BY <2>2 DEF Offer
  <2>4. preview' \in [Previews -> Offer]
    BY <1>0, <2>1, <2>3
  <2>5. same' \in [Previews \cup Confirms -> SUBSET Rows]
    BY <1>0, <2>1 DEF Rows
  <2> QED
    BY <1>1, <2>4, <2>5 DEF Preview, scanVars, TypeOK, ScanTypeOK
<1>2. ASSUME NEW p \in Previews, Expire(p) PROVE TypeOK'
  <2>1. [preview[p] EXCEPT !.expired = TRUE] \in Offer
    BY <1>0 DEF Offer
  <2>2. preview' \in [Previews -> Offer]
    BY <1>0, <1>2, <2>1 DEF Expire
  <2> QED
    BY <1>2, <2>2 DEF Expire, scanVars, TypeOK, ScanTypeOK
<1>3. ASSUME NEW c \in Confirms, NEW p \in Previews, ConfirmRead(c, p) PROVE TypeOK'
  <2>1. PICK pc \in {"delete", "stale", "check"}, b \in BOOLEAN :
          confirm' = [confirm EXCEPT ![c] = [pc |-> pc, of |-> p, match |-> b]]
    <3> DEFINE found == preview[p].rows \cap Live
               match == found = preview[p].rows /\ found \subseteq same[p]
    <3>1. PICK b \in BOOLEAN : b = (preview[p].kind = "one" /\ match)
      OBVIOUS
    <3>2. PICK pc \in {"delete", "stale", "check"} :
            pc = IF preview[p].kind = "bulk"
                 THEN IF Valid(p) /\ match THEN "delete" ELSE "stale"
                 ELSE IF found # {} THEN "check" ELSE "stale"
      OBVIOUS
    <3>3. confirm' = [confirm EXCEPT ![c] = [pc |-> pc, of |-> p, match |-> b]]
      BY <1>3, <3>1, <3>2 DEF ConfirmRead
    <3> QED
      BY <3>3
  <2>2. [pc |-> pc, of |-> p, match |-> b] \in Confirmation
    BY DEF Confirmation
  <2>3. confirm' \in [Confirms -> Confirmation]
    BY <1>0, <2>1, <2>2
  <2>4. same' \in [Previews \cup Confirms -> SUBSET Rows]
    BY <1>0, <1>3 DEF ConfirmRead, Live
  <2> QED
    BY <1>3, <2>3, <2>4 DEF ConfirmRead, scanVars, TypeOK, ScanTypeOK
<1>4. ASSUME NEW c \in Confirms, NEW pc \in {"delete", "stale", "done"}, ThenConfirm(c, pc)
      PROVE  confirm' \in [Confirms -> Confirmation]
  <2>1. [confirm[c] EXCEPT !.pc = pc, !.match = FALSE] \in Confirmation
    BY <1>0 DEF Confirmation
  <2> QED
    BY <1>0, <1>4, <2>1 DEF ThenConfirm
<1>5. ASSUME NEW c \in Confirms, ConfirmCheck(c) PROVE TypeOK'
  <2>1. confirm' \in [Confirms -> Confirmation]
    BY <1>4, <1>5 DEF ConfirmCheck
  <2> QED
    BY <1>5, <2>1 DEF ConfirmCheck, scanVars, TypeOK, ScanTypeOK
<1>6. ASSUME NEW c \in Confirms, ConfirmDelete(c) PROVE TypeOK'
  <2>1. confirm' \in [Confirms -> Confirmation]
    BY <1>4, <1>6 DEF ConfirmDelete
  <2>2. row' \in [Rows -> Record]
    BY <1>0, <1>6, NewStates DEF ConfirmDelete
  <2>3. preview' \in [Previews -> Offer]
    <3>1. \A p \in Previews : [preview[p] EXCEPT !.pc = "used"] \in Offer
      BY <1>0 DEF Offer
    <3> QED
      BY <1>0, <1>6, <3>1 DEF ConfirmDelete
  <2>4. same' \in [Previews \cup Confirms -> SUBSET Rows]
    BY <1>0, <1>6 DEF ConfirmDelete, Updated
  <2> QED
    BY <1>6, <2>1, <2>2, <2>3, <2>4 DEF ConfirmDelete, TypeOK, ScanTypeOK
<1> QED
  BY <1>1, <1>2, <1>3, <1>5, <1>6

LEMMA InitType == Init => TypeOK
<1> SUFFICES ASSUME Init PROVE TypeOK
  OBVIOUS
<1>1. faults \in 0..MaxFaults
  BY RowsAssumption DEF Init, InitScan
<1> QED
  BY <1>1, NewStates DEF Init, InitScan, TypeOK, ScanTypeOK

LEMMA NextType == TypeOK /\ [Next]_vars => TypeOK'
<1> SUFFICES ASSUME TypeOK, [Next]_vars PROVE TypeOK'
  OBVIOUS
<1>1. CASE UNCHANGED vars
  BY <1>1 DEF vars, scanVars, TypeOK, ScanTypeOK
<1>2. ASSUME RowStep \/ ScanStep, UNCHANGED <<preview, confirm>> PROVE TypeOK'
  <2>1. (\E M : Updated(M)) \/ UNCHANGED same
    BY <1>2 DEF RowStep, ScanStep
  <2>2. same' \in [Previews \cup Confirms -> SUBSET Rows]
    BY <2>1 DEF Updated, TypeOK
  <2>3. RowStep => UNCHANGED <<run, alert, lost, faults>>
    BY DEF RowStep, Edit, Touch, Delete, Create
  <2> QED
    BY <1>2, <2>2, <2>3, RowStepType, ScanStepType DEF TypeOK, ScanTypeOK
<1> QED
  BY <1>1, <1>2, ConfirmTypes DEF Next

\* Rows, runs, previews and confirmations keep their types, for any number of them.
THEOREM TypeCorrect == Spec => []TypeOK
BY InitType, NextType, PTL DEF Spec
-----------------------------------------------------------------------------
(* The scan. A run keeps the texts of the rows it has at work, and an alert *)
(* of each it has done that was flagged, or knows it lost; a row is cleared *)
(* by nothing but a stamp.                                                  *)

RunAtWork(p) ==
    /\ run[p].pc # "scan" => run[p].todo = {} /\ run[p].done = {}
    /\ \A m \in run[p].todo \cup run[p].done : run[p].read[m] \in Texts
    /\ \A m \in run[p].done : run[p].read[m] \in Secret => <<m, run[p].read[m]>> \in alert \cup lost

ScanInv ==
    /\ \A m \in Live : row[m].text \in Texts
    /\ \A p \in Runs : RunAtWork(p)
    /\ ClearedWasScanned

\* What any step does to a row.
RowDue(m) == row'[m].cursor \in {"never", "later"} /\ row'[m].text \in Texts
LEMMA RowSteps ==
    ASSUME TypeOK, ScanInv, [Next]_vars, NEW m \in Rows
    PROVE  \/ row'[m] = row[m]
           \/ row'[m].state # "live"
           \/ RowDue(m)
           \/ \E p \in Runs : Stamp(p) /\ m \in Stamped(p)
<1>0. row \in [Rows -> Record] /\ row[m] \in Record
  BY DEF TypeOK, ScanTypeOK
<1>1. ASSUME NEW n \in Rows, Edit(n) \/ Touch(n) \/ Delete(n) \/ Create(n), row'[m] # row[m]
      PROVE  row'[m].state # "live" \/ RowDue(m)
  <2>0. n = m
    BY <1>0, <1>1 DEF Edit, Touch, Delete, Create
  <2>1. CASE Edit(n)
    <3>1. PICK t \in Texts :
            row'[m] = [Later(row[m]) EXCEPT !.text = t, !.seen = NoText, !.raced = FALSE]
      BY <1>0, <2>0, <2>1 DEF Edit
    <3>2. row'[m].cursor \in {"never", "later"} /\ row'[m].text = t
      BY <1>0, <3>1 DEF Later, Record
    <3> QED
      BY <3>2 DEF RowDue
  <2>2. CASE Touch(n)
    <3>1. row'[m] = Later(row[m]) /\ row[m].text \in Texts
      BY <1>0, <2>0, <2>2 DEF Touch, ScanInv
    <3>2. row'[m].cursor \in {"never", "later"} /\ row'[m].text = row[m].text
      BY <1>0, <3>1 DEF Later, Record
    <3> QED
      BY <3>1, <3>2 DEF RowDue
  <2>3. CASE Delete(n)
    BY <1>0, <2>0, <2>3, NewStates DEF Delete
  <2>4. CASE Create(n)
    <3>1. PICK t \in Texts : row'[m] = Fresh(t)
      BY <1>0, <2>0, <2>4 DEF Create
    <3> QED
      BY <3>1 DEF Fresh, RowDue
  <2> QED
    BY <1>1, <2>1, <2>2, <2>3, <2>4
<1>2. ASSUME NEW p \in Runs, Stamp(p) PROVE m \in Stamped(p) \/ row'[m] = row[m]
  BY <1>2, StampSteps
<1>3. ASSUME NEW c \in Confirms, ConfirmDelete(c) PROVE row'[m] = row[m] \/ row'[m].state # "live"
  BY <1>3, NewStates DEF ConfirmDelete
<1> QED
  BY <1>1, <1>2, <1>3 DEF Next, vars, scanVars, RowStep, ScanStep, Start, Read, Scan, ScanUnrecorded,
     ScannerDown, RunFails, Preview, Expire, ConfirmRead, ConfirmCheck

LEMMA AlertsStay == [Next]_vars => alert \subseteq alert' /\ lost \subseteq lost'
BY DEF Next, vars, scanVars, RowStep, ScanStep, Edit, Touch, Delete, Create, Stamp, Start, Read, Scan,
   ScanUnrecorded, ScannerDown, RunFails, Preview, Expire, ConfirmRead, ConfirmCheck, ConfirmDelete

LEMMA RunSteps ==
    ASSUME TypeOK, ScanInv, [Next]_vars, NEW p \in Runs
    PROVE  RunAtWork(p)'
<1>0. /\ run \in [Runs -> Progress] /\ run[p] \in Progress /\ RunAtWork(p)
      /\ row \in [Rows -> Record]
  BY DEF TypeOK, ScanTypeOK, ScanInv
<1>1. CASE run'[p] = run[p]
  BY <1>0, <1>1, AlertsStay DEF RunAtWork
<1>2. CASE run'[p].pc # "scan" /\ run'[p].todo = {} /\ run'[p].done = {}
  BY <1>2 DEF RunAtWork
<1>3. Idle.pc = "idle" /\ Idle.todo = {} /\ Idle.done = {}
  BY DEF Idle
<1>4. CASE Start(p)
  <2>1. /\ run'[p].pc = "read" /\ run'[p].todo = run[p].todo /\ run'[p].done = run[p].done
        /\ run[p].pc = "idle"
    BY <1>0, <1>4 DEF Start, At, Progress
  <2> QED
    BY <1>0, <1>2, <2>1 DEF RunAtWork
<1>5. CASE Read(p)
  <2> DEFINE todo == Oldest({m \in Live \cap OfKind(run[p].kind) : Due(m)})
             read == [m \in Rows |-> IF m \in todo THEN row[m].text ELSE NoText]
  <2>1. todo \subseteq Live
    BY DEF Oldest
  <2>2. \A m \in todo : read[m] \in Texts
    BY <2>1 DEF ScanInv, Live
  <2>3. CASE todo = {}
    <3>1. run'[p] = NextKind(run[p])
      BY <1>0, <1>5, <2>3 DEF Read, NoneDue
    <3> QED
      BY <1>0, <1>2, <3>1, NextKindType
  <2>4. CASE todo # {}
    <3>1. run'[p] = [run[p] EXCEPT !.pc = "scan", !.todo = todo, !.read = read]
      BY <1>0, <1>5, <2>4 DEF Read
    <3> HIDE DEF todo, read
    <3>2. run'[p].pc = "scan" /\ run'[p].todo = todo /\ run'[p].read = read
          /\ run'[p].done = run[p].done
      BY <1>0, <3>1 DEF Progress
    <3>3. run[p].done = {}
      BY <1>0, <1>5 DEF Read, At, RunAtWork
    <3> QED
      BY <2>2, <3>2, <3>3 DEF RunAtWork
  <2> QED
    BY <2>3, <2>4
<1>6. CASE Scan(p) \/ ScanUnrecorded(p)
  <2> DEFINE m == First(p)
  <2>1. m \in run[p].todo /\ run[p].pc = "scan"
    BY <1>6, FirstIsOne DEF Scan, ScanUnrecorded, At
  <2>2. run'[p] = [run[p] EXCEPT !.todo = @ \ {m}, !.done = @ \cup {m}]
    BY <1>0, <1>6 DEF Scan, ScanUnrecorded, Scanned
  <2> HIDE DEF m
  <2>3. run'[p].pc = "scan" /\ run'[p].todo = run[p].todo \ {m} /\ run'[p].done = run[p].done \cup {m}
        /\ run'[p].read = run[p].read
    BY <1>0, <2>1, <2>2 DEF Progress
  <2>4. run[p].read[m] \in Secret => <<m, run[p].read[m]>> \in alert' \cup lost'
    BY <1>6 DEF Scan, ScanUnrecorded, Flagged, m
  <2> QED
    BY <1>0, <2>1, <2>3, <2>4, AlertsStay DEF RunAtWork
<1>7. CASE Stamp(p)
  <2>1. run'[p] = NextKind(run[p])
    BY <1>0, <1>7 DEF Stamp
  <2> QED
    BY <1>0, <1>2, <2>1, NextKindType
<1>8. CASE ScannerDown(p) \/ RunFails(p)
  BY <1>0, <1>2, <1>3, <1>8 DEF ScannerDown, RunFails, Aborted
<1>9. ASSUME NEW q \in Runs \ {p},
             \/ Stamp(q) \/ Start(q) \/ Read(q) \/ Scan(q) \/ ScanUnrecorded(q)
             \/ ScannerDown(q) \/ RunFails(q)
      PROVE  run'[p] = run[p]
  BY <1>0, <1>9 DEF Stamp, Start, Read, Scan, ScanUnrecorded, Scanned, ScannerDown, RunFails
<1> QED
  BY <1>1, <1>4, <1>5, <1>6, <1>7, <1>8, <1>9 DEF Next, vars, scanVars, RowStep, ScanStep, Edit, Touch,
     Delete, Create, Preview, Expire, ConfirmRead, ConfirmCheck, ConfirmDelete

LEMMA ScanInvStep == TypeOK /\ ScanInv /\ [Next]_vars => ScanInv'
<1> SUFFICES ASSUME TypeOK, ScanInv, [Next]_vars PROVE ScanInv'
  OBVIOUS
<1>0. \A m \in Rows : row[m] \in Record
  BY DEF TypeOK, ScanTypeOK
<1>1. ASSUME NEW m \in Rows, NEW p \in Runs, Stamp(p), m \in Stamped(p)
      PROVE  /\ row'[m].text \in Texts /\ row'[m].seen \in Texts
             /\ row'[m].seen = row'[m].text \/ row'[m].raced
             /\ row'[m].seen \in Secret => <<m, row'[m].seen>> \in alert' \cup lost'
  <2>1. m \in run[p].done /\ m \in Live
    BY <1>1 DEF Stamped
  <2>2. /\ row[m].text \in Texts /\ run[p].read[m] \in Texts
        /\ run[p].read[m] \in Secret => <<m, run[p].read[m]>> \in alert \cup lost
    BY <2>1 DEF ScanInv, RunAtWork
  <2>3. /\ row'[m].text = row[m].text /\ row'[m].seen = run[p].read[m]
        /\ row'[m].raced = (row[m].text # run[p].read[m])
    BY <1>1, StampSteps
  <2> QED
    BY <2>2, <2>3, AlertsStay
<1>2. ASSUME NEW m \in Live' PROVE row'[m].text \in Texts
  <2>1. m \in Rows /\ row'[m].state = "live"
    BY DEF Live
  <2>2. row'[m] = row[m] => row'[m].text \in Texts
    BY <2>1 DEF ScanInv, Live
  <2> QED
    BY <1>1, <2>1, <2>2, RowSteps DEF RowDue
<1>3. ASSUME NEW m \in Live', ~Due(m)'
      PROVE  /\ row'[m].seen # NoText /\ (row'[m].seen = row'[m].text \/ row'[m].raced)
             /\ row'[m].seen \in Secret => <<m, row'[m].seen>> \in alert' \cup lost'
  <2>1. m \in Rows /\ row'[m].state = "live" /\ ~RowDue(m)
    BY <1>3 DEF Live, Due, RowDue
  <2>2. CASE row'[m] = row[m]
    <3>1. m \in Live /\ ~Due(m)
      BY <1>3, <2>1, <2>2 DEF Live, Due
    <3> QED
      BY <2>2, <3>1, AlertsStay DEF ScanInv, ClearedWasScanned
  <2>3. ASSUME NEW p \in Runs, Stamp(p), m \in Stamped(p)
        PROVE  /\ row'[m].seen # NoText /\ (row'[m].seen = row'[m].text \/ row'[m].raced)
               /\ row'[m].seen \in Secret => <<m, row'[m].seen>> \in alert' \cup lost'
    BY <1>1, <2>1, <2>3, RowsAssumption
  <2> QED
    BY <2>1, <2>2, <2>3, RowSteps
<1>4. ClearedWasScanned'
  BY <1>3 DEF ClearedWasScanned
<1> QED
  BY <1>2, <1>4, RunSteps DEF ScanInv

\* A row that no run will take again had its present text scanned, and has its
\* alert if the scanner flagged it, unless it was edited between the read of a
\* run and its stamp or the alert could not be written: for any number of rows
\* and of runs that overlap, whatever fails.
THEOREM NoFailureClears == Spec => []ClearedWasScanned
<1>1. Init => ScanInv
  BY DEF Init, InitScan, Unborn, Fresh, Idle, ScanInv, Live, RunAtWork, ClearedWasScanned
<1>2. ScanInv => ClearedWasScanned
  BY DEF ScanInv
<1> QED
  BY <1>1, <1>2, InitType, NextType, ScanInvStep, PTL DEF Spec
-----------------------------------------------------------------------------
(* Confirmations. What a preview or a confirmation has read stays in its    *)
(* same as long as no row of it is written, so that same is what was shown. *)

Offered(p) == preview[p].pc # "new"
Holds(c) == \/ ConfirmAt(c, "delete")
            \/ ConfirmAt(c, "check") /\ confirm[c].match
OfOffers == \A c \in Confirms : confirm[c].pc \in {"check", "delete", "done"} =>
    Of(c) \in Previews /\ Offered(Of(c))
OneHasARow == \A p \in Previews : Offered(p) /\ preview[p].kind = "one" => preview[p].rows # {}
ShownByPreviews == \A p \in Previews : \A m \in same[p] :
    m \in Live /\ row[m].text = preview[p].shown[m]
ShownByConfirms == \A c \in Confirms : Holds(c) => \A m \in same[c] :
    m \in Live /\ row[m].text = preview[Of(c)].shown[m]
UsedByDone == \A c \in Confirms : ConfirmAt(c, "done") => preview[Of(c)].pc = "used"
OthersAreStale == \A c, d \in Confirms :
    ConfirmAt(c, "done") /\ ConfirmAt(d, "delete") /\ Of(c) = Of(d) /\ preview[Of(c)].kind = "one"
        => preview[Of(c)].rows \cap same[d] = {}

TokenInv == /\ OfOffers /\ OneHasARow /\ ShownByPreviews /\ ShownByConfirms
            /\ UsedByDone /\ OthersAreStale /\ TokenDeletesOnce

LEMMA SameSteps ==
    ASSUME TypeOK, [Next]_vars, NEW x \in Previews \cup Confirms
    PROVE  /\ \A m \in same'[x] \cap Live : m \in Live' /\ row'[m].text = row[m].text
           /\ \/ same'[x] \subseteq same[x]
              \/ x \in Previews /\ Preview(x)
              \/ x \in Confirms /\ \E p \in Previews : ConfirmRead(x, p)
<1>0. /\ row \in [Rows -> Record] /\ same \in [Previews \cup Confirms -> SUBSET Rows]
  BY DEF TypeOK, ScanTypeOK
<1>1. CASE same' = same /\ row' = row
  BY <1>1 DEF Live
<1>2. ASSUME NEW M, Updated(M), \A m \in Live \ M : row'[m] = row[m]
      PROVE  /\ \A m \in same'[x] \cap Live : m \in Live' /\ row'[m].text = row[m].text
             /\ same'[x] \subseteq same[x]
  BY <1>0, <1>2 DEF Updated, Live
<1>3. CASE RowStep
  <2>1. PICK n \in Rows : \/ (Edit(n) \/ Touch(n) \/ Delete(n)) /\ Updated({n})
                          \/ Create(n) /\ UNCHANGED same
    BY <1>3 DEF RowStep
  <2>2. \A m \in Rows \ {n} : row'[m] = row[m]
    BY <1>0, <2>1 DEF Edit, Touch, Delete, Create
  <2>3. CASE Updated({n})
    BY <1>2, <2>2, <2>3 DEF Live
  <2>4. CASE Create(n) /\ UNCHANGED same
    <3>1. n \notin Live
      BY <2>4 DEF Create, Live
    <3>2. \A m \in Live : row'[m] = row[m]
      BY <2>2, <3>1 DEF Live
    <3> QED
      BY <2>4, <3>2 DEF Live
  <2> QED
    BY <2>1, <2>3, <2>4
<1>4. CASE ScanStep
  <2>1. ASSUME NEW p \in Runs, Stamp(p), Updated(Stamped(p))
        PROVE  \A m \in Live \ Stamped(p) : row'[m] = row[m]
    BY <2>1, StampSteps DEF Live
  <2> QED
    BY <1>1, <1>2, <1>4, <2>1 DEF ScanStep, Start, Read, Scan, ScanUnrecorded, ScannerDown, RunFails
<1>5. ASSUME NEW c \in Confirms, ConfirmDelete(c)
      PROVE  /\ \A m \in same'[x] \cap Live : m \in Live' /\ row'[m].text = row[m].text
             /\ same'[x] \subseteq same[x]
  <2>1. CASE Claimed(c) /\ Unchanged(c)
    <3>1. \A m \in Live \ Deleted(c) : row'[m] = row[m]
      BY <1>5, <2>1 DEF ConfirmDelete, Live
    <3> QED
      BY <1>2, <1>5, <2>1, <3>1 DEF ConfirmDelete
  <2>2. CASE ~(Claimed(c) /\ Unchanged(c))
    BY <1>5, <2>2 DEF ConfirmDelete, Live
  <2> QED
    BY <2>1, <2>2
<1>6. ASSUME NEW p \in Previews, Preview(p)
      PROVE  row' = row /\ (x # p => same'[x] = same[x])
  BY <1>0, <1>6 DEF Preview, scanVars
<1>7. ASSUME NEW c \in Confirms, NEW p \in Previews, ConfirmRead(c, p)
      PROVE  row' = row /\ (x # c => same'[x] = same[x])
  BY <1>0, <1>7 DEF ConfirmRead, scanVars
<1>8. row' = row => \A m \in Live : m \in Live' /\ row'[m].text = row[m].text
  BY DEF Live
<1> QED
  BY <1>1, <1>3, <1>4, <1>5, <1>6, <1>7, <1>8 DEF Next, vars, scanVars, Expire, ConfirmCheck

LEMMA PreviewSteps ==
    ASSUME TypeOK, [Next]_vars, NEW p \in Previews, Offered(p)
    PROVE  /\ Offered(p)' /\ preview'[p].kind = preview[p].kind /\ preview'[p].rows = preview[p].rows
           /\ preview'[p].shown = preview[p].shown
           /\ preview[p].pc = "used" => preview'[p].pc = "used"
<1>0. preview \in [Previews -> Offer] /\ preview[p] \in Offer
  BY DEF TypeOK
<1>1. CASE preview'[p] = preview[p]
  BY <1>1 DEF Offered
<1>2. CASE preview'[p] = [preview[p] EXCEPT !.expired = TRUE]
  BY <1>0, <1>2 DEF Offered, Offer
<1>3. CASE preview'[p] = [preview[p] EXCEPT !.pc = "used"]
  BY <1>0, <1>3 DEF Offered, Offer
<1>4. ASSUME NEW q \in Previews, Preview(q) PROVE preview'[p] = preview[p]
  BY <1>0, <1>4 DEF Preview, PreviewAt, Offered
<1>5. ASSUME NEW q \in Previews, Expire(q)
      PROVE  preview'[p] = preview[p] \/ preview'[p] = [preview[p] EXCEPT !.expired = TRUE]
  BY <1>0, <1>5 DEF Expire
<1>6. ASSUME NEW c \in Confirms, ConfirmDelete(c)
      PROVE  preview'[p] = preview[p] \/ preview'[p] = [preview[p] EXCEPT !.pc = "used"]
  BY <1>0, <1>6 DEF ConfirmDelete
<1> QED
  BY <1>1, <1>2, <1>3, <1>4, <1>5, <1>6 DEF Next, vars, ConfirmRead, ConfirmCheck

\* What a step does to a confirmation.
Reads(c) == \E p \in Previews :
    /\ ConfirmRead(c, p) /\ confirm'[c].of = p /\ same'[c] = preview[p].rows \cap Live
    /\ confirm'[c].pc \in {"check", "delete", "stale"}
    /\ confirm'[c].pc = "delete" \/ confirm'[c].match => same'[c] \subseteq same[p]
    /\ confirm'[c].pc = "delete" => preview[p].kind = "bulk" /\ preview[p].pc = "open"
Deletes(c) == ConfirmDelete(c) /\ Claimed(c) /\ Unchanged(c)
LEMMA ConfirmSteps ==
    ASSUME TypeOK, [Next]_vars, NEW c \in Confirms
    PROVE  \/ confirm'[c] = confirm[c]
           \/ Reads(c)
           \/ /\ ConfirmCheck(c) /\ confirm'[c].pc \in {"delete", "stale"} /\ Of(c)' = Of(c)
              /\ confirm'[c].pc = "delete" => confirm[c].match /\ Valid(Of(c))
              /\ ~confirm'[c].match
           \/ ConfirmDelete(c) /\ confirm'[c].pc = "stale"
           \/ Deletes(c) /\ confirm'[c].pc = "done" /\ Of(c)' = Of(c)
<1>0. /\ confirm \in [Confirms -> Confirmation] /\ confirm[c] \in Confirmation
      /\ same \in [Previews \cup Confirms -> SUBSET Rows] /\ preview \in [Previews -> Offer]
  BY DEF TypeOK
<1>1. ASSUME NEW p \in Previews, ConfirmRead(c, p) PROVE Reads(c)
  <2> DEFINE found == preview[p].rows \cap Live
             match == found = preview[p].rows /\ found \subseteq same[p]
  <2>1. preview[p].kind \in {"one", "bulk"}
    BY <1>0 DEF Offer
  <2>2. /\ confirm'[c].of = p /\ same'[c] = found
        /\ confirm'[c].match = (preview[p].kind = "one" /\ match)
        /\ confirm'[c].pc = IF preview[p].kind = "bulk"
                            THEN IF Valid(p) /\ match THEN "delete" ELSE "stale"
                            ELSE IF found # {} THEN "check" ELSE "stale"
    BY <1>0, <1>1 DEF ConfirmRead
  <2>3. /\ confirm'[c].pc \in {"check", "delete", "stale"}
        /\ confirm'[c].pc = "delete" \/ confirm'[c].match => match
        /\ confirm'[c].pc = "delete" => preview[p].kind = "bulk" /\ Valid(p)
    BY <2>2
  <2> QED
    BY <1>1, <2>2, <2>3 DEF Reads, Valid, PreviewAt
<1>2. ASSUME NEW pc \in {"delete", "stale", "done"}, ThenConfirm(c, pc)
      PROVE  confirm'[c].pc = pc /\ Of(c)' = Of(c) /\ ~confirm'[c].match
  <2>1. confirm'[c] = [confirm[c] EXCEPT !.pc = pc, !.match = FALSE]
    BY <1>0, <1>2 DEF ThenConfirm
  <2> QED
    BY <1>0, <2>1 DEF Confirmation, Of
<1>3. CASE ConfirmCheck(c)
  <2>1. CASE Valid(Of(c)) /\ confirm[c].match
    <3>1. ThenConfirm(c, "delete")
      BY <1>3, <2>1 DEF ConfirmCheck
    <3> QED
      BY <1>2, <1>3, <2>1, <3>1
  <2>2. CASE ~(Valid(Of(c)) /\ confirm[c].match)
    <3>1. ThenConfirm(c, "stale")
      BY <1>3, <2>2 DEF ConfirmCheck
    <3> QED
      BY <1>2, <1>3, <3>1
  <2> QED
    BY <2>1, <2>2
<1>4. CASE ConfirmDelete(c)
  <2>1. CASE Claimed(c) /\ Unchanged(c)
    <3>1. ThenConfirm(c, "done")
      BY <1>4, <2>1 DEF ConfirmDelete
    <3> QED
      BY <1>2, <1>4, <2>1, <3>1 DEF Deletes
  <2>2. CASE ~(Claimed(c) /\ Unchanged(c))
    <3>1. ThenConfirm(c, "stale")
      BY <1>4, <2>2 DEF ConfirmDelete
    <3> QED
      BY <1>2, <1>4, <3>1
  <2> QED
    BY <2>1, <2>2
<1>5. ASSUME NEW d \in Confirms \ {c},
             (\E p \in Previews : ConfirmRead(d, p)) \/ ConfirmCheck(d) \/ ConfirmDelete(d)
      PROVE  confirm'[c] = confirm[c]
  BY <1>0, <1>5 DEF ConfirmRead, ConfirmCheck, ConfirmDelete, ThenConfirm
<1>6. confirm' = confirm => confirm'[c] = confirm[c]
  OBVIOUS
<1> QED
  BY <1>1, <1>3, <1>4, <1>5, <1>6 DEF Next, vars, Preview, Expire

\* What a preview shows.
LEMMA PreviewShows ==
    ASSUME TypeOK, NEW p \in Previews, Preview(p)
    PROVE  /\ row' = row
           /\ preview'[p].kind = "one" => preview'[p].rows # {}
           /\ \A m \in same'[p] : m \in Live /\ preview'[p].shown[m] = row[m].text
<1>0. preview \in [Previews -> Offer] /\ same \in [Previews \cup Confirms -> SUBSET Rows]
  BY DEF TypeOK
<1>1. PICK kind \in {"one", "bulk"}, rows \in SUBSET (Memories \cap Live) :
          /\ kind = "one" => Cardinality(rows) = 1
          /\ preview' = [preview EXCEPT ![p] =
               [pc |-> "open", kind |-> kind, rows |-> rows, expired |-> FALSE,
                shown |-> [n \in Memories |-> IF n \in rows THEN row[n].text ELSE NoText]]]
          /\ same' = [same EXCEPT ![p] = rows]
  BY DEF Preview
<1>2. /\ preview'[p].kind = kind /\ preview'[p].rows = rows
      /\ preview'[p].shown = [n \in Memories |-> IF n \in rows THEN row[n].text ELSE NoText]
      /\ same'[p] = rows
  BY <1>0, <1>1
<1>3. kind = "one" => rows # {}
  <2>1. kind = "one" => Cardinality(rows) = 1
    BY <1>1
  <2>2. Cardinality({}) # 1
    BY FS_EmptySet
  <2> QED
    BY <2>1, <2>2
<1> QED
  BY <1>2, <1>3 DEF Preview, scanVars

LEMMA NotOffered ==
    ASSUME TypeOK, OfOffers, [Next]_vars, NEW p \in Previews, ~Offered(p), ~Preview(p)
    PROVE  preview'[p] = preview[p]
<1>0. preview \in [Previews -> Offer]
  BY DEF TypeOK
<1>1. ASSUME NEW q \in Previews, Preview(q) \/ Expire(q) PROVE preview'[p] = preview[p]
  BY <1>0, <1>1 DEF Preview, Expire, Valid, PreviewAt, Offered
<1>2. ASSUME NEW c \in Confirms, ConfirmDelete(c) PROVE preview'[p] = preview[p]
  <2>1. Offered(Of(c))
    BY <1>2 DEF ConfirmDelete, ConfirmAt, OfOffers
  <2> QED
    BY <1>0, <1>2, <2>1 DEF ConfirmDelete
<1> QED
  BY <1>1, <1>2 DEF Next, vars, ConfirmRead, ConfirmCheck

LEMMA TokenStep == TypeOK /\ TokenInv /\ [Next]_vars => TokenInv'
<1> SUFFICES ASSUME TypeOK, TokenInv, [Next]_vars PROVE TokenInv'
  OBVIOUS
<1> USE PreviewsAssumption
<1>0. /\ preview \in [Previews -> Offer] /\ confirm \in [Confirms -> Confirmation]
      /\ row \in [Rows -> Record] /\ same \in [Previews \cup Confirms -> SUBSET Rows]
  BY DEF TypeOK, ScanTypeOK
<1>1. OfOffers'
  <2> SUFFICES ASSUME NEW c \in Confirms, confirm'[c].pc \in {"check", "delete", "done"}
               PROVE  confirm'[c].of \in Previews /\ preview'[confirm'[c].of].pc # "new"
    BY DEF OfOffers, Of, Offered
  <2>1. confirm[c].pc \in {"check", "delete", "done"} =>
          Of(c) \in Previews /\ Offered(Of(c))
    BY DEF TokenInv, OfOffers
  <2>2. ASSUME Of(c) \in Previews, Offered(Of(c)), confirm'[c].of = Of(c)
        PROVE  confirm'[c].of \in Previews /\ preview'[confirm'[c].of].pc # "new"
    BY <2>2, PreviewSteps DEF Offered
  <2>3. CASE confirm'[c] = confirm[c]
    BY <2>1, <2>2, <2>3 DEF Of
  <2>4. ASSUME NEW p \in Previews, ConfirmRead(c, p), confirm'[c].of = p
        PROVE  confirm'[c].of \in Previews /\ preview'[confirm'[c].of].pc # "new"
    BY <2>4, PreviewSteps DEF ConfirmRead, Offered
  <2>5. CASE ConfirmCheck(c) /\ Of(c)' = Of(c)
    BY <2>1, <2>2, <2>5 DEF ConfirmCheck, ConfirmAt, Of
  <2>6. CASE Deletes(c) /\ Of(c)' = Of(c)
    BY <2>1, <2>2, <2>6 DEF Deletes, ConfirmDelete, ConfirmAt, Of
  <2> QED
    BY <2>3, <2>4, <2>5, <2>6, ConfirmSteps DEF Reads
<1>2. OneHasARow'
  <2> SUFFICES ASSUME NEW p \in Previews, Offered(p)', preview'[p].kind = "one"
               PROVE  preview'[p].rows # {}
    BY DEF OneHasARow
  <2>1. CASE Offered(p)
    BY <2>1, PreviewSteps DEF TokenInv, OneHasARow
  <2>2. CASE Preview(p)
    BY <2>2, PreviewShows
  <2>3. CASE ~Offered(p) /\ ~Preview(p)
    BY <2>3, NotOffered DEF TokenInv, Offered
  <2> QED
    BY <2>1, <2>2, <2>3
<1>3. ShownByPreviews'
  <2> SUFFICES ASSUME NEW p \in Previews, NEW m \in same'[p]
               PROVE  m \in Live' /\ row'[m].text = preview'[p].shown[m]
    BY DEF ShownByPreviews
  <2>1. CASE Preview(p)
    BY <2>1, PreviewShows DEF Live
  <2>2. CASE same'[p] \subseteq same[p] /\ ~Preview(p)
    <3>1. m \in Live /\ row[m].text = preview[p].shown[m]
      BY <2>2 DEF TokenInv, ShownByPreviews
    <3>2. m \in Live' /\ row'[m].text = row[m].text
      BY <3>1, SameSteps
    <3>3. CASE Offered(p)
      BY <3>1, <3>2, <3>3, PreviewSteps
    <3>4. CASE ~Offered(p) /\ ~Preview(p)
      BY <3>1, <3>2, <3>4, NotOffered DEF TokenInv
    <3> QED
      BY <2>2, <3>3, <3>4
  <2> QED
    BY <2>2, <2>1, SameSteps
<1>4. ShownByConfirms'
  <2> SUFFICES ASSUME NEW c \in Confirms, Holds(c)', NEW m \in same'[c]
               PROVE  m \in Live' /\ row'[m].text = preview'[confirm'[c].of].shown[m]
    BY DEF ShownByConfirms, Of
  <2>1. ASSUME Holds(c), confirm'[c].of = confirm[c].of, same'[c] \subseteq same[c]
        PROVE  m \in Live' /\ row'[m].text = preview'[confirm'[c].of].shown[m]
    <3>1. m \in Live /\ row[m].text = preview[Of(c)].shown[m]
      BY <2>1 DEF TokenInv, ShownByConfirms
    <3>2. Of(c) \in Previews /\ Offered(Of(c))
      BY <2>1 DEF TokenInv, OfOffers, Holds, ConfirmAt
    <3>3. preview'[Of(c)].shown = preview[Of(c)].shown
      BY <3>2, PreviewSteps
    <3> QED
      BY <2>1, <3>1, <3>3, SameSteps DEF Of
  <2>2. CASE Reads(c)
    <3>1. PICK p \in Previews :
            /\ ConfirmRead(c, p) /\ confirm'[c].of = p /\ same'[c] = preview[p].rows \cap Live
            /\ confirm'[c].pc = "delete" \/ confirm'[c].match => same'[c] \subseteq same[p]
      BY <2>2 DEF Reads
    <3>2. m \in same[p] /\ m \in Live
      BY <3>1 DEF Holds, ConfirmAt
    <3>3. row[m].text = preview[p].shown[m]
      BY <3>2 DEF TokenInv, ShownByPreviews
    <3>4. row' = row /\ preview' = preview
      BY <3>1 DEF ConfirmRead, scanVars
    <3> QED
      BY <3>1, <3>2, <3>3, <3>4 DEF Live
  <2>3. ~Reads(c) => same'[c] \subseteq same[c]
    <3>1. ASSUME NEW p \in Previews, ConfirmRead(c, p) PROVE Reads(c)
      <4>1. confirm[c].pc = "new" /\ confirm'[c].pc \in {"check", "delete", "stale"}
        BY <1>0, <3>1 DEF ConfirmRead, ConfirmAt
      <4>2. ~ConfirmCheck(c) /\ ~ConfirmDelete(c)
        BY <4>1 DEF ConfirmCheck, ConfirmDelete, ConfirmAt
      <4> QED
        BY <4>1, <4>2, ConfirmSteps DEF Deletes
    <3> QED
      BY <3>1, SameSteps
  <2>4. CASE confirm'[c] = confirm[c] /\ ~Reads(c)
    BY <2>1, <2>3, <2>4 DEF Holds, ConfirmAt
  <2>5. CASE /\ ConfirmCheck(c) /\ Of(c)' = Of(c) /\ confirm'[c].pc \in {"delete", "stale"}
             /\ confirm'[c].pc = "delete" => confirm[c].match
             /\ ~confirm'[c].match
    <3>1. Holds(c) /\ same' = same
      BY <2>5 DEF Holds, ConfirmAt, ConfirmCheck
    <3> QED
      BY <2>1, <2>5, <3>1 DEF Of
  <2>6. confirm'[c].pc \notin {"stale", "done"}
    BY DEF Holds, ConfirmAt
  <2> QED
    BY <2>2, <2>4, <2>5, <2>6, ConfirmSteps
<1>5. UsedByDone'
  <2> SUFFICES ASSUME NEW c \in Confirms, confirm'[c].pc = "done"
               PROVE  preview'[confirm'[c].of].pc = "used"
    BY DEF UsedByDone, ConfirmAt, Of
  <2>1. CASE confirm'[c] = confirm[c]
    <3>1. Of(c) \in Previews /\ Offered(Of(c)) /\ preview[Of(c)].pc = "used"
      BY <2>1 DEF TokenInv, OfOffers, UsedByDone, ConfirmAt
    <3> QED
      BY <2>1, <3>1, PreviewSteps DEF Of
  <2>2. CASE Deletes(c) /\ Of(c)' = Of(c)
    <3>1. Of(c) \in Previews
      BY <2>2 DEF Deletes, ConfirmDelete, ConfirmAt, TokenInv, OfOffers
    <3>2. [preview[Of(c)] EXCEPT !.pc = "used"].pc = "used"
      BY <1>0, <3>1 DEF Offer
    <3>3. preview'[Of(c)] = [preview[Of(c)] EXCEPT !.pc = "used"]
      BY <1>0, <2>2, <3>1 DEF Deletes, ConfirmDelete
    <3> QED
      BY <2>2, <3>2, <3>3 DEF Of
  <2> QED
    BY <2>1, <2>2, ConfirmSteps DEF Reads
<1>6. ASSUME NEW c \in Confirms, NEW d \in Confirms \ {c}, ConfirmDelete(c)
      PROVE  confirm'[d] = confirm[d]
  BY <1>0, <1>6 DEF ConfirmDelete, ThenConfirm
<1>7. OthersAreStale'
  <2> SUFFICES ASSUME NEW c \in Confirms, NEW d \in Confirms, NEW p,
                      confirm'[c].pc = "done", confirm'[d].pc = "delete",
                      confirm'[c].of = p, confirm'[d].of = p, preview'[p].kind = "one"
               PROVE  preview'[p].rows \cap same'[d] = {}
    BY DEF OthersAreStale, ConfirmAt, Of
  <2>0. c # d
    OBVIOUS
  <2>1. CASE confirm'[c] = confirm[c]
    <3>1. p \in Previews /\ Offered(p) /\ preview[p].pc = "used"
      BY <2>1 DEF TokenInv, OfOffers, UsedByDone, ConfirmAt, Of
    <3>2. preview[p].kind = "one" /\ preview'[p].rows = preview[p].rows
      BY <3>1, PreviewSteps
    <3>3. ~Reads(d) /\ ~(ConfirmCheck(d) /\ Valid(Of(d)) /\ Of(d)' = Of(d))
      BY <3>1, <3>2 DEF Reads, Valid, PreviewAt, Of
    <3>4. confirm'[d] = confirm[d]
      BY <3>3, ConfirmSteps
    <3>5. \A q \in Previews : ~ConfirmRead(d, q)
      BY <3>4 DEF ConfirmRead, ConfirmAt
    <3>6. same'[d] \subseteq same[d]
      BY <3>5, SameSteps
    <3> QED
      BY <2>1, <3>2, <3>4, <3>6 DEF TokenInv, OthersAreStale, ConfirmAt, Of
  <2>2. CASE Deletes(c) /\ Of(c)' = Of(c)
    <3>1. Of(c) = p /\ p \in Previews /\ Offered(p)
      BY <2>2 DEF Of, Deletes, ConfirmDelete, ConfirmAt, TokenInv, OfOffers
    <3>2. same'[d] = same[d] \ preview[p].rows
      BY <1>0, <2>2, <3>1 DEF Deletes, ConfirmDelete, Updated, Deleted
    <3> QED
      BY <3>1, <3>2, PreviewSteps
  <2> QED
    BY <2>1, <2>2, ConfirmSteps DEF Reads
<1>8. TokenDeletesOnce'
  <2>1. ASSUME NEW c \in Confirms, NEW d \in Confirms \ {c}, Deletes(c), ConfirmAt(d, "done"),
               Of(c) = Of(d)
        PROVE  FALSE
    <3> DEFINE p == Of(c)
    <3>1. p \in Previews /\ Offered(p) /\ preview[p].pc = "used" /\ ConfirmAt(c, "delete")
      BY <2>1 DEF Deletes, ConfirmDelete, ConfirmAt, TokenInv, OfOffers, UsedByDone
    <3>2. preview[p].kind = "one"
      BY <1>0, <2>1, <3>1 DEF Deletes, Claimed, Valid, PreviewAt, Offer
    <3>3. preview[p].rows \cap same[c] = {} /\ preview[p].rows # {}
      BY <2>1, <3>1, <3>2 DEF TokenInv, OthersAreStale, OneHasARow
    <3> QED
      BY <2>1, <3>3 DEF Deletes, Unchanged, Deleted
  <2> SUFFICES ASSUME NEW c \in Confirms, NEW d \in Confirms \ {c},
                      confirm'[c].pc = "done", confirm'[d].pc = "done",
                      confirm'[c].of = confirm'[d].of
               PROVE  FALSE
    BY DEF TokenDeletesOnce, ConfirmAt, Of
  <2>2. \A e \in {c, d} : \/ confirm'[e] = confirm[e]
                          \/ Deletes(e) /\ Of(e)' = Of(e) /\ ConfirmAt(e, "delete")
    BY ConfirmSteps DEF Reads, Deletes, ConfirmDelete
  <2>3. CASE confirm'[c] = confirm[c] /\ confirm'[d] = confirm[d]
    BY <2>3 DEF TokenInv, TokenDeletesOnce, ConfirmAt, Of
  <2>4. CASE Deletes(c) /\ Of(c)' = Of(c)
    <3>1. confirm'[d] = confirm[d]
      BY <1>6, <2>4 DEF Deletes
    <3> QED
      BY <2>1, <2>4, <3>1 DEF ConfirmAt, Of
  <2>5. CASE Deletes(d) /\ Of(d)' = Of(d)
    <3>1. confirm'[c] = confirm[c]
      BY <1>6, <2>5 DEF Deletes
    <3> QED
      BY <2>1, <2>5, <3>1 DEF ConfirmAt, Of
  <2> QED
    BY <2>2, <2>3, <2>4, <2>5
<1> QED
  BY <1>1, <1>2, <1>3, <1>4, <1>5, <1>7, <1>8 DEF TokenInv

LEMMA InitTokens == Init => TokenInv
BY DEF Init, NewPreview, NewConfirm, TokenInv, OfOffers, OneHasARow, ShownByPreviews,
   ShownByConfirms, UsedByDone, OthersAreStale, TokenDeletesOnce, Offered, Holds, ConfirmAt

\* A token deletes once, for any number of confirmations that are sent at the same
\* time, for one memory, for many or for none.
THEOREM DeletesOnce == Spec => []TokenDeletesOnce
<1>1. TokenInv => TokenDeletesOnce
  BY DEF TokenInv
<1> QED
  BY <1>1, InitType, NextType, InitTokens, TokenStep, PTL DEF Spec

\* A confirmation deletes all rows of its preview and no other, each with the text
\* that was shown, for any number of rows, runs and requests in between.
THEOREM DeletesTheShown == Spec => DeletesWhatWasShown
<1> DEFINE Step == \A c \in Confirms : ConfirmAt(c, "delete") /\ confirm'[c].pc = "done" =>
             /\ Live \ {m \in Rows : row'[m].state = "live"} = preview[Of(c)].rows
             /\ \A m \in preview[Of(c)].rows : row[m].text = preview[Of(c)].shown[m]
<1>1. ASSUME TypeOK, TokenInv, [Next]_vars PROVE Step
  <2> SUFFICES ASSUME NEW c \in Confirms, ConfirmAt(c, "delete"), confirm'[c].pc = "done"
               PROVE  /\ Live \ {m \in Rows : row'[m].state = "live"} = preview[Of(c)].rows
                      /\ \A m \in preview[Of(c)].rows : row[m].text = preview[Of(c)].shown[m]
    OBVIOUS
  <2>1. Deletes(c)
    BY <1>1, ConfirmSteps DEF Reads, ConfirmAt
  <2>2. preview[Of(c)].rows \subseteq same[c]
    BY <2>1 DEF Deletes, Unchanged, Deleted
  <2>3. \A m \in preview[Of(c)].rows : m \in Live /\ row[m].text = preview[Of(c)].shown[m]
    <3>1. Holds(c) /\ ShownByConfirms
      BY <1>1 DEF TokenInv, Holds
    <3> QED
      BY <2>2, <3>1 DEF ShownByConfirms
  <2>4. \A m \in Rows : row'[m] = IF m \in preview[Of(c)].rows THEN Gone ELSE row[m]
    BY <2>1 DEF Deletes, ConfirmDelete, Deleted
  <2> QED
    BY <2>3, <2>4, NewStates DEF Live
<1>2. ASSUME TypeOK, TokenInv, [Next]_vars PROVE [Step]_vars
  BY <1>1, <1>2
<1> QED
  BY <1>2, InitType, NextType, InitTokens, TokenStep, PTL DEF Spec, DeletesWhatWasShown
=============================================================================
