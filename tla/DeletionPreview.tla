--------------------------- MODULE DeletionPreview ---------------------------
(***************************************************************************)
(* The deletion of memories that asks first: a preview shows what will be  *)
(* deleted and hands out a token, and the token confirms it, for one       *)
(* memory (api/src/routes/dashboard/memories.ts) or for all of a project   *)
(* (api/src/routes/memories.ts). The rows go on living in between: they    *)
(* are edited, deleted, created and stamped by the jobs of the worker, of  *)
(* which PiiScan is one.                                                   *)
(*                                                                         *)
(* updatedAt is what the code compares of it: same[x] is the set of rows   *)
(* whose updatedAt is still the one x has read. Two updates of a row are   *)
(* taken not to fall into one millisecond.                                 *)
(*                                                                         *)
(* Left out: who may delete what, the facts an episode is primary for, and *)
(* the removals and points of deleted rows (MemoryGraph, MemoryVectors).   *)
(***************************************************************************)
EXTENDS PiiScan

CONSTANTS Previews, Confirms, NoPreview

ASSUME PreviewsAssumption == Previews \cap Confirms = {} /\ NoPreview \notin Previews

VARIABLES preview, confirm, same

vars == <<scanVars, preview, confirm, same>>
-----------------------------------------------------------------------------
\* shown is history: the texts of the preview.
NewPreview == [pc |-> "new", kind |-> "one", rows |-> {}, expired |-> FALSE,
               shown |-> [m \in Memories |-> NoText]]
NewConfirm == [pc |-> "new", of |-> NoPreview, match |-> FALSE]

Init ==
    /\ InitScan
    /\ preview = [p \in Previews |-> NewPreview]
    /\ confirm = [c \in Confirms |-> NewConfirm]
    /\ same = [x \in Previews \cup Confirms |-> {}]

Updated(M) == same' = [x \in DOMAIN same |-> same[x] \ M]
-----------------------------------------------------------------------------
PreviewAt(p, pc) == preview[p].pc = pc
Valid(p) == PreviewAt(p, "open") /\ ~preview[p].expired

\* All of a project, or one memory. Graphiti is asked for the impact before the
\* preview is stored: until then nobody has its token, and rows that change
\* meanwhile are as those that change later.
Preview(p) ==
    /\ PreviewAt(p, "new")
    /\ \E kind \in {"one", "bulk"}, rows \in SUBSET (Memories \cap Live) :
         /\ kind = "one" => Cardinality(rows) = 1
         /\ preview' = [preview EXCEPT ![p] =
              [pc |-> "open", kind |-> kind, rows |-> rows, expired |-> FALSE,
               shown |-> [m \in Memories |-> IF m \in rows THEN row[m].text ELSE NoText]]]
         /\ same' = [same EXCEPT ![p] = rows]
    /\ UNCHANGED <<scanVars, confirm>>
Expire(p) ==
    /\ Valid(p)
    /\ preview' = [preview EXCEPT ![p].expired = TRUE]
    /\ UNCHANGED <<scanVars, confirm, same>>
-----------------------------------------------------------------------------
ConfirmAt(c, pc) == confirm[c].pc = pc
Of(c) == confirm[c].of
ThenConfirm(c, pc) == confirm' = [confirm EXCEPT ![c].pc = pc, ![c].match = FALSE]

\* The token and the rows as they are now, against what the preview has.
ConfirmRead(c, p) ==
    LET found == preview[p].rows \cap Live
        match == found = preview[p].rows /\ found \subseteq same[p] IN
    /\ ConfirmAt(c, "new") /\ preview[p].pc \in {"open", "used"}
    /\ confirm' = [confirm EXCEPT ![c] =
         [pc |-> IF preview[p].kind = "bulk"
                 THEN IF Valid(p) /\ match THEN "delete" ELSE "stale"
                 ELSE IF found # {} THEN "check" ELSE "stale",
          of |-> p, match |-> preview[p].kind = "one" /\ match]]
    /\ same' = [same EXCEPT ![c] = found]
    /\ UNCHANGED <<scanVars, preview>>

\* The transaction of the dashboard's deletion reads the preview only now.
ConfirmCheck(c) ==
    /\ ConfirmAt(c, "check")
    /\ ThenConfirm(c, IF Valid(Of(c)) /\ confirm[c].match THEN "delete" ELSE "stale")
    /\ UNCHANGED <<scanVars, preview, same>>

\* Mutant of Claimed: the token is marked as used without a condition.
ClaimedAnyway(c) == TRUE

\* A bulk deletion claims its token by one conditional update.
Claimed(c) == preview[Of(c)].kind = "bulk" => Valid(Of(c))

\* Mutant of Deleted: rows that have changed are passed over.
DeletedUnchanged(c) == preview[Of(c)].rows \cap same[c]

Deleted(c) == preview[Of(c)].rows

Unchanged(c) == Deleted(c) \subseteq same[c]
ConfirmDelete(c) ==
    /\ ConfirmAt(c, "delete")
    /\ IF Claimed(c) /\ Unchanged(c)
       THEN /\ row' = [m \in Rows |-> IF m \in Deleted(c) THEN Gone ELSE row[m]]
            /\ preview' = [preview EXCEPT ![Of(c)].pc = "used"]
            /\ Updated(Deleted(c)) /\ ThenConfirm(c, "done")
       ELSE ThenConfirm(c, "stale") /\ UNCHANGED <<row, preview, same>>
    /\ UNCHANGED <<run, alert, lost, faults>>
-----------------------------------------------------------------------------
RowStep == \E m \in Rows :
    \/ (Edit(m) \/ Touch(m) \/ Delete(m)) /\ Updated({m})
    \/ Create(m) /\ UNCHANGED same
ScanStep == \E p \in Runs :
    \/ Stamp(p) /\ Updated(Stamped(p))
    \/ /\ \/ Start(p) \/ Read(p) \/ Scan(p) \/ ScanUnrecorded(p) \/ ScannerDown(p) \/ RunFails(p)
       /\ UNCHANGED same

Next ==
    \/ (RowStep \/ ScanStep) /\ UNCHANGED <<preview, confirm>>
    \/ \E p \in Previews : Preview(p) \/ Expire(p)
    \/ \E c \in Confirms : \/ \E p \in Previews : ConfirmRead(c, p)
                           \/ ConfirmCheck(c) \/ ConfirmDelete(c)

Spec == Init /\ [][Next]_vars

\* The scheduler starts the scan every day.
FairSpec == Spec /\ \A p \in Runs : WF_scanVars(ScanJob(p))
-----------------------------------------------------------------------------
Offer == [pc : {"new", "open", "used"}, kind : {"one", "bulk"}, rows : SUBSET Memories,
          expired : BOOLEAN, shown : [Memories -> Texts \cup {NoText}]]
Confirmation == [pc : {"new", "check", "delete", "done", "stale"}, of : Previews \cup {NoPreview},
                 match : BOOLEAN]
TypeOK ==
    /\ ScanTypeOK
    /\ preview \in [Previews -> Offer] /\ confirm \in [Confirms -> Confirmation]
    /\ same \in [Previews \cup Confirms -> SUBSET Rows]

\* A token deletes once, though it is sent twice at the same time, for rows or
\* for none.
TokenDeletesOnce ==
    \A c, d \in Confirms :
        ConfirmAt(c, "done") /\ ConfirmAt(d, "done") /\ Of(c) = Of(d) => c = d

\* A confirmation deletes the rows of its preview, all of them and no other,
\* and each with the text the preview showed, whatever was edited, created or
\* deleted since.
DeletesWhatWasShown ==
    [][\A c \in Confirms : ConfirmAt(c, "delete") /\ confirm'[c].pc = "done" =>
         /\ Live \ {m \in Rows : row'[m].state = "live"} = preview[Of(c)].rows
         /\ \A m \in preview[Of(c)].rows : row[m].text = preview[Of(c)].shown[m]]_vars
=============================================================================
