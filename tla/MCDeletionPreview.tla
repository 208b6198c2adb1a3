-------------------------- MODULE MCDeletionPreview --------------------------
(* Two memories and three chunks, rows being numbered as they were         *)
(* created. What is scanned are one memory and the chunks, of which two    *)
(* make a batch and one has a batch before it; what is deleted are the two *)
(* memories.                                                               *)
EXTENDS DeletionPreview

\* Bound: previews are made where nothing has been scanned, and nothing is
\* scanned after them. To a preview a stamp is one update of the row more, as
\* Touch is, and to a scan a confirmed deletion is one more Delete.
Bound ==
    \/ /\ \A p \in Previews : PreviewAt(p, "new")
       /\ \A m \in Memories \ {1} : row[m].state = "unborn"
    \/ /\ run = [p \in Runs |-> Idle]
       /\ \A m \in Memories : row[m].cursor = "never"
       /\ \A m \in Chunks : row[m].state = "unborn"
=============================================================================
