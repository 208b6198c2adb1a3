--------------------------- MODULE MCDocumentIngest ---------------------------
(***************************************************************************)
(* Instances of DocumentIngest: what the uploads say.                      *)
(***************************************************************************)
EXTENDS DocumentIngest

CONSTANTS u1, u2, a, b, s

\* The first upload says a, the others say b, or what the gate blocks.
Gated == [u \in Uploads |-> IF u = u1 THEN {a} ELSE {b, s}]

\* The second upload says b, the first and the third say a.
BackAgain == [u \in Uploads |-> IF u = u2 THEN {b} ELSE {a}]
=============================================================================
