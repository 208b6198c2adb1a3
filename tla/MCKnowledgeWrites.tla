-------------------------- MODULE MCKnowledgeWrites --------------------------
(***************************************************************************)
(* Two handlers; a legacy record m1 the migration captured or did not, an  *)
(* archived record m3 at revision 2 that refers to m1, and an identifier   *)
(* m2 for a new record.  The requests race for one key with different      *)
(* texts, race two keys for one revision, edit the edited, and link the    *)
(* records.                                                                *)
(***************************************************************************)
EXTENDS KnowledgeWrites

CONSTANTS m1, m2, m3, k1, k2, k3, a, b, t

MCClass(link) == [term |-> t, link |-> link]

MCCreate(k, x, link) ==
    [op |-> "create", key |-> k, id |-> NoMemory, expected |-> 0, content |-> x,
     cls |-> MCClass(link), intent |-> "create", resolve |-> TRUE]
MCUpdate(k, m, e, x, cls, intent) ==
    [op |-> "update", key |-> k, id |-> m, expected |-> e, content |-> x,
     cls |-> cls, intent |-> intent, resolve |-> FALSE]

MCRequests ==
    { MCCreate(k1, a, m1),
      MCUpdate(k1, m1, 1, b, MCClass(NoMemory), "correction"),
      MCUpdate(k2, m1, 1, Keep, MCClass(m3), "evidence"),
      MCUpdate(k2, m1, 2, Keep, Keep, "evidence"),
      MCUpdate(k3, m3, 2, b, Keep, "correction"),
      MCUpdate(k3, m1, 1, b, MCClass(NoMemory), "evidence") }

MCLegacyContent == [m \in LegacyRows |-> a]

MCHistory(r, x, intent) ==
    [id |-> m3, rev |-> r, content |-> x, cls |-> MCClass(m1), intent |-> intent,
     by |-> NoRequest]
MCBackups ==
    { [id |-> m3,
       row |-> [rev |-> 2, content |-> a, cls |-> MCClass(m1),
                dep |-> [target |-> m1, rev |-> 1, said |-> NoContent]],
       history |-> {MCHistory(1, b, "create"), MCHistory(2, a, "correction")},
       catalog |-> {t}] }
=============================================================================
