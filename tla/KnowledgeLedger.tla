--------------------------- MODULE KnowledgeLedger ---------------------------
(***************************************************************************)
(* What the classified write path promises its clients, without the        *)
(* receipts, locks, transactions and row versions it uses to keep it:      *)
(*                                                                         *)
(*   - a key is answered for at most one request, with one answer;         *)
(*   - an accepted update names the revision it replaces, that revision is *)
(*     the record's current one at that moment, and the update becomes     *)
(*     exactly the next revision: nobody's accepted edit is overwritten by *)
(*     somebody who had not seen it;                                       *)
(*   - what a revision of a record said is written once and never changes, *)
(*     whatever is deleted or restored later;                              *)
(*   - an answer is told only after it has been recorded.                  *)
(*                                                                         *)
(* KnowledgeWrites implements this specification.                          *)
(***************************************************************************)
EXTENDS Naturals

CONSTANTS Memories, Keys, Contents,
          Requests,         \* the requests clients send, see KnowledgeWrites
          NoRequest,        \* the answer slot of a key not used yet
          Keep              \* "leave this field as it is" in an update

VARIABLES accepted,   \* per key, the answered request and its answer
          told,       \* the answers that have reached a client
          log,        \* what each accepted revision of each record says
          head        \* per record, its current revision; 0 when absent

lvars == <<accepted, told, log, head>>

Entry == [id : Memories, rev : Nat \ {0}, content : Contents]

Unused == [req |-> NoRequest]

\* No revision of a record ever says two things.
SaysOneThing(entries) ==
    \A e, f \in entries : e.id = f.id /\ e.rev = f.rev => e = f

\* The log only grows, here by entries about m up to revision r.
LogGrows(m, r) ==
    /\ log \subseteq log'
    /\ SaysOneThing(log')
    /\ \A e \in log' \ log : e \in Entry /\ e.id = m /\ e.rev <= r

Init == /\ accepted = [k \in Keys |-> Unused]
        /\ told = {}
        /\ log \subseteq Entry /\ SaysOneThing(log)
        /\ head \in [Memories -> Nat]

\* The key q.key is answered once: q was accepted as revision r of m, saying x.
Answer(q, m, r, x) ==
    /\ accepted[q.key] = Unused
    /\ accepted' = [accepted EXCEPT ![q.key] =
                      [req |-> q, id |-> m, rev |-> r, content |-> x]]
    /\ [id |-> m, rev |-> r, content |-> x] \in log' \ log
    /\ head' = [head EXCEPT ![m] = r]
    /\ UNCHANGED told

\* A new record: its identifier was never written to, its first revision is 1.
Create(q, m) ==
    /\ q.op = "create"
    /\ head[m] = 0 /\ \A e \in log : e.id # m
    /\ LogGrows(m, 1)
    /\ Answer(q, m, 1, q.content)

\* An update of the revision it expects.  The revision it replaces may be put
\* on record with it when it never was (a record from before the contract).
Update(q, x) ==
    /\ q.op = "update"
    /\ head[q.id] = q.expected /\ q.expected # 0
    /\ q.content \in {Keep, x}
    /\ LogGrows(q.id, q.expected + 1)
    /\ \A e \in log' \ log : e.rev >= q.expected
    /\ Answer(q, q.id, q.expected + 1, x)

\* An answer reaches a client, perhaps again.
Tell(k) ==
    /\ accepted[k] # Unused
    /\ told' = told \cup {accepted[k]}
    /\ UNCHANGED <<accepted, log, head>>

\* Deletion takes the record away and leaves the log.
Forget(m) ==
    /\ head[m] # 0
    /\ head' = [head EXCEPT ![m] = 0]
    /\ UNCHANGED <<accepted, told, log>>

\* An archive brings an absent record back; it may add what the log lacks and
\* cannot contradict what the log has.
Restore(m) ==
    /\ head[m] = 0 /\ head'[m] \in Nat \ {0}
    /\ head' = [head EXCEPT ![m] = head'[m]]
    /\ LogGrows(m, head'[m])
    /\ UNCHANGED <<accepted, told>>

Next == \/ \E q \in Requests, m \in Memories : Create(q, m)
        \/ \E q \in Requests, x \in Contents : Update(q, x)
        \/ \E k \in Keys : Tell(k)
        \/ \E m \in Memories : Forget(m) \/ Restore(m)

Spec == Init /\ [][Next]_lvars
=============================================================================
