--------------------------- MODULE OutboxContract ---------------------------
(****************************************************************************)
(* What a transactional outbox promises: the events of a transaction become *)
(* owed in its commit, all at once; an event is sent only while it is owed; *)
(* and it stops being owed only once it was sent.                           *)
(****************************************************************************)
CONSTANTS Txns, Events

VARIABLES
    staged,     \* transaction -> the events it has staged and not committed yet
    owed,       \* committed events whose delivery is not settled
    sent        \* events the broker has

ocVars == <<staged, owed, sent>>

Init ==
    /\ staged = [t \in Txns |-> {}]
    /\ owed = {} /\ sent = {}

\* Every event is staged once.
Stage(t, es) ==
    /\ es \cap (owed \cup sent \cup UNION {staged[u] : u \in Txns}) = {}
    /\ staged' = [staged EXCEPT ![t] = @ \cup es]
    /\ UNCHANGED <<owed, sent>>

Rollback(t) ==
    /\ staged' = [staged EXCEPT ![t] = {}]
    /\ UNCHANGED <<owed, sent>>

Commit(t) ==
    /\ owed' = owed \cup staged[t]
    /\ staged' = [staged EXCEPT ![t] = {}]
    /\ UNCHANGED sent

Publish(e) ==
    /\ e \in owed
    /\ sent' = sent \cup {e}
    /\ UNCHANGED <<staged, owed>>

Settle(e) ==
    /\ e \in owed \cap sent
    /\ owed' = owed \ {e}
    /\ UNCHANGED <<staged, sent>>

\* A late failure: the event may be sent again.
OweAgain(e) ==
    /\ e \in sent
    /\ owed' = owed \cup {e}
    /\ UNCHANGED <<staged, sent>>

Next ==
    \/ \E t \in Txns :
          \/ \E es \in SUBSET Events : Stage(t, es)
          \/ Rollback(t) \/ Commit(t)
    \/ \E e \in Events : Publish(e) \/ Settle(e) \/ OweAgain(e)

Spec == Init /\ [][Next]_ocVars

=============================================================================
