------------------------------ MODULE MCEvents ------------------------------
(* Instances of EventOutbox and EventBus for TLC.  A behaviour is one of the *)
(* one or of the other.                                                      *)
EXTENDS EventOutbox, EventBus

VARIABLE part

Ev(t, f) == [type |-> t, form |-> f]
MCEventSet == [e \in {"e1", "e2", "b"} |->
    CASE e = "e1" -> Ev("created", "base") [] e = "e2" -> Ev("changed", "opaque") [] e = "b" -> Ev("seen", "base")]
Row(t, d, h) == [topic |-> t, delivery |-> d, handler |-> h]
Types(a, b, c) == [t \in {"created", "changed", "seen"} |-> CASE t = "created" -> a [] t = "changed" -> b [] t = "seen" -> c]
Dur(k) == Row(k, "durable_outbox", "h")
MCCatalogs ==
    {[topics |-> [k \in {"k1", "k2"} |-> IF k = "k1" THEN "t1" ELSE "t2"],
      events |-> Types(Dur("k1"), Dur("k2"), Row("k2", "best_effort", "h"))],
     [topics |-> [k \in {"k1", "k2"} |-> "t"],
      events |-> Types(Dur("k1"), Dur("k2"), Row("k2", "best_effort", ""))],
     [topics |-> [k \in {"k1"} |-> "t1"],
      events |-> Types(Dur("k1"), Dur("k3"), Row("k1", "best_effort", "h"))]}
MCOptions == {[requireHandler |-> FALSE, requireReferenced |-> TRUE]}

MCPayloads == {[raw |-> TRUE, uuid |-> "", meta |-> "none"], [raw |-> FALSE, uuid |-> "u", meta |-> "trace"]}

allVars == <<part, obVars, ebVars>>

MCInit ==
    /\ OutboxInit /\ BusInit
    /\ \/ part = "outbox" /\ provider = CHOOSE c \in Providers : TRUE
       \/ part = "bus" /\ catalog = CHOOSE c \in Catalogs : \E o \in OutboxOptions : Validate(c, o)

OutboxPart(A) == part = "outbox" /\ A /\ UNCHANGED <<part, ebVars>>
BusPart(A) == part = "bus" /\ A /\ UNCHANGED <<part, obVars>>

MCNext == OutboxPart(OutboxNext) \/ BusPart(BusNext)

\* Hooks and relays run on; a due record is claimed in its turn, NextAttemptAt
\* and the stale time come.  Callers of the bus, handlers and Close run on.
MCSpec ==
    /\ MCInit /\ [][MCNext]_allVars
    /\ \A t \in Txns : WF_allVars(OutboxPart(RunHook(t)))
    /\ \A r \in Relays : WF_allVars(OutboxPart(RelayStep(r)))
    /\ \A e \in {"e1", "e2"} :                     \* "b" has no row
          /\ SF_allVars(OutboxPart(\E r \in Relays : ClaimDueEvents(r, e)))
          /\ WF_allVars(OutboxPart(Due(e))) /\ WF_allVars(OutboxPart(Stale(e)))
    /\ \A g \in Callers : WF_allVars(BusPart(CallerStep(g)))
    /\ \A h \in Handlers : WF_allVars(BusPart(HandlerReturns(h)))
    /\ WF_allVars(BusPart(CloseStep))
=============================================================================
