---------------------------- MODULE EventOutbox ----------------------------
(****************************************************************************)
(* Domain events from a business transaction to the broker: UnitOfWork with *)
(* nested calls and after-commit hooks, the event catalog, the records      *)
(* outboxcore builds and their transitions, and relays that claim records   *)
(* from the store, decode them and publish a message.                       *)
(*                                                                          *)
(* The store's claims, the relay's loop, the database and the broker are    *)
(* outside the repository: they are what outbox.Store and the callers of    *)
(* these packages ask for.  The process of a transaction or a relay may die *)
(* between any two steps.  A payload is the fields decoding finds in it.    *)
(****************************************************************************)
EXTENDS Integers, Sequences, FiniteSets

CONSTANTS
    Txns, Relays,
    Events,        \* event -> [type, form], form: "base" embeds BaseEvent and has its JSON
                   \* fields, "bare" has others, "broken" does not marshal, "opaque" has an
                   \* encoder of its own whose payload is no JSON object
    Catalogs,      \* [topics: key -> physical name, events: type -> [topic, delivery, handler]]
    OutboxOptions, \* ValidateOptions: [requireHandler, requireReferenced]
    OutboxHooks,   \* hooks a transaction may register
    MaxCrashes, MaxRefusals

VARIABLES
    catalog,    \* the configuration that was loaded
    txn,        \* transaction -> where it is
    record,     \* event -> its row in the outbox
    relay,      \* relay -> the record it has claimed
    broker,     \* messages the broker has taken: [topic, id, type, event]
    crashes, refusals

obVars == <<catalog, txn, record, relay, broker, crashes, refusals>>

EventIDs == DOMAIN Events
NoRecord == [st |-> "none", topic |-> "", payload |-> [id |-> "", type |-> "", json |-> TRUE],
             due |-> FALSE]
NewTxn == [pc |-> "idle", depth |-> 0, own |-> TRUE, staged |-> {}, hooks |-> <<>>, ran |-> <<>>,
           ended |-> "no"]
NoClaim == [pc |-> "idle", ev |-> "none", msg |-> <<>>]

-----------------------------------------------------------------------------
(* The catalog.                                                             *)

\* DeliveryClass.Valid.
ValidDelivery(d) == d \in {"best_effort", "durable_outbox"}

\* ValidateWithOptions.
Validate(c, opts) ==
    /\ \A t \in DOMAIN c.events :
          /\ c.events[t].topic \in DOMAIN c.topics
          /\ opts.requireHandler => c.events[t].handler # ""
          /\ ValidDelivery(c.events[t].delivery)
    /\ opts.requireReferenced =>
          \A k \in DOMAIN c.topics : \E t \in DOMAIN c.events : c.events[t].topic = k

\* GetTopicForEvent; the answer is "" and not ok for an unknown event.
GetTopicForEvent(type) ==
    IF type \in DOMAIN catalog.events THEN <<catalog.topics[catalog.events[type].topic]>> ELSE <<>>

\* TopicSubscriptions and GetEventsByTopic: one for each key, so that two keys
\* with one physical name give two subscriptions of that topic.
TopicSubscriptions ==
    {s \in {[key |-> k, name |-> catalog.topics[k],
             types |-> {t \in DOMAIN catalog.events : catalog.events[t].topic = k}] :
            k \in DOMAIN catalog.topics} : s.types # {}}

ASSUME OutboxConstants ==
    /\ MaxCrashes \in Nat /\ MaxRefusals \in Nat
    /\ \A e \in EventIDs : Events[e].form \in {"base", "bare", "broken", "opaque"}
    /\ "none" \notin EventIDs \cup Txns
    /\ \A c \in Catalogs : \A t \in DOMAIN c.events :
          {"topic", "delivery", "handler"} = DOMAIN c.events[t]
    /\ \A c \in Catalogs : IsFiniteSet(DOMAIN c.topics)

-----------------------------------------------------------------------------
(* Codec and records.                                                       *)

\* EncodeDomainEvent, json.Marshal of the event itself, and what DecodeEnvelope
\* will find in the payload.
EncodeDomainEvent(e) ==
    CASE Events[e].form = "base"   -> <<[id |-> e, type |-> Events[e].type, json |-> TRUE]>>
      [] Events[e].form = "bare"   -> <<[id |-> "", type |-> "", json |-> TRUE]>>
      [] Events[e].form = "opaque" -> <<[id |-> "", type |-> "", json |-> FALSE]>>
      [] Events[e].form = "broken" -> <<>>

\* BuildRecords: all events or an error.
BuildRecords(es) ==
    LET ok == \A e \in es : /\ GetTopicForEvent(Events[e].type) # <<>>
                            /\ catalog.events[Events[e].type].delivery = "durable_outbox"
                            /\ EncodeDomainEvent(e) # <<>>
    IN  [ok |-> ok,
         records |-> IF ~ok THEN {}
                     ELSE {[ev |-> e, topic |-> GetTopicForEvent(Events[e].type)[1],
                            payload |-> EncodeDomainEvent(e)[1]] : e \in es}]

\* Faulty variant: a failure ends the record.
NewFailedTransitionFinal(row) == [row EXCEPT !.st = "published"]

\* The rows a transition writes: NewPublishedTransition, NewFailedTransition and
\* NewDecodeFailureTransition.
NewPublishedTransition(row) == [row EXCEPT !.st = "published"]
NewFailedTransition(row) == [row EXCEPT !.st = "failed", !.due = FALSE]

\* Faulty variant: a payload nobody can decode is dropped.
NewDecodeFailureTransitionDrops(row) == [row EXCEPT !.st = "published"]

NewDecodeFailureTransition(row) == NewFailedTransition(row)

-----------------------------------------------------------------------------
(* Transactions.                                                            *)

\* WithinTransaction without a transaction in the context; or a transaction the
\* application opened itself and put there with WithTx.
Begin(t, own) ==
    /\ txn[t].pc = "idle"
    /\ txn' = [txn EXCEPT ![t].pc = "open", ![t].own = own]
    /\ UNCHANGED <<catalog, record, relay, broker, crashes, refusals>>

\* WithinTransaction inside a transaction: fn runs in the one that is there.
Nested(t) ==
    /\ txn[t].pc = "open" /\ txn[t].depth = 0
    /\ txn' = [txn EXCEPT ![t].depth = 1]
    /\ UNCHANGED <<catalog, record, relay, broker, crashes, refusals>>

\* It returns fn's result and nothing else; if the outer function drops an
\* error, what the inner one wrote stays.
NestedReturns(t) ==
    /\ txn[t].pc = "open" /\ txn[t].depth = 1
    /\ txn' = [txn EXCEPT ![t].depth = 0]
    /\ UNCHANGED <<catalog, record, relay, broker, crashes, refusals>>

\* An error or a panic of fn, or a failed commit: gorm rolls back.
Rollback(t) ==
    /\ txn[t].pc = "open"
    /\ txn' = [txn EXCEPT ![t].pc = "done", ![t].ended = "rolled back"]
    /\ UNCHANGED <<catalog, record, relay, broker, crashes, refusals>>

\* Faulty variant: the Stager does not use the transaction of the context.
StageOutsideTx(t, es) ==
    LET built == BuildRecords(es)
    IN  /\ txn[t].pc = "open" /\ built.ok /\ \A e \in es : record[e] = NoRecord
        /\ record' = [e \in EventIDs |->
               IF \E b \in built.records : b.ev = e
               THEN LET b == CHOOSE b \in built.records : b.ev = e
                    IN  [st |-> "pending", topic |-> b.topic, payload |-> b.payload, due |-> TRUE]
               ELSE record[e]]
        /\ UNCHANGED <<catalog, txn, relay, broker, crashes, refusals>>

\* A Stager of the application: RequireTx, BuildRecords and INSERT.
Stage(t, es) ==
    LET built == BuildRecords(es)
        taken == UNION {txn[u].staged : u \in Txns}
    IN  /\ txn[t].pc = "open" /\ \A e \in es : \A b \in taken : b.ev # e
        /\ txn' = IF built.ok THEN [txn EXCEPT ![t].staged = @ \cup built.records]
                  ELSE [txn EXCEPT ![t].pc = "done", ![t].ended = "rolled back"]
        /\ UNCHANGED <<catalog, record, relay, broker, crashes, refusals>>

\* AfterCommit.
AfterCommit(t, h) ==
    /\ txn[t].pc = "open" /\ \A i \in 1..Len(txn[t].hooks) : txn[t].hooks[i] # h
    /\ txn' = [txn EXCEPT ![t].hooks = Append(@, h)]
    /\ UNCHANGED <<catalog, record, relay, broker, crashes, refusals>>

\* Transaction commits.  If its answer is lost WithinTransaction returns an
\* error and runs no hook; neither does anybody for a transaction of WithTx.
Commit(t) ==
    /\ txn[t].pc = "open" /\ txn[t].depth = 0
    /\ record' = [e \in EventIDs |->
           IF \E b \in txn[t].staged : b.ev = e
           THEN LET b == CHOOSE b \in txn[t].staged : b.ev = e
                IN  [st |-> "pending", topic |-> b.topic, payload |-> b.payload, due |-> TRUE]
           ELSE record[e]]
    /\ \/ txn' = [txn EXCEPT ![t].pc = IF txn[t].own /\ txn[t].hooks # <<>> THEN "hooks" ELSE "done",
                             ![t].ended = "committed"]
       \/ txn' = [txn EXCEPT ![t].pc = "done", ![t].ended = "in doubt"]
    /\ UNCHANGED <<catalog, relay, broker, crashes, refusals>>

\* The next hook, in the order of registration.  Its error is only logged.
RunHook(t) ==
    /\ txn[t].pc = "hooks"
    /\ txn' = [txn EXCEPT ![t].ran = Append(@, txn[t].hooks[Len(@) + 1]),
                          ![t].pc = IF Len(txn[t].ran) + 1 = Len(txn[t].hooks) THEN "done" ELSE @]
    /\ UNCHANGED <<catalog, record, relay, broker, crashes, refusals>>

\* The process dies in a transaction, or between the commit and its hooks.
CrashTxn(t) ==
    /\ txn[t].pc \in {"open", "hooks"} /\ crashes < MaxCrashes
    /\ crashes' = crashes + 1
    /\ txn' = [txn EXCEPT ![t].pc = "dead", ![t].ended = IF @ = "no" THEN "rolled back" ELSE @]
    /\ UNCHANGED <<catalog, record, relay, broker, refusals>>

-----------------------------------------------------------------------------
(* Relays.                                                                  *)

Claimable(e) == record[e].st \in {"pending", "failed"} /\ record[e].due

\* Store.ClaimDueEvents of one record, with DecodePendingEvent: a payload that
\* does not decode fails its record.
ClaimDueEvents(r, e) ==
    /\ relay[r].pc = "idle" /\ Claimable(e)
    /\ IF record[e].payload.json
       THEN /\ relay' = [relay EXCEPT ![r] = [pc |-> "claimed", ev |-> e, msg |-> <<>>]]
            /\ record' = [record EXCEPT ![e].st = "publishing", ![e].due = FALSE]
       ELSE record' = [record EXCEPT ![e] = NewDecodeFailureTransition(@)] /\ UNCHANGED relay
    /\ UNCHANGED <<catalog, txn, broker, crashes, refusals>>

\* eventmessaging.BuildMessage of the decoded event.
BuildMessage(r) ==
    /\ relay[r].pc = "claimed"
    /\ relay' = [relay EXCEPT ![r].pc = "publish", ![r].msg = record[relay[r].ev].payload]
    /\ UNCHANGED <<catalog, txn, record, broker, crashes, refusals>>

\* The broker takes the message.  Whether the relay learns of it or not: an
\* error, of the broker or of the way back, is a MarkEventFailed.
PublishRecord(r, taken) ==
    LET e == relay[r].ev
    IN  /\ relay[r].pc = "publish"
        /\ ~taken => refusals < MaxRefusals
        /\ broker' = broker \cup {[topic |-> record[e].topic, id |-> relay[r].msg.id,
                                   type |-> relay[r].msg.type, event |-> e]}
        /\ refusals' = IF taken THEN refusals ELSE refusals + 1
        /\ relay' = [relay EXCEPT ![r].pc = IF taken THEN "published" ELSE "failed"]
        /\ UNCHANGED <<catalog, txn, record, crashes>>

Refused(r) ==
    /\ relay[r].pc = "publish" /\ refusals < MaxRefusals
    /\ refusals' = refusals + 1
    /\ relay' = [relay EXCEPT ![r].pc = "failed"]
    /\ UNCHANGED <<catalog, txn, record, broker, crashes>>

\* Store.MarkEventPublished and MarkEventFailed, whoever has the record by now.
MarkPublished(r) ==
    /\ relay[r].pc = "published"
    /\ record' = [record EXCEPT ![relay[r].ev] = NewPublishedTransition(@)]
    /\ relay' = [relay EXCEPT ![r] = NoClaim]
    /\ UNCHANGED <<catalog, txn, broker, crashes, refusals>>

MarkFailed(r) ==
    /\ relay[r].pc = "failed"
    /\ record' = [record EXCEPT ![relay[r].ev] = NewFailedTransition(@)]
    /\ relay' = [relay EXCEPT ![r] = NoClaim]
    /\ UNCHANGED <<catalog, txn, broker, crashes, refusals>>

CrashRelay(r) ==
    /\ relay[r].pc # "idle" /\ crashes < MaxCrashes
    /\ crashes' = crashes + 1
    /\ relay' = [relay EXCEPT ![r] = NoClaim]
    /\ UNCHANGED <<catalog, txn, record, broker, refusals>>

\* NextAttemptAt has come; or PublishingStaleFor has passed, and a record whose
\* relay died, or is slow, is due again.
Due(e) ==
    /\ record[e].st = "failed" /\ ~record[e].due
    /\ record' = [record EXCEPT ![e].due = TRUE]
    /\ UNCHANGED <<catalog, txn, relay, broker, crashes, refusals>>

Stale(e) ==
    /\ record[e].st = "publishing"
    /\ record' = [record EXCEPT ![e].st = "failed", ![e].due = TRUE]
    /\ UNCHANGED <<catalog, txn, relay, broker, crashes, refusals>>

\* A relay with a record goes on.
RelayStep(r) ==
    \/ BuildMessage(r) \/ PublishRecord(r, TRUE)
    \/ MarkPublished(r) \/ MarkFailed(r)

-----------------------------------------------------------------------------
OutboxInit ==
    /\ catalog \in {c \in Catalogs : \E o \in OutboxOptions : Validate(c, o)}
    /\ txn = [t \in Txns |-> NewTxn]
    /\ record = [e \in EventIDs |-> NoRecord]
    /\ relay = [r \in Relays |-> NoClaim]
    /\ broker = {}
    /\ crashes = 0 /\ refusals = 0

OutboxNext ==
    \/ \E t \in Txns :
          \/ \E own \in BOOLEAN : Begin(t, own)
          \/ Nested(t) \/ NestedReturns(t) \/ Rollback(t) \/ Commit(t) \/ RunHook(t) \/ CrashTxn(t)
          \/ \E es \in (SUBSET EventIDs) \ {{}} : Stage(t, es)
          \/ \E h \in OutboxHooks : AfterCommit(t, h)
    \/ \E r \in Relays :
          \/ \E e \in EventIDs : ClaimDueEvents(r, e)
          \/ RelayStep(r) \/ PublishRecord(r, FALSE) \/ Refused(r) \/ CrashRelay(r)
    \/ \E e \in EventIDs : Due(e) \/ Stale(e)

OutboxSpec == OutboxInit /\ [][OutboxNext]_obVars

-----------------------------------------------------------------------------
(* Properties.                                                              *)

\* Every variable has its type; only rows of loaded, durable events exist.
OutboxTypeOK ==
    /\ \A e \in EventIDs :
          /\ record[e].st \in {"none", "pending", "publishing", "published", "failed"}
          /\ record[e].st # "none" => catalog.events[Events[e].type].delivery = "durable_outbox"
    /\ \A t \in Txns : txn[t].pc \in {"idle", "open", "hooks", "done", "dead"} /\ txn[t].depth \in 0..1
    /\ \A r \in Relays : relay[r].pc \in {"idle", "claimed", "publish", "published", "failed"}
    /\ crashes \in 0..MaxCrashes /\ refusals \in 0..MaxRefusals

\* What reaches the broker was committed: no relay publishes an event of a
\* transaction that was rolled back, at whatever depth it was staged.
NoGhostEvent ==
    \A m \in broker : \E t \in Txns :
        txn[t].ended \in {"committed", "in doubt"} /\ \E b \in txn[t].staged : b.ev = m.event

\* A hook runs after its transaction has committed, in the order of
\* registration and once, for hooks registered by nested calls too; never
\* after a rollback or a commit in doubt.
HooksAfterCommit ==
    \A t \in Txns :
        txn[t].ran # <<>> => /\ txn[t].ended = "committed" /\ txn[t].own
                             /\ txn[t].ran = SubSeq(txn[t].hooks, 1, Len(txn[t].ran))

\* All hooks of a committed transaction run, an error of one or not, unless the
\* process dies.
HooksRun ==
    \A t \in Txns :
        (txn[t].ended = "committed" /\ txn[t].own) ~> (txn[t].pc = "dead" \/ txn[t].ran = txn[t].hooks)

\* A message says what the row says: topic, id and type of the event staged.
\* (An event with JSON fields of its own loses id and type, and the row's
\* EventID does not help: BuildMessage asks the decoded event.)
MessageIsTheEvent ==
    \A m \in broker : Events[m.event].form = "base" =>
        m.id = m.event /\ m.type = Events[m.event].type /\ <<m.topic>> = GetTopicForEvent(m.type)

\* A message lands where its type is known: some subscription of its topic
\* lists it, and every one does if no two topics have the same name.
SubscriberKnowsEvent ==
    \A m \in broker :
        LET subs == {s \in TopicSubscriptions : s.name = m.topic}
        IN  /\ \E s \in subs : Events[m.event].type \in s.types
            /\ Cardinality({catalog.topics[k] : k \in DOMAIN catalog.topics}) = Cardinality(DOMAIN catalog.topics)
               => \A s \in subs : Events[m.event].type \in s.types

\* A committed event whose payload decodes gets to the broker, whatever relay
\* dies on the way and however often the broker refuses it before.
EventuallyPublished ==
    \A e \in EventIDs : (record[e].st = "pending" /\ record[e].payload.json) ~> (\E m \in broker : m.event = e)

\* The events a transaction under way has staged, the committed ones no relay has
\* marked as published, and those the broker has.
Staged ==
    [t \in Txns |-> IF txn[t].ended = "no" THEN {b.ev : b \in txn[t].staged} ELSE {}]

Owed == {e \in EventIDs : record[e].st \notin {"none", "published"}}

Sent == {m.event : m \in broker}

Outbox == INSTANCE OutboxContract
            WITH Events <- EventIDs, staged <- Staged, owed <- Owed, sent <- Sent

\* Unit of work, stager, records and relays implement a transactional outbox: a
\* transaction's events become owed in its commit, all or none; no failure, stale
\* claim, late mark or payload that does not decode settles an event unsent.
ImplementsOutbox == Outbox!Spec

\* What holds of transactions and messages at every time: types, only committed
\* events, hooks after the commit, messages that say and land where they should.
OutboxInv ==
    /\ OutboxTypeOK /\ NoGhostEvent /\ HooksAfterCommit
    /\ MessageIsTheEvent /\ SubscriberKnowsEvent

\* What follows a commit in the end: its hooks run, and its durable events are
\* published.
OutboxProgress == HooksRun /\ EventuallyPublished
=============================================================================
