---------------------------- MODULE EventsProofs ----------------------------
(****************************************************************************)
(* The outbox and the event bus for any number of transactions, relays,     *)
(* events, catalogs and callers.                                            *)
(*                                                                          *)
(* Outbox: a row and a claim say which event they stand for, and the event  *)
(* was staged by a transaction that committed.                              *)
(* From that and what the marks of relays stand for: the outbox contract.   *)
(* Bus: an exchange that is remembered is there, unless somebody deleted it.*)
(****************************************************************************)
EXTENDS EventOutbox, EventBus, FiniteSetTheorems, SequenceTheorems, TLAPS

-----------------------------------------------------------------------------
(* The outbox.                                                              *)

Topic(e) == GetTopicForEvent(Events[e].type)[1]
Payload(e) == EncodeDomainEvent(e)[1]

\* The events BuildRecords makes a record of, and that record.
Storable(e) ==
    /\ GetTopicForEvent(Events[e].type) # <<>>
    /\ catalog.events[Events[e].type].delivery = "durable_outbox"
    /\ EncodeDomainEvent(e) # <<>>
Built(e) == [ev |-> e, topic |-> Topic(e), payload |-> Payload(e)]
AllBuilt == {Built(e) : e \in {d \in EventIDs : Storable(d)}}

TxnRecords ==
    [pc : {"idle", "open", "hooks", "done", "dead"}, depth : 0..1, own : BOOLEAN,
     staged : SUBSET AllBuilt, hooks : Seq(OutboxHooks), ran : Seq(OutboxHooks),
     ended : {"no", "rolled back", "committed", "in doubt"}]

\* A row is the record of its event at some stage of its delivery.
RowOf(e, row) ==
    /\ Storable(e)
    /\ row \in [st : {"pending", "publishing", "published", "failed"}, topic : {Topic(e)},
                payload : {Payload(e)}, due : BOOLEAN]

\* A transaction that committed, its client told or not, has staged the event.
Committed(e) ==
    \E t \in Txns : txn[t].ended \in {"committed", "in doubt"} /\ Built(e) \in txn[t].staged

\* What a relay holds: the row of an event, and its message once it is built.
Claims ==
    [pc : {"claimed", "publish", "published", "failed"}, ev : EventIDs,
     msg : {<<>>} \cup {Payload(e) : e \in EventIDs}]
ClaimOf(c) ==
    /\ c \in Claims /\ record[c.ev] # NoRecord
    /\ c.pc # "claimed" => c.msg = Payload(c.ev)

MessageOf(m) ==
    \E e \in EventIDs :
        /\ Storable(e) /\ Committed(e)
        /\ m = [topic |-> Topic(e), id |-> Payload(e).id, type |-> Payload(e).type, event |-> e]

\* Where a transaction stands.
TxnInv(x) ==
    /\ x.pc \in {"idle", "open"} => x.ended = "no" /\ x.ran = <<>>
    /\ x.pc = "hooks" => x.ended = "committed" /\ x.own /\ Len(x.ran) < Len(x.hooks)
    /\ x.ran # <<>> => x.ended = "committed" /\ x.own
    /\ Len(x.ran) <= Len(x.hooks) /\ \A i \in 1..Len(x.ran) : x.ran[i] = x.hooks[i]

TxnsInv == txn \in [Txns -> TxnRecords] /\ \A t \in Txns : TxnInv(txn[t])

RowsInv ==
    /\ record = [e \in EventIDs |-> record[e]]
    /\ \A e \in EventIDs : record[e] = NoRecord \/ (RowOf(e, record[e]) /\ Committed(e))

ClaimsInv ==
    /\ relay = [r \in Relays |-> relay[r]]
    /\ \A r \in Relays : relay[r] = NoClaim \/ ClaimOf(relay[r])

CatalogInv == catalog \in Catalogs /\ \E o \in OutboxOptions : Validate(catalog, o)

OInv ==
    /\ CatalogInv /\ TxnsInv /\ RowsInv /\ ClaimsInv
    /\ \A m \in broker : MessageOf(m)
    /\ crashes \in 0..MaxCrashes /\ refusals \in 0..MaxRefusals

-----------------------------------------------------------------------------
LEMMA NoRecordYet == NoRecord.st = "none"
BY DEF NoRecord

LEMMA OutboxBounds == MaxCrashes \in Nat /\ MaxRefusals \in Nat
BY OutboxConstants

\* A catalog that was loaded has a topic for each of its events.
LEMMA StorableTopic ==
    ASSUME CatalogInv, NEW e \in EventIDs, Storable(e)
    PROVE  /\ Events[e].type \in DOMAIN catalog.events
           /\ catalog.events[Events[e].type].topic \in DOMAIN catalog.topics
           /\ Topic(e) = catalog.topics[catalog.events[Events[e].type].topic]
           /\ GetTopicForEvent(Events[e].type) = <<Topic(e)>>
<1>1. Events[e].type \in DOMAIN catalog.events
    BY DEF Storable, GetTopicForEvent
<1>2. GetTopicForEvent(Events[e].type) = <<catalog.topics[catalog.events[Events[e].type].topic]>>
    BY <1>1 DEF GetTopicForEvent
<1>3. Topic(e) = catalog.topics[catalog.events[Events[e].type].topic]
    BY <1>2 DEF Topic
<1>4. catalog.events[Events[e].type].topic \in DOMAIN catalog.topics
    BY <1>1 DEF CatalogInv, Validate
<1> QED
    BY <1>1, <1>2, <1>3, <1>4

\* A base event that is stored has its id and type in the payload.
LEMMA BasePayload ==
    ASSUME NEW e \in EventIDs, Events[e].form = "base"
    PROVE  Payload(e) = [id |-> e, type |-> Events[e].type, json |-> TRUE]
BY DEF Payload, EncodeDomainEvent

LEMMA BuildRecordsBuilds ==
    ASSUME NEW es \in SUBSET EventIDs, BuildRecords(es).ok
    PROVE  BuildRecords(es).records = {Built(e) : e \in es} /\ BuildRecords(es).records \subseteq AllBuilt
<1>1. \A e \in es : Storable(e)
    BY DEF BuildRecords, Storable
<1>2. BuildRecords(es).records = {Built(e) : e \in es}
    BY DEF BuildRecords, Built, Topic, Payload
<1> QED
    BY <1>1, <1>2 DEF AllBuilt

\* What an event is stored as is a matter of the catalog, which stays.
LEMMA CatalogStays ==
    ASSUME catalog' = catalog, CatalogInv
    PROVE  /\ CatalogInv' /\ TxnRecords' = TxnRecords
           /\ \A e : Topic(e)' = Topic(e) /\ Built(e)' = Built(e) /\ Storable(e)' = Storable(e)
           /\ \A e, row : RowOf(e, row)' = RowOf(e, row)
<1>1. \A type : GetTopicForEvent(type)' = GetTopicForEvent(type)
    BY DEF GetTopicForEvent
<1>2. \A e : Topic(e)' = Topic(e) /\ Built(e)' = Built(e) /\ Storable(e)' = Storable(e)
    BY <1>1 DEF Topic, Built, Storable
<1>3. AllBuilt' = AllBuilt
    BY <1>2 DEF AllBuilt
<1> QED
    BY <1>2, <1>3 DEF TxnRecords, CatalogInv, RowOf

\* The invariant implies what the runs check.
LEMMA OInvImplies == ASSUME OInv PROVE OutboxInv
<1>1. OutboxTypeOK
  <2>1. ASSUME NEW e \in EventIDs
        PROVE  /\ record[e].st \in {"none", "pending", "publishing", "published", "failed"}
               /\ record[e].st # "none" => catalog.events[Events[e].type].delivery = "durable_outbox"
    <3>1. CASE record[e] = NoRecord
      <4>1. record[e].st = "none"
          BY <3>1, NoRecordYet
      <4> QED
          BY <4>1
    <3>2. CASE RowOf(e, record[e])
        BY <3>2 DEF RowOf, Storable
    <3> QED
        BY <3>1, <3>2 DEF OInv, RowsInv
  <2>2. \A t \in Txns : txn[t].pc \in {"idle", "open", "hooks", "done", "dead"} /\ txn[t].depth \in 0..1
      BY DEF OInv, TxnsInv, TxnRecords
  <2>3. \A r \in Relays : relay[r].pc \in {"idle", "claimed", "publish", "published", "failed"}
      BY DEF OInv, ClaimsInv, ClaimOf, Claims, NoClaim
  <2> QED
      BY <2>1, <2>2, <2>3 DEF OInv, OutboxTypeOK
<1>2. NoGhostEvent
  <2>1. ASSUME NEW m \in broker
        PROVE  \E t \in Txns : txn[t].ended \in {"committed", "in doubt"} /\ \E b \in txn[t].staged : b.ev = m.event
    <3>1. PICK e \in EventIDs : Committed(e) /\ m.event = e
        BY DEF OInv, MessageOf
    <3>2. Built(e).ev = e
        BY DEF Built
    <3> QED
        BY <3>1, <3>2 DEF Committed
  <2> QED
      BY <2>1 DEF NoGhostEvent
<1>3. HooksAfterCommit
  <2> SUFFICES ASSUME NEW t \in Txns, txn[t].ran # <<>>
               PROVE  txn[t].ran = SubSeq(txn[t].hooks, 1, Len(txn[t].ran))
      BY DEF OInv, TxnsInv, TxnInv, HooksAfterCommit
  <2> DEFINE n == Len(txn[t].ran)
  <2>1. /\ txn[t].ran \in Seq(OutboxHooks) /\ txn[t].hooks \in Seq(OutboxHooks)
        /\ n <= Len(txn[t].hooks) /\ \A i \in 1..n : txn[t].ran[i] = txn[t].hooks[i]
      BY DEF OInv, TxnsInv, TxnInv, TxnRecords
  <2>2. n \in Nat /\ \A i \in 1..n : txn[t].hooks[i] \in OutboxHooks
      BY <2>1, LenProperties, ElementOfSeq
  <2> DEFINE s == SubSeq(txn[t].hooks, 1, n)
  <2>3. s \in Seq(OutboxHooks) /\ Len(s) = n /\ \A i \in 1..n : s[i] = txn[t].hooks[i]
      BY <2>2, SubSeqProperties
  <2> HIDE DEF s
  <2> QED
      BY <2>1, <2>3, SeqEqual
<1>4. MessageIsTheEvent
  <2> SUFFICES ASSUME NEW m \in broker, Events[m.event].form = "base"
               PROVE  m.id = m.event /\ m.type = Events[m.event].type /\ <<m.topic>> = GetTopicForEvent(m.type)
      BY DEF MessageIsTheEvent
  <2>1. PICK e \in EventIDs :
            /\ Storable(e)
            /\ m = [topic |-> Topic(e), id |-> Payload(e).id, type |-> Payload(e).type, event |-> e]
      BY DEF OInv, MessageOf
  <2>2. m.event = e /\ m.id = Payload(e).id /\ m.type = Payload(e).type /\ m.topic = Topic(e)
      BY <2>1
  <2>3. Payload(e).id = e /\ Payload(e).type = Events[e].type
      BY <2>2, BasePayload
  <2> QED
      BY <2>1, <2>2, <2>3, StorableTopic DEF OInv
<1>5. SubscriberKnowsEvent
  <2> SUFFICES
        ASSUME NEW m \in broker
        PROVE  LET subs == {s \in TopicSubscriptions : s.name = m.topic}
               IN  /\ \E s \in subs : Events[m.event].type \in s.types
                   /\ Cardinality({catalog.topics[k] : k \in DOMAIN catalog.topics}) = Cardinality(DOMAIN catalog.topics)
                      => \A s \in subs : Events[m.event].type \in s.types
      BY DEF SubscriberKnowsEvent
  <2> DEFINE D == DOMAIN catalog.topics
             TypesOf(k) == {t \in DOMAIN catalog.events : catalog.events[t].topic = k}
             Sub(k) == [key |-> k, name |-> catalog.topics[k], types |-> TypesOf(k)]
  <2>1. PICK e \in EventIDs : Storable(e) /\ m.topic = Topic(e) /\ m.event = e
      BY DEF OInv, MessageOf
  <2> DEFINE ke == catalog.events[Events[e].type].topic
  <2>2. Events[e].type \in DOMAIN catalog.events /\ ke \in D /\ m.topic = catalog.topics[ke]
      BY <2>1, StorableTopic DEF OInv
  <2>3. Events[e].type \in TypesOf(ke)
      BY <2>2
  <2>4. TopicSubscriptions = {s \in {Sub(k) : k \in D} : s.types # {}}
      BY DEF TopicSubscriptions
  <2>5. Sub(ke) \in TopicSubscriptions /\ Sub(ke).name = m.topic /\ Events[e].type \in Sub(ke).types
      BY <2>2, <2>3, <2>4
  <2>6. ASSUME Cardinality({catalog.topics[k] : k \in D}) = Cardinality(D),
               NEW s \in TopicSubscriptions, s.name = m.topic
        PROVE  Events[e].type \in s.types
    <3> DEFINE f == [k \in D |-> catalog.topics[k]]
               T == {catalog.topics[k] : k \in D}
    <3>1. IsFiniteSet(D)
        BY OutboxConstants DEF OInv, CatalogInv
    <3>2. f \in Surjection(D, T)
        BY DEF Surjection
    <3>3. f \in Injection(D, T)
        BY <2>6, <3>1, <3>2, FS_Surjection
    <3>4. PICK k \in D : s = Sub(k)
        BY <2>4
    <3>5. s.name = catalog.topics[k] /\ s.types = TypesOf(k)
        BY <3>4
    <3>6. f[k] = f[ke]
        BY <2>2, <2>6, <3>5
    <3> HIDE DEF f
    <3>7. k = ke
        BY <2>2, <3>3, <3>4, <3>6 DEF Injection, IsInjective
    <3> QED
        BY <2>3, <3>5, <3>7
  <2> QED
      BY <2>1, <2>5, <2>6
<1> QED
    BY <1>1, <1>2, <1>3, <1>4, <1>5 DEF OutboxInv

LEMMA OInvInit == ASSUME OutboxInit PROVE OInv
<1>1. CatalogInv
    BY DEF OutboxInit, CatalogInv
<1>2. TxnsInv
  <2>1. <<>> \in Seq(OutboxHooks) /\ Len(<<>>) = 0
      BY EmptySeq
  <2>2. NewTxn \in TxnRecords
      BY <2>1 DEF NewTxn, TxnRecords
  <2>3. TxnInv(NewTxn)
      BY <2>1 DEF NewTxn, TxnInv
  <2> QED
      BY <2>2, <2>3 DEF OutboxInit, TxnsInv
<1>3. RowsInv /\ ClaimsInv
    BY DEF OutboxInit, RowsInv, ClaimsInv
<1> QED
    BY <1>1, <1>2, <1>3, OutboxBounds DEF OutboxInit, OInv

\* What was committed stays committed, if a step leaves the ended transactions
\* what they are.
LEMMA CommittedStays ==
    ASSUME CatalogInv, catalog' = catalog,
           \A t \in Txns : txn[t].ended \in {"committed", "in doubt"} =>
               txn'[t].ended \in {"committed", "in doubt"} /\ txn[t].staged \subseteq txn'[t].staged
    PROVE  \A e \in EventIDs : Committed(e) => Committed(e)'
BY CatalogStays DEF Committed

\* Messages stand for events that stay committed.
LEMMA MessageStays ==
    ASSUME OInv, catalog' = catalog, \A e \in EventIDs : Committed(e) => Committed(e)',
           NEW m \in broker
    PROVE  MessageOf(m)'
<1>1. PICK e \in EventIDs :
          /\ Storable(e) /\ Committed(e)
          /\ m = [topic |-> Topic(e), id |-> Payload(e).id, type |-> Payload(e).type, event |-> e]
    BY DEF OInv, MessageOf
<1>2. Storable(e)' /\ Committed(e)' /\ Topic(e)' = Topic(e)
    BY <1>1, CatalogStays DEF OInv
<1> QED
    BY <1>1, <1>2 DEF MessageOf, Payload

\* A step of one transaction that writes no row.
LEMMA OneTxn ==
    ASSUME OInv, NEW t \in Txns, NEW x \in TxnRecords, TxnInv(x), txn' = [txn EXCEPT ![t] = x],
           txn[t].ended \in {"committed", "in doubt"} =>
               x.ended \in {"committed", "in doubt"} /\ txn[t].staged \subseteq x.staged,
           UNCHANGED <<catalog, record, relay, broker, refusals>>, crashes' \in 0..MaxCrashes
    PROVE  OInv'
<1>1. TxnsInv'
    BY CatalogStays DEF OInv, TxnsInv
<1>2. \A e \in EventIDs : Committed(e) => Committed(e)'
  <2>1. ASSUME NEW u \in Txns, txn[u].ended \in {"committed", "in doubt"}
        PROVE  txn'[u].ended \in {"committed", "in doubt"} /\ txn[u].staged \subseteq txn'[u].staged
      BY <2>1 DEF OInv, TxnsInv
  <2> QED
      BY <2>1, CommittedStays DEF OInv
<1>3. RowsInv'
    BY <1>2, CatalogStays DEF OInv, RowsInv
<1>4. ClaimsInv'
    BY DEF OInv, ClaimsInv, ClaimOf, Claims
<1>5. \A m \in broker' : MessageOf(m)'
    BY <1>2, MessageStays
<1> QED
    BY <1>1, <1>3, <1>4, <1>5, CatalogStays DEF OInv

\* A step that moves the row of one event on.
LEMMA OneRow ==
    ASSUME OInv, NEW e \in EventIDs, record[e] # NoRecord, NEW row, RowOf(e, row),
           record' = [record EXCEPT ![e] = row], UNCHANGED <<catalog, txn>>
    PROVE  /\ CatalogInv' /\ TxnsInv' /\ RowsInv' /\ \A d \in EventIDs : Committed(d)' = Committed(d)
           /\ \A d \in EventIDs : record[d] # NoRecord => record'[d] # NoRecord
<1>1. \A d \in EventIDs : Committed(d)' = Committed(d)
  <2>1. ASSUME NEW d \in EventIDs PROVE Built(d)' = Built(d)
      BY CatalogStays DEF OInv
  <2> QED
      BY <2>1 DEF Committed
<1>2. RowsInv'
    BY <1>1, CatalogStays DEF OInv, RowsInv
<1>3. row # NoRecord
    BY NoRecordYet DEF RowOf
<1>4. \A d \in EventIDs : record[d] # NoRecord => record'[d] # NoRecord
    BY <1>3 DEF OInv, RowsInv
<1>5. TxnsInv'
    BY CatalogStays DEF OInv, TxnsInv, TxnInv
<1> QED
    BY <1>1, <1>2, <1>4, <1>5, CatalogStays DEF OInv

\* A step of one relay; rows may move on but none disappears.
LEMMA OneRelay ==
    ASSUME ClaimsInv, NEW r \in Relays, NEW c, relay' = [relay EXCEPT ![r] = c], c = NoClaim \/ ClaimOf(c)',
           \A d \in EventIDs : record[d] # NoRecord => record'[d] # NoRecord
    PROVE  ClaimsInv'
BY DEF ClaimsInv, ClaimOf, Claims

\* A row that may be claimed, or is held, is the row of its event.
LEMMA RowKnown ==
    ASSUME OInv, NEW e \in EventIDs, record[e] # NoRecord
    PROVE  RowOf(e, record[e]) /\ Committed(e) /\ record[e].topic = Topic(e) /\ record[e].payload = Payload(e)
<1>1. RowOf(e, record[e]) /\ Committed(e)
    BY DEF OInv, RowsInv
<1> QED
    BY <1>1 DEF RowOf

LEMMA RowMoves ==
    ASSUME NEW e \in EventIDs, NEW row, RowOf(e, row), NEW due \in BOOLEAN,
           NEW st \in {"pending", "publishing", "published", "failed"}
    PROVE  RowOf(e, [row EXCEPT !.st = st]) /\ RowOf(e, [row EXCEPT !.st = st, !.due = due])
           /\ RowOf(e, [row EXCEPT !.due = due])
BY DEF RowOf

\* What a relay that has a record holds.
LEMMA ClaimKnown ==
    ASSUME OInv, NEW r \in Relays, relay[r].pc # "idle"
    PROVE  /\ ClaimOf(relay[r]) /\ relay[r].ev \in EventIDs /\ record[relay[r].ev] # NoRecord
           /\ relay[r].pc # "claimed" => relay[r].msg = Payload(relay[r].ev)
<1>1. ClaimOf(relay[r])
    BY DEF OInv, ClaimsInv, NoClaim
<1> QED
    BY <1>1 DEF ClaimOf, Claims

\* Where a transaction gets to in one step.
LEMMA TxnKnown ==
    ASSUME OInv, NEW t \in Txns
    PROVE  /\ txn[t] \in TxnRecords /\ TxnInv(txn[t]) /\ Len(txn[t].ran) \in Nat /\ Len(txn[t].hooks) \in Nat
           /\ txn[t].ran \in Seq(OutboxHooks) /\ txn[t].hooks \in Seq(OutboxHooks)
BY LenProperties DEF OInv, TxnsInv, TxnRecords

LEMMA BeginKeeps == ASSUME OInv, NEW t \in Txns, NEW own \in BOOLEAN, Begin(t, own) PROVE OInv'
<1> DEFINE x == [txn[t] EXCEPT !.pc = "open", !.own = own]
<1>1. x \in TxnRecords
    BY TxnKnown DEF TxnRecords
<1>2. txn' = [txn EXCEPT ![t] = x]
    BY DEF Begin, OInv, TxnsInv
<1>3. TxnInv(x) /\ x.ended = "no" /\ txn[t].ended = "no"
    BY TxnKnown DEF Begin, TxnInv, TxnRecords
<1> QED
    BY <1>1, <1>2, <1>3, OneTxn DEF Begin, OInv

LEMMA NestedKeeps == ASSUME OInv, NEW t \in Txns, Nested(t) \/ NestedReturns(t) PROVE OInv'
<1> PICK d \in 0..1 : txn' = [txn EXCEPT ![t].depth = d] /\ UNCHANGED <<catalog, record, relay, broker, crashes, refusals>>
    BY DEF Nested, NestedReturns
<1> DEFINE x == [txn[t] EXCEPT !.depth = d]
<1>1. x \in TxnRecords
    BY TxnKnown DEF TxnRecords
<1>0. txn' = [txn EXCEPT ![t] = x]
    BY DEF OInv, TxnsInv
<1>2. TxnInv(x) /\ x.ended = txn[t].ended /\ x.staged = txn[t].staged
    BY TxnKnown DEF TxnInv, TxnRecords
<1> QED
    BY <1>0, <1>1, <1>2, OneTxn DEF OInv

LEMMA EndKeeps ==
    ASSUME OInv, NEW t \in Txns, txn[t].pc \in {"open", "hooks"},
           NEW pc \in {"done", "dead"}, NEW en \in {"rolled back", "committed", "in doubt"},
           txn[t].ended # "no" => en = txn[t].ended, txn[t].ran # <<>> => en = "committed",
           txn' = [txn EXCEPT ![t].pc = pc, ![t].ended = en],
           UNCHANGED <<catalog, record, relay, broker, refusals>>, crashes' \in 0..MaxCrashes
    PROVE  OInv'
<1> DEFINE x == [txn[t] EXCEPT !.pc = pc, !.ended = en]
<1>1. x \in TxnRecords
    BY TxnKnown DEF TxnRecords
<1>0. txn' = [txn EXCEPT ![t] = x]
    BY DEF OInv, TxnsInv
<1>2. TxnInv(x) /\ x.ended = en /\ x.staged = txn[t].staged
    BY TxnKnown DEF TxnInv, TxnRecords
<1> QED
    BY <1>0, <1>1, <1>2, OneTxn DEF OInv

LEMMA CrashTxnKeeps == ASSUME OInv, NEW t \in Txns, CrashTxn(t) PROVE OInv'
<1>1. crashes' \in 0..MaxCrashes
  <2>1. crashes \in 0..MaxCrashes /\ crashes < MaxCrashes /\ crashes' = crashes + 1
      BY DEF CrashTxn, OInv
  <2> QED
      BY <2>1, OutboxBounds
<1> DEFINE en == IF txn[t].ended = "no" THEN "rolled back" ELSE txn[t].ended
<1>2. txn[t].ended \in {"no", "rolled back", "committed", "in doubt"} /\ (txn[t].ran # <<>> => txn[t].ended = "committed")
    BY TxnKnown DEF TxnInv, TxnRecords
<1>3. txn' = [txn EXCEPT ![t].pc = "dead", ![t].ended = en]
    BY DEF CrashTxn, OInv, TxnsInv
<1> QED
    BY <1>1, <1>2, <1>3, EndKeeps DEF CrashTxn

LEMMA RollbackKeeps == ASSUME OInv, NEW t \in Txns, Rollback(t) PROVE OInv'
<1>1. txn[t].ended = "no" /\ txn[t].ran = <<>>
    BY TxnKnown DEF Rollback, TxnInv
<1> QED
    BY <1>1, EndKeeps DEF Rollback, OInv

LEMMA StageKeeps ==
    ASSUME OInv, NEW t \in Txns, NEW es \in SUBSET EventIDs, Stage(t, es) PROVE OInv'
<1>1. txn[t].ended = "no" /\ txn[t].ran = <<>>
    BY TxnKnown DEF Stage, TxnInv
<1>2. CASE BuildRecords(es).ok
  <2> DEFINE x == [txn[t] EXCEPT !.staged = @ \cup BuildRecords(es).records]
  <2>1. txn[t].staged \cup BuildRecords(es).records \in SUBSET AllBuilt
      BY <1>2, BuildRecordsBuilds, TxnKnown DEF TxnRecords
  <2>2. x \in TxnRecords
      BY <2>1, TxnKnown DEF TxnRecords
  <2>4. txn' = [txn EXCEPT ![t] = x]
      BY <1>2 DEF Stage, OInv, TxnsInv
  <2>3. TxnInv(x)
      BY TxnKnown DEF TxnInv, TxnRecords
  <2> QED
      BY <1>1, <2>2, <2>3, <2>4, TxnKnown, OneTxn DEF Stage, OInv
<1>3. CASE ~BuildRecords(es).ok
    BY <1>1, <1>3, EndKeeps DEF Stage, OInv
<1> QED
    BY <1>2, <1>3

LEMMA AfterCommitKeeps ==
    ASSUME OInv, NEW t \in Txns, NEW h \in OutboxHooks, AfterCommit(t, h) PROVE OInv'
<1> DEFINE x == [txn[t] EXCEPT !.hooks = Append(@, h)]
<1>1. Append(txn[t].hooks, h) \in Seq(OutboxHooks)
    BY TxnKnown, AppendProperties
<1>2. x \in TxnRecords /\ txn' = [txn EXCEPT ![t] = x]
    BY <1>1, TxnKnown DEF AfterCommit, OInv, TxnsInv, TxnRecords
<1>3. txn[t].ended = "no" /\ txn[t].ran = <<>> /\ txn[t].pc = "open"
    BY TxnKnown DEF AfterCommit, TxnInv
<1>4. x.ended = "no" /\ x.ran = <<>> /\ x.pc = "open" /\ x.hooks = Append(txn[t].hooks, h)
    BY <1>3, TxnKnown DEF TxnRecords
<1>5. Len(<<>>) = 0 /\ Len(Append(txn[t].hooks, h)) \in Nat
    BY <1>1, EmptySeq, LenProperties
<1>6. TxnInv(x)
    BY <1>4, <1>5 DEF TxnInv
<1> QED
    BY <1>2, <1>3, <1>6, OneTxn DEF AfterCommit, OInv

LEMMA RunHookKeeps == ASSUME OInv, NEW t \in Txns, RunHook(t) PROVE OInv'
<1> DEFINE n == Len(txn[t].ran)
           h == txn[t].hooks[n + 1]
           pc == IF n + 1 = Len(txn[t].hooks) THEN "done" ELSE "hooks"
           x == [txn[t] EXCEPT !.ran = Append(@, h), !.pc = pc]
<1>1. /\ txn[t].pc = "hooks" /\ txn[t].ended = "committed" /\ txn[t].own /\ n \in Nat /\ n < Len(txn[t].hooks)
      /\ \A i \in 1..n : txn[t].ran[i] = txn[t].hooks[i]
    BY TxnKnown DEF RunHook, TxnInv
<1>2. h \in OutboxHooks
    BY <1>1, TxnKnown, ElementOfSeq
<1> HIDE DEF h
<1>3. /\ Append(txn[t].ran, h) \in Seq(OutboxHooks) /\ Len(Append(txn[t].ran, h)) = n + 1
      /\ \A i \in 1..n : Append(txn[t].ran, h)[i] = txn[t].ran[i]
      /\ Append(txn[t].ran, h)[n + 1] = h
    BY <1>2, TxnKnown, AppendProperties
<1>4. x \in TxnRecords
    BY <1>3, TxnKnown DEF TxnRecords
<1>5. txn' = [txn EXCEPT ![t] = x]
    BY <1>1 DEF RunHook, OInv, TxnsInv, h
<1>6. /\ x.pc = pc /\ x.ran = Append(txn[t].ran, h) /\ x.hooks = txn[t].hooks
      /\ x.ended = "committed" /\ x.own /\ x.staged = txn[t].staged
    BY <1>1, TxnKnown DEF TxnRecords
<1>7. TxnInv(x)
  <2>1. \A i \in 1..(n + 1) : Append(txn[t].ran, h)[i] = txn[t].hooks[i]
      BY <1>1, <1>3 DEF h
  <2>2. n + 1 <= Len(txn[t].hooks) /\ (pc = "hooks" => n + 1 < Len(txn[t].hooks))
      BY <1>1, TxnKnown
  <2> HIDE DEF x
  <2> QED
      BY <1>3, <1>6, <2>1, <2>2 DEF TxnInv
<1> QED
    BY <1>1, <1>4, <1>5, <1>6, <1>7, OneTxn DEF RunHook, OInv

\* A transaction that has just ended has run no hook.
LEMMA NothingRan ==
    ASSUME NEW x \in TxnRecords, x.pc \in {"hooks", "done"}, x.ran = <<>>, x.hooks \in Seq(OutboxHooks),
           x.pc = "hooks" => x.ended = "committed" /\ x.own /\ x.hooks # <<>>
    PROVE  TxnInv(x)
<1>1. Len(x.ran) = 0
    BY EmptySeq
<1>2. Len(x.hooks) \in Nat /\ (x.pc = "hooks" => Len(x.hooks) \in Nat \ {0})
    BY EmptySeq, LenProperties
<1>3. x.pc = "hooks" => x.ended = "committed" /\ x.own
    OBVIOUS
<1> QED
    BY <1>1, <1>2, <1>3 DEF TxnInv

LEMMA CommitKeeps == ASSUME OInv, NEW t \in Txns, Commit(t) PROVE OInv'
<1>1. txn[t].pc = "open" /\ txn[t].ended = "no" /\ txn[t].ran = <<>>
    BY TxnKnown DEF Commit, TxnInv
<1>2. PICK pc \in {"hooks", "done"}, en \in {"committed", "in doubt"} :
          /\ txn' = [txn EXCEPT ![t].pc = pc, ![t].ended = en]
          /\ pc = "hooks" => txn[t].own /\ txn[t].hooks # <<>> /\ en = "committed"
  <2>1. CASE txn' = [txn EXCEPT ![t].pc = "done", ![t].ended = "in doubt"]
      BY <2>1
  <2>2. CASE txn[t].own /\ txn[t].hooks # <<>> /\ txn' = [txn EXCEPT ![t].pc = "hooks", ![t].ended = "committed"]
      BY <2>2
  <2>3. CASE txn' = [txn EXCEPT ![t].pc = "done", ![t].ended = "committed"]
      BY <2>3
  <2> QED
      BY <2>1, <2>2, <2>3 DEF Commit
<1> PICK x : x = [txn[t] EXCEPT !.pc = pc, !.ended = en]
    OBVIOUS
<1>3. txn' = [txn EXCEPT ![t] = x]
    BY <1>2 DEF OInv, TxnsInv
<1>4. /\ x \in TxnRecords /\ x.pc = pc /\ x.ended = en /\ x.staged = txn[t].staged /\ x.own = txn[t].own
      /\ x.ran = <<>> /\ x.hooks = txn[t].hooks
    BY <1>1, TxnKnown DEF TxnRecords
<1>6. TxnInv(x)
  <2>1. x.pc \in {"hooks", "done"} /\ x.ran = <<>> /\ x.hooks \in Seq(OutboxHooks)
      BY <1>2, <1>4, TxnKnown
  <2>2. x.pc = "hooks" => x.ended = "committed" /\ x.own /\ x.hooks # <<>>
      BY <1>2, <1>4
  <2> QED
      BY <1>4, <2>1, <2>2, NothingRan
<1>7. catalog' = catalog /\ CatalogInv
    BY DEF Commit, OInv
<1>8. TxnsInv'
    BY <1>3, <1>4, <1>6, <1>7, CatalogStays DEF OInv, TxnsInv
<1>9. \A e \in EventIDs : Committed(e) => Committed(e)'
  <2>1. ASSUME NEW u \in Txns, txn[u].ended \in {"committed", "in doubt"}
        PROVE  txn'[u].ended \in {"committed", "in doubt"} /\ txn[u].staged \subseteq txn'[u].staged
      BY <1>3, <1>4, <2>1 DEF OInv, TxnsInv
  <2> QED
      BY <1>7, <2>1, CommittedStays
<1>10. ASSUME NEW e \in EventIDs
       PROVE  \/ record'[e] = record[e]
              \/ RowOf(e, record'[e]) /\ Committed(e)'
  <2>1. CASE \E b \in txn[t].staged : b.ev = e
    <3> DEFINE b == CHOOSE b \in txn[t].staged : b.ev = e
    <3>1. b \in txn[t].staged /\ b.ev = e
        BY <2>1
    <3>2. record'[e] = [st |-> "pending", topic |-> b.topic, payload |-> b.payload, due |-> TRUE]
        BY <2>1 DEF Commit
    <3> HIDE DEF b
    <3>3. PICK d \in EventIDs : Storable(d) /\ b = Built(d)
        BY <3>1, TxnKnown DEF TxnRecords, AllBuilt
    <3>4. d = e /\ b.topic = Topic(e) /\ b.payload = Payload(e)
        BY <3>1, <3>3 DEF Built
    <3>5. RowOf(e, record'[e])
      <4>1. record'[e] = [st |-> "pending", topic |-> Topic(e), payload |-> Payload(e), due |-> TRUE]
          BY <3>2, <3>4
      <4>2. TRUE \in BOOLEAN /\ Storable(e)
          BY <3>3, <3>4
      <4>3. \A late \in BOOLEAN : RowOf(e, [st |-> "pending", topic |-> Topic(e), payload |-> Payload(e), due |-> late])
          BY <4>2 DEF RowOf
      <4> QED
          BY <4>1, <4>2, <4>3, Zenon
    <3>6. Built(e) \in txn'[t].staged /\ txn'[t].ended = en
        BY <1>3, <1>4, <3>1, <3>3, <3>4 DEF OInv, TxnsInv
    <3>7. Committed(e)'
        BY <1>7, <3>6, CatalogStays DEF Committed
    <3> QED
        BY <3>5, <3>7
  <2>2. CASE ~\E b \in txn[t].staged : b.ev = e
      BY <2>2 DEF Commit
  <2> QED
      BY <2>1, <2>2
<1>11. record' = [e \in EventIDs |-> record'[e]]
    BY DEF Commit
<1>12. RowsInv'
  <2>1. ASSUME NEW e \in EventIDs PROVE record'[e] = NoRecord \/ (RowOf(e, record[e])' /\ Committed(e)')
    <3>1. RowOf(e, record'[e]) => RowOf(e, record[e])'
        BY <1>7, CatalogStays DEF RowOf, Payload
    <3>2. RowOf(e, record[e]) /\ record'[e] = record[e] => RowOf(e, record[e])'
        BY <1>7, CatalogStays DEF RowOf, Payload
    <3> QED
        BY <1>9, <1>10, <3>1, <3>2 DEF OInv, RowsInv
  <2> QED
      BY <1>11, <2>1 DEF RowsInv
<1>13. ASSUME NEW e \in EventIDs, record[e] # NoRecord PROVE record'[e] # NoRecord
  <2>1. RowOf(e, record'[e]) => record'[e].st # "none"
      BY DEF RowOf
  <2> QED
      BY <1>10, <1>13, <2>1, NoRecordYet
<1>14. ClaimsInv'
    BY <1>13 DEF Commit, OInv, ClaimsInv, ClaimOf, Claims
<1>15. \A m \in broker' : MessageOf(m)'
    BY <1>7, <1>9, MessageStays DEF Commit
<1> QED
    BY <1>7, <1>8, <1>12, <1>14, <1>15, CatalogStays DEF Commit, OInv

-----------------------------------------------------------------------------
\* A step of relays that changes neither transactions nor catalog.
LEMMA RelaySide ==
    ASSUME OInv, UNCHANGED <<catalog, txn>>, RowsInv', ClaimsInv',
           \A m \in broker' : m \in broker \/ MessageOf(m)',
           crashes' \in 0..MaxCrashes, refusals' \in 0..MaxRefusals
    PROVE  OInv'
<1>1. TxnsInv'
    BY CatalogStays DEF OInv, TxnsInv, TxnInv
<1>2. \A e \in EventIDs : Committed(e) => Committed(e)'
    BY CommittedStays DEF OInv
<1>3. \A m \in broker' : MessageOf(m)'
    BY <1>2, MessageStays
<1> QED
    BY <1>1, <1>3, CatalogStays DEF OInv

\* Nothing happens to the rows.
LEMMA RowsStay == ASSUME OInv, UNCHANGED <<catalog, txn, record>> PROVE RowsInv'
<1>1. \A e \in EventIDs : Committed(e) => Committed(e)'
    BY CommittedStays DEF OInv
<1> QED
    BY <1>1, CatalogStays DEF OInv, RowsInv

LEMMA RowStepKeeps ==
    ASSUME OInv, NEW e \in EventIDs, record[e] # NoRecord, NEW due \in BOOLEAN,
           NEW st \in {"pending", "publishing", "published", "failed"},
           \/ record' = [record EXCEPT ![e].st = st] \/ record' = [record EXCEPT ![e].due = due]
           \/ record' = [record EXCEPT ![e].st = st, ![e].due = due],
           UNCHANGED <<catalog, txn>>
    PROVE  RowsInv' /\ \A d \in EventIDs : record[d] # NoRecord => record'[d] # NoRecord
<1>1. RowOf(e, record[e])
    BY RowKnown
<1>2. PICK row : RowOf(e, row) /\ record' = [record EXCEPT ![e] = row]
  <2>1. CASE record' = [record EXCEPT ![e].st = st]
      BY <1>1, <2>1, RowMoves
  <2>2. CASE record' = [record EXCEPT ![e].due = due]
      BY <1>1, <2>2, RowMoves
  <2>3. CASE record' = [record EXCEPT ![e].st = st, ![e].due = due]
    <3>1. record' = [record EXCEPT ![e] = [record[e] EXCEPT !.st = st, !.due = due]]
        BY <2>3 DEF OInv, RowsInv
    <3> QED
        BY <1>1, <3>1, RowMoves
  <2> QED
      BY <2>1, <2>2, <2>3
<1> QED
    BY <1>2, OneRow

LEMMA ClaimKeeps == ASSUME OInv, NEW r \in Relays, NEW e \in EventIDs, ClaimDueEvents(r, e) PROVE OInv'
<1>1. record[e] # NoRecord
    BY NoRecordYet DEF ClaimDueEvents, Claimable
<1>2. CASE record[e].payload.json
  <2> DEFINE c == [pc |-> "claimed", ev |-> e, msg |-> <<>>]
  <2>1. relay' = [relay EXCEPT ![r] = c] /\ record' = [record EXCEPT ![e].st = "publishing", ![e].due = FALSE]
      BY <1>2 DEF ClaimDueEvents
  <2>2. RowsInv' /\ \A d \in EventIDs : record[d] # NoRecord => record'[d] # NoRecord
      BY <1>1, <2>1, RowStepKeeps DEF ClaimDueEvents
  <2>3. ClaimOf(c)'
      BY <1>1, <2>2 DEF ClaimOf, Claims
  <2>4. ClaimsInv'
      BY <2>1, <2>2, <2>3, OneRelay DEF OInv
  <2> QED
      BY <2>2, <2>4, RelaySide DEF ClaimDueEvents, OInv
<1>3. CASE ~record[e].payload.json
  <2>1. record' = [record EXCEPT ![e].st = "failed", ![e].due = FALSE] /\ relay' = relay
      BY <1>3 DEF ClaimDueEvents, NewDecodeFailureTransition, NewFailedTransition
  <2>2. RowsInv' /\ \A d \in EventIDs : record[d] # NoRecord => record'[d] # NoRecord
      BY <1>1, <2>1, RowStepKeeps DEF ClaimDueEvents
  <2>3. ClaimsInv'
      BY <2>1, <2>2 DEF OInv, ClaimsInv, ClaimOf, Claims
  <2> QED
      BY <2>2, <2>3, RelaySide DEF ClaimDueEvents, OInv
<1> QED
    BY <1>2, <1>3

LEMMA BuildMessageKeeps == ASSUME OInv, NEW r \in Relays, BuildMessage(r) PROVE OInv'
<1> DEFINE e == relay[r].ev
<1> PICK c : c = [relay[r] EXCEPT !.pc = "publish", !.msg = record[e].payload]
    OBVIOUS
<1>1. relay[r].pc = "claimed" /\ ClaimOf(relay[r]) /\ e \in EventIDs /\ record[e].payload = Payload(e)
    BY ClaimKnown, RowKnown DEF BuildMessage
<1>2. ClaimOf(c)
    BY <1>1 DEF ClaimOf, Claims
<1>3. relay' = [relay EXCEPT ![r] = c]
    BY DEF BuildMessage, OInv, ClaimsInv
<1>4. ClaimOf(c)'
    BY <1>2 DEF BuildMessage, ClaimOf
<1>5. ClaimsInv'
    BY <1>3, <1>4, OneRelay DEF BuildMessage, OInv
<1>6. RowsInv'
    BY RowsStay DEF BuildMessage
<1> QED
    BY <1>5, <1>6, RelaySide DEF BuildMessage, OInv

\* A relay that has published, or could not, goes on with its record.
LEMMA ClaimMoves ==
    ASSUME OInv, NEW r \in Relays, relay[r].pc = "publish", NEW pc \in {"published", "failed"},
           relay' = [relay EXCEPT ![r].pc = pc], UNCHANGED record
    PROVE  ClaimsInv'
<1> PICK c : c = [relay[r] EXCEPT !.pc = pc]
    OBVIOUS
<1>1. ClaimOf(c)
    BY ClaimKnown DEF ClaimOf, Claims
<1>2. ClaimOf(c)'
    BY <1>1 DEF ClaimOf
<1>3. relay' = [relay EXCEPT ![r] = c]
    BY DEF OInv, ClaimsInv
<1> QED
    BY <1>2, <1>3, OneRelay DEF OInv

LEMMA RefusalCounted ==
    ASSUME OInv, refusals' = refusals \/ (refusals < MaxRefusals /\ refusals' = refusals + 1)
    PROVE  refusals' \in 0..MaxRefusals
<1>1. refusals \in 0..MaxRefusals
    BY DEF OInv
<1> QED
    BY <1>1, OutboxBounds

LEMMA PublishRecordKeeps ==
    ASSUME OInv, NEW r \in Relays, NEW taken \in BOOLEAN, PublishRecord(r, taken) PROVE OInv'
<1> PICK e : e = relay[r].ev
    OBVIOUS
<1> PICK m : m = [topic |-> record[e].topic, id |-> relay[r].msg.id, type |-> relay[r].msg.type, event |-> e]
    OBVIOUS
<1> DEFINE pc == IF taken THEN "published" ELSE "failed"
<1>1. relay[r].pc = "publish" /\ broker' = broker \cup {m} /\ relay' = [relay EXCEPT ![r].pc = pc]
      /\ UNCHANGED <<catalog, txn, record, crashes>>
    BY DEF PublishRecord
<1>2. /\ e \in EventIDs /\ record[e] # NoRecord /\ relay[r].msg = Payload(e)
      /\ RowOf(e, record[e]) /\ Committed(e) /\ record[e].topic = Topic(e)
    BY <1>1, ClaimKnown, RowKnown
<1>3. MessageOf(m)
    BY <1>2 DEF MessageOf, RowOf
<1>4. MessageOf(m)'
  <2>1. \A d \in EventIDs : (Committed(d) => Committed(d)')
      BY <1>1, CommittedStays DEF OInv
  <2>2. Storable(e)' /\ Committed(e)' /\ Topic(e)' = Topic(e)
      BY <1>1, <1>2, <2>1, CatalogStays DEF OInv, RowOf
  <2>3. m = [topic |-> Topic(e), id |-> Payload(e).id, type |-> Payload(e).type, event |-> e]
      BY <1>2
  <2> QED
      BY <1>2, <2>2, <2>3 DEF MessageOf, Payload
<1>5. ClaimsInv'
    BY <1>1, ClaimMoves
<1>6. refusals' \in 0..MaxRefusals
    BY RefusalCounted DEF PublishRecord
<1>7. RowsInv'
    BY <1>1, RowsStay
<1> QED
    BY <1>1, <1>4, <1>5, <1>6, <1>7, RelaySide DEF OInv

LEMMA RefusedKeeps == ASSUME OInv, NEW r \in Relays, Refused(r) PROVE OInv'
<1>1. ClaimsInv' /\ refusals' \in 0..MaxRefusals
    BY ClaimMoves, RefusalCounted DEF Refused
<1>2. RowsInv'
    BY RowsStay DEF Refused
<1> QED
    BY <1>1, <1>2, RelaySide DEF Refused, OInv

\* A relay marks its record and drops its claim.
LEMMA MarkKeeps == ASSUME OInv, NEW r \in Relays, MarkPublished(r) \/ MarkFailed(r) PROVE OInv'
<1> DEFINE e == relay[r].ev
<1>1. relay' = [relay EXCEPT ![r] = NoClaim] /\ relay[r].pc # "idle"
      /\ UNCHANGED <<catalog, txn, broker, crashes, refusals>>
    BY DEF MarkPublished, MarkFailed
<1>2. e \in EventIDs /\ record[e] # NoRecord
    BY <1>1, ClaimKnown
<1>3. \/ record' = [record EXCEPT ![e].st = "published"]
      \/ record' = [record EXCEPT ![e].st = "failed", ![e].due = FALSE]
    BY DEF MarkPublished, MarkFailed, NewPublishedTransition, NewFailedTransition
<1>4. RowsInv' /\ \A d \in EventIDs : record[d] # NoRecord => record'[d] # NoRecord
    BY <1>1, <1>2, <1>3, RowStepKeeps
<1>5. ClaimsInv'
    BY <1>1, <1>4, OneRelay DEF OInv
<1> QED
    BY <1>1, <1>4, <1>5, RelaySide DEF OInv

LEMMA CrashRelayKeeps == ASSUME OInv, NEW r \in Relays, CrashRelay(r) PROVE OInv'
<1>1. crashes' \in 0..MaxCrashes
  <2>1. crashes \in 0..MaxCrashes /\ crashes < MaxCrashes /\ crashes' = crashes + 1
      BY DEF CrashRelay, OInv
  <2> QED
      BY <2>1, OutboxBounds
<1>2. ClaimsInv'
    BY OneRelay DEF CrashRelay, OInv
<1>3. RowsInv'
    BY RowsStay DEF CrashRelay
<1> QED
    BY <1>1, <1>2, <1>3, RelaySide DEF CrashRelay, OInv

\* NextAttemptAt comes, or a record goes stale.
LEMMA DueKeeps == ASSUME OInv, NEW e \in EventIDs, Due(e) \/ Stale(e) PROVE OInv'
<1>1. record[e] # NoRecord
    BY NoRecordYet DEF Due, Stale
<1>2. RowsInv' /\ \A d \in EventIDs : record[d] # NoRecord => record'[d] # NoRecord
    BY <1>1, RowStepKeeps DEF Due, Stale
<1>3. ClaimsInv'
    BY <1>2 DEF Due, Stale, OInv, ClaimsInv, ClaimOf, Claims
<1> QED
    BY <1>2, <1>3, RelaySide DEF Due, Stale, OInv

LEMMA OInvStep == ASSUME OInv, [OutboxNext]_obVars PROVE OInv'
<1>1. ASSUME NEW t \in Txns, NEW own \in BOOLEAN, Begin(t, own) PROVE OInv'
    BY <1>1, BeginKeeps
<1>2. ASSUME NEW t \in Txns, Nested(t) \/ NestedReturns(t) PROVE OInv'
    BY <1>2, NestedKeeps
<1>3. ASSUME NEW t \in Txns, Rollback(t) PROVE OInv'
    BY <1>3, RollbackKeeps
<1>4. ASSUME NEW t \in Txns, Commit(t) PROVE OInv'
    BY <1>4, CommitKeeps
<1>5. ASSUME NEW t \in Txns, RunHook(t) PROVE OInv'
    BY <1>5, RunHookKeeps
<1>6. ASSUME NEW t \in Txns, CrashTxn(t) PROVE OInv'
    BY <1>6, CrashTxnKeeps
<1>7. ASSUME NEW t \in Txns, NEW es \in SUBSET EventIDs, Stage(t, es) PROVE OInv'
    BY <1>7, StageKeeps
<1>8. ASSUME NEW t \in Txns, NEW h \in OutboxHooks, AfterCommit(t, h) PROVE OInv'
    BY <1>8, AfterCommitKeeps
<1>9. ASSUME NEW r \in Relays, NEW e \in EventIDs, ClaimDueEvents(r, e) PROVE OInv'
    BY <1>9, ClaimKeeps
<1>10. ASSUME NEW r \in Relays, BuildMessage(r) PROVE OInv'
    BY <1>10, BuildMessageKeeps
<1>11. ASSUME NEW r \in Relays, NEW taken \in BOOLEAN, PublishRecord(r, taken) PROVE OInv'
    BY <1>11, PublishRecordKeeps
<1>12. ASSUME NEW r \in Relays, Refused(r) PROVE OInv'
    BY <1>12, RefusedKeeps
<1>13. ASSUME NEW r \in Relays, MarkPublished(r) \/ MarkFailed(r) PROVE OInv'
    BY <1>13, MarkKeeps
<1>14. ASSUME NEW r \in Relays, CrashRelay(r) PROVE OInv'
    BY <1>14, CrashRelayKeeps
<1>15. ASSUME NEW e \in EventIDs, Due(e) \/ Stale(e) PROVE OInv'
    BY <1>15, DueKeeps
<1>16. CASE UNCHANGED obVars
  <2>1. RowsInv'
      BY <1>16, RowsStay DEF obVars
  <2>2. ClaimsInv'
      BY <1>16 DEF obVars, OInv, ClaimsInv, ClaimOf, Claims
  <2> QED
      BY <1>16, <2>1, <2>2, RelaySide DEF obVars, OInv
<1> QED
    BY <1>1, <1>2, <1>3, <1>4, <1>5, <1>6, <1>7, <1>8, <1>9, <1>10, <1>11, <1>12, <1>13, <1>14, <1>15,
       <1>16 DEF OutboxNext, RelayStep

\* Whatever transactions, relays and crashes do: only committed events reach the
\* broker, hooks run after the commit, once and in order, and a message says what
\* the event is and lands where a subscription knows it.
THEOREM OutboxHolds == OutboxSpec => []OutboxInv
<1> QED
    BY OInvInit, OInvStep, OInvImplies, PTL DEF OutboxSpec

-----------------------------------------------------------------------------
(* The outbox contract.                                                     *)

\* An event is staged by one transaction only.
StagedOnce ==
    \A t, u \in Txns : \A b \in txn[t].staged, c \in txn[u].staged : b.ev = c.ev => t = u

\* What the broker has was committed, and what is marked or about to be marked
\* as published the broker has.
SentKept ==
    /\ \A m \in broker : m.event \in EventIDs /\ record[m.event] # NoRecord
    /\ \A e \in EventIDs : record[e].st = "published" => e \in Sent
    /\ \A r \in Relays : relay[r].pc = "published" => relay[r].ev \in Sent

SInv == OInv /\ StagedOnce /\ SentKept

StepImplements == [Outbox!Next]_(Outbox!ocVars)

\* An event with a row was staged by a transaction that has ended.
LEMMA RowStaged ==
    ASSUME OInv, NEW e \in EventIDs, record[e] # NoRecord
    PROVE  \E t \in Txns : txn[t].ended # "no" /\ \E b \in txn[t].staged : b.ev = e
<1>1. PICK t \in Txns : txn[t].ended \in {"committed", "in doubt"} /\ Built(e) \in txn[t].staged
    BY RowKnown DEF Committed
<1>2. Built(e).ev = e
    BY DEF Built
<1> QED
    BY <1>1, <1>2

\* A transaction that goes on, or ends, with what it has staged, and writes no row.
LEMMA TxnMoves ==
    ASSUME SInv, NEW t \in Txns, NEW x \in TxnRecords, txn' = [txn EXCEPT ![t] = x],
           x.staged = txn[t].staged, x.ended = txn[t].ended \/ x.ended # "no",
           UNCHANGED <<record, relay, broker>>
    PROVE  StagedOnce' /\ SentKept' /\ StepImplements
<1>1. \A u \in Txns : /\ txn'[u].staged = txn[u].staged
                      /\ u # t => txn'[u] = txn[u]
                      /\ u = t => txn'[u] = x
    BY DEF SInv, OInv, TxnsInv
<1>2. StagedOnce'
    BY <1>1 DEF SInv, StagedOnce
<1>3. Owed' = Owed /\ Sent' = Sent
    BY DEF Owed, Sent
<1>4. SentKept'
    BY <1>3 DEF SInv, SentKept
<1>5. CASE x.ended = txn[t].ended
  <2>1. \A u \in Txns : txn'[u].ended = txn[u].ended
      BY <1>1, <1>5
  <2>2. Staged' = Staged
      BY <1>1, <2>1 DEF Staged
  <2> QED
      BY <1>2, <1>3, <1>4, <2>2 DEF StepImplements, Outbox!ocVars
<1>6. CASE x.ended # "no"
  <2>1. /\ Staged' = [u \in Txns |-> IF u = t THEN {} ELSE Staged[u]]
        /\ Staged = [u \in Txns |-> Staged[u]]
      BY <1>1, <1>6 DEF Staged
  <2>2. Staged' = [Staged EXCEPT ![t] = {}]
      BY <2>1
  <2>3. Outbox!Rollback(t)
      BY <1>3, <2>2 DEF Outbox!Rollback
  <2> QED
      BY <1>2, <1>4, <2>3 DEF StepImplements, Outbox!Next
<1> QED
    BY <1>5, <1>6

\* The steps of transactions that neither stage nor commit.
LEMMA TxnStepsImplement ==
    ASSUME SInv, NEW t \in Txns,
           \/ \E own \in BOOLEAN : Begin(t, own)
           \/ Nested(t) \/ NestedReturns(t) \/ Rollback(t) \/ CrashTxn(t) \/ RunHook(t)
           \/ \E h \in OutboxHooks : AfterCommit(t, h),
           TxnsInv', TxnRecords' = TxnRecords
    PROVE  StagedOnce' /\ SentKept' /\ StepImplements
<1> PICK x : x = txn'[t]
    OBVIOUS
<1>0. txn[t] \in TxnRecords /\ x \in TxnRecords
    BY TxnKnown DEF SInv, TxnsInv
<1>1. txn = [u \in Txns |-> txn[u]] /\ DOMAIN txn = Txns
    BY DEF SInv, OInv, TxnsInv
<1> DEFINE Moved == /\ txn' = [txn EXCEPT ![t] = x]
                    /\ x.staged = txn[t].staged
                    /\ x.ended = txn[t].ended \/ x.ended # "no"
                    /\ UNCHANGED <<record, relay, broker>>
<1>2. Moved
  <2>1. ASSUME NEW own \in BOOLEAN, Begin(t, own) PROVE Moved
      BY <1>0, <1>1, <2>1 DEF Begin, TxnRecords
  <2>2. CASE Nested(t)
      BY <1>0, <1>1, <2>2 DEF Nested, TxnRecords
  <2>2a. CASE NestedReturns(t)
      BY <1>0, <1>1, <2>2a DEF NestedReturns, TxnRecords
  <2>3. CASE Rollback(t)
      BY <1>0, <1>1, <2>3 DEF Rollback, TxnRecords
  <2>4. CASE CrashTxn(t)
      BY <1>0, <1>1, <2>4 DEF CrashTxn, TxnRecords
  <2>5. CASE RunHook(t)
      BY <1>0, <1>1, <2>5 DEF RunHook, TxnRecords
  <2>6. ASSUME NEW h \in OutboxHooks, AfterCommit(t, h) PROVE Moved
      BY <1>0, <1>1, <2>6 DEF AfterCommit, TxnRecords
  <2> QED
      BY <2>1, <2>2, <2>2a, <2>3, <2>4, <2>5, <2>6
<1> QED
    BY <1>0, <1>2, TxnMoves

\* Stage: the events are new, or the transaction is rolled back.
LEMMA StageImplements ==
    ASSUME SInv, NEW t \in Txns, NEW es \in SUBSET EventIDs, Stage(t, es), TxnsInv', TxnRecords' = TxnRecords
    PROVE  StagedOnce' /\ SentKept' /\ StepImplements
<1>0. /\ txn[t].ended = "no" /\ txn[t] \in TxnRecords /\ OInv
      /\ UNCHANGED <<record, relay, broker>>
    BY TxnKnown DEF SInv, Stage, TxnInv
<1>0a. ASSUME NEW e \in es, NEW u \in Txns, NEW b \in txn[u].staged PROVE b.ev # e
  <2>1. \A c \in UNION {txn[v].staged : v \in Txns} : c.ev # e
      BY DEF Stage
  <2>2. b \in UNION {txn[v].staged : v \in Txns}
      OBVIOUS
  <2> QED
      BY <2>1, <2>2
<1>1. CASE ~BuildRecords(es).ok
  <2> PICK x : x = [txn[t] EXCEPT !.pc = "done", !.ended = "rolled back"]
      OBVIOUS
  <2>1. x \in TxnRecords /\ x.staged = txn[t].staged /\ x.ended # "no"
      BY <1>0 DEF TxnRecords
  <2>2. txn' = [txn EXCEPT ![t] = x]
      BY <1>0, <1>1 DEF Stage, OInv, TxnsInv
  <2> QED
      BY <1>0, <2>1, <2>2, TxnMoves
<1>2. CASE BuildRecords(es).ok
  <2> PICK new : new = BuildRecords(es).records
      OBVIOUS
  <2>1. new = {Built(e) : e \in es}
      BY <1>2, BuildRecordsBuilds
  <2>2. {b.ev : b \in new} = es
    <3>1. \A e \in es : Built(e) \in new /\ Built(e).ev = e
        BY <2>1 DEF Built
    <3>2. ASSUME NEW b \in new PROVE b.ev \in es
      <4>1. PICK e \in es : b = Built(e)
          BY <2>1
      <4> QED
          BY <3>1, <4>1
    <3> QED
        BY <3>1, <3>2
  <2> PICK x : x = [txn[t] EXCEPT !.staged = txn[t].staged \cup new]
      OBVIOUS
  <2>3. txn' = [txn EXCEPT ![t] = x] /\ x.staged = txn[t].staged \cup new /\ x.ended = "no"
      BY <1>0, <1>2 DEF Stage, OInv, TxnsInv, TxnRecords
  <2>4. /\ txn'[t] = x
        /\ \A u \in Txns : u # t => txn'[u] = txn[u]
      BY <1>0, <2>3 DEF OInv, TxnsInv
  <2>5. StagedOnce'
    <3> SUFFICES ASSUME NEW u \in Txns, NEW v \in Txns, NEW b \in txn'[u].staged, NEW c \in txn'[v].staged,
                        b.ev = c.ev
                 PROVE  u = v
        BY DEF StagedOnce
    <3>1. (b \in new => b.ev \in es) /\ (c \in new => c.ev \in es)
        BY <2>2
    <3>2. b \in txn[u].staged \/ (u = t /\ b \in new)
        BY <2>3, <2>4
    <3>3. c \in txn[v].staged \/ (v = t /\ c \in new)
        BY <2>3, <2>4
    <3> QED
        BY <1>0a, <3>1, <3>2, <3>3 DEF SInv, StagedOnce
  <2>6. Owed' = Owed /\ Sent' = Sent
      BY <1>0 DEF Owed, Sent
  <2>7. SentKept'
      BY <1>0, <2>6 DEF SInv, SentKept
  <2>8. /\ Staged' = [u \in Txns |-> IF u = t THEN Staged[t] \cup es ELSE Staged[u]]
        /\ Staged = [u \in Txns |-> Staged[u]]
    <3>1. {b.ev : b \in txn'[t].staged} = {b.ev : b \in txn[t].staged} \cup es
        BY <2>2, <2>3, <2>4
    <3>2. /\ Staged[t] = {b.ev : b \in txn[t].staged}
          /\ Staged = [u \in Txns |-> Staged[u]]
        BY <1>0 DEF Staged
    <3>3. /\ Staged'[t] = {b.ev : b \in txn'[t].staged}
          /\ \A u \in Txns : u # t => Staged'[u] = Staged[u]
          /\ Staged' = [u \in Txns |-> Staged'[u]]
        BY <2>3, <2>4 DEF Staged
    <3> QED
        BY <3>1, <3>2, <3>3
  <2>9. Staged' = [Staged EXCEPT ![t] = @ \cup es]
      BY <2>8
  <2>10. \A e \in es : record[e] = NoRecord
      BY <1>0, <1>0a, RowStaged
  <2>11. es \cap (Owed \cup Sent \cup UNION {Staged[u] : u \in Txns}) = {}
    <3>1. es \cap Owed = {}
        BY <2>10, NoRecordYet DEF Owed
    <3>2. es \cap Sent = {}
        BY <2>10 DEF SInv, SentKept, Sent
    <3>3. \A u \in Txns : es \cap Staged[u] = {}
        BY <1>0a DEF Staged
    <3> QED
        BY <3>1, <3>2, <3>3
  <2>12. Outbox!Stage(t, es)
      BY <2>6, <2>9, <2>11 DEF Outbox!Stage
  <2> QED
      BY <2>5, <2>7, <2>12 DEF StepImplements, Outbox!Next
<1> QED
    BY <1>1, <1>2

\* Commit: the rows of the transaction, all of them, and no others.
LEMMA CommitImplements ==
    ASSUME SInv, NEW t \in Txns, Commit(t)
    PROVE  StagedOnce' /\ SentKept' /\ StepImplements
<1>0. txn[t].ended = "no" /\ txn[t] \in TxnRecords /\ OInv /\ UNCHANGED <<relay, broker>>
    BY TxnKnown DEF SInv, Commit, TxnInv
<1>1. PICK pc \in {"hooks", "done"}, en \in {"committed", "in doubt"} :
          txn' = [txn EXCEPT ![t].pc = pc, ![t].ended = en]
  <2>1. CASE txn' = [txn EXCEPT ![t].pc = "done", ![t].ended = "in doubt"]
      BY <2>1
  <2>2. CASE txn' = [txn EXCEPT ![t].pc = "hooks", ![t].ended = "committed"]
      BY <2>2
  <2>3. CASE txn' = [txn EXCEPT ![t].pc = "done", ![t].ended = "committed"]
      BY <2>3
  <2> QED
      BY <2>1, <2>2, <2>3 DEF Commit
<1> PICK x : x = [txn[t] EXCEPT !.pc = pc, !.ended = en]
    OBVIOUS
<1>2. x.staged = txn[t].staged /\ x.ended # "no"
    BY <1>0 DEF TxnRecords
<1>3. /\ txn'[t] = x
      /\ \A u \in Txns : u # t => txn'[u] = txn[u]
    BY <1>0, <1>1 DEF OInv, TxnsInv
<1>4. \A u \in Txns : txn'[u].staged = txn[u].staged
    BY <1>2, <1>3
<1>5. StagedOnce'
    BY <1>4 DEF SInv, StagedOnce
<1> PICK es : es = {b.ev : b \in txn[t].staged}
    OBVIOUS
<1>6. ASSUME NEW e \in es PROVE e \in EventIDs /\ record[e] = NoRecord
  <2>1. PICK b \in txn[t].staged : b.ev = e
      OBVIOUS
  <2>2. PICK d \in EventIDs : b = Built(d)
      BY <1>0, <2>1 DEF TxnRecords, AllBuilt
  <2>3. e \in EventIDs
      BY <2>1, <2>2 DEF Built
  <2>4. ASSUME record[e] # NoRecord PROVE FALSE
    <3>1. PICK u \in Txns : txn[u].ended # "no" /\ \E c \in txn[u].staged : c.ev = e
        BY <1>0, <2>3, <2>4, RowStaged
    <3>2. u = t
        BY <2>1, <3>1 DEF SInv, StagedOnce
    <3> QED
        BY <1>0, <3>1, <3>2
  <2> QED
      BY <2>3, <2>4
<1>7. \A e \in EventIDs : IF e \in es THEN record'[e].st = "pending" ELSE record'[e] = record[e]
    BY DEF Commit
<1>8. Sent' = Sent /\ Owed' = Owed \cup es
    BY <1>0, <1>6, <1>7 DEF Sent, Owed
<1>9. SentKept'
  <2>1. \A m \in broker' : m.event \in EventIDs /\ record'[m.event] # NoRecord
      BY <1>0, <1>6, <1>7 DEF SInv, SentKept
  <2>2. \A e \in EventIDs : record'[e].st = "published" => e \in Sent'
      BY <1>7, <1>8 DEF SInv, SentKept
  <2>3. \A r \in Relays : relay'[r].pc = "published" => relay'[r].ev \in Sent'
      BY <1>0, <1>8 DEF SInv, SentKept
  <2> QED
      BY <2>1, <2>2, <2>3 DEF SentKept
<1>10. /\ Staged' = [u \in Txns |-> IF u = t THEN {} ELSE Staged[u]]
       /\ Staged = [u \in Txns |-> Staged[u]] /\ Staged[t] = es
  <2>1. Staged = [u \in Txns |-> Staged[u]] /\ Staged[t] = es
      BY <1>0 DEF Staged
  <2>2. /\ Staged'[t] = {}
        /\ \A u \in Txns : u # t => Staged'[u] = Staged[u]
        /\ Staged' = [u \in Txns |-> Staged'[u]]
      BY <1>2, <1>3 DEF Staged
  <2> QED
      BY <2>1, <2>2
<1>11. Staged' = [Staged EXCEPT ![t] = {}]
    BY <1>10
<1>12. Outbox!Commit(t)
    BY <1>8, <1>10, <1>11 DEF Outbox!Commit
<1> QED
    BY <1>5, <1>9, <1>12 DEF StepImplements, Outbox!Next

\* What a step of relays leaves of the transactions.
LEMMA TxnsApart ==
    ASSUME SInv, txn' = txn
    PROVE  StagedOnce' /\ Staged' = Staged
BY DEF SInv, StagedOnce, Staged

\* A step that moves one row to another state.
LEMMA RowChanges ==
    ASSUME SInv, NEW e \in EventIDs, record[e] # NoRecord, NEW row, record' = [record EXCEPT ![e] = row],
           row # NoRecord, row.st # "none", row.st = "published" => e \in Sent,
           UNCHANGED <<txn, broker>>,
           \A r \in Relays : relay'[r].pc = "published" => relay[r].pc = "published" /\ relay'[r].ev = relay[r].ev
    PROVE  StagedOnce' /\ SentKept' /\ StepImplements
<1>0. StagedOnce' /\ Staged' = Staged /\ Sent' = Sent
    BY TxnsApart DEF Sent
<1>1. /\ record'[e] = row
      /\ \A d \in EventIDs : d # e => record'[d] = record[d]
    BY DEF SInv, OInv, RowsInv
<1>2. SentKept'
    BY <1>0, <1>1 DEF SInv, SentKept
<1>3. record[e].st = "none" => FALSE
    BY RowKnown DEF SInv, RowOf
<1>4. CASE Owed' = Owed
    BY <1>0, <1>2, <1>4 DEF StepImplements, Outbox!ocVars
<1>5. CASE row.st = "published" /\ e \in Owed
  <2>1. Owed' = Owed \ {e}
      BY <1>1, <1>5 DEF Owed
  <2>2. Outbox!Settle(e)
      BY <1>0, <1>5, <2>1 DEF Outbox!Settle
  <2> QED
      BY <1>0, <1>2, <2>2 DEF StepImplements, Outbox!Next
<1>6. CASE row.st # "published" /\ e \notin Owed
  <2>1. e \in Sent
      BY <1>3, <1>6 DEF SInv, SentKept, Owed
  <2>2. Owed' = Owed \cup {e}
      BY <1>1, <1>6 DEF Owed
  <2>3. Outbox!OweAgain(e)
      BY <1>0, <2>1, <2>2 DEF Outbox!OweAgain
  <2> QED
      BY <1>0, <1>2, <2>3 DEF StepImplements, Outbox!Next
<1>7. row.st = "published" /\ e \notin Owed => Owed' = Owed
    BY <1>1 DEF Owed
<1>8. row.st # "published" /\ e \in Owed => Owed' = Owed
    BY <1>1 DEF Owed
<1> QED
    BY <1>4, <1>5, <1>6, <1>7, <1>8

\* A step of one relay that touches no row and sends nothing.
LEMMA RelayMoves ==
    ASSUME SInv, UNCHANGED <<txn, record, broker>>,
           \A r \in Relays : relay'[r].pc = "published" => relay[r].pc = "published" /\ relay'[r].ev = relay[r].ev
    PROVE  StagedOnce' /\ SentKept' /\ StepImplements
<1>1. StagedOnce' /\ Staged' = Staged /\ Sent' = Sent /\ Owed' = Owed
    BY TxnsApart DEF Sent, Owed
<1>2. SentKept'
    BY <1>1 DEF SInv, SentKept
<1> QED
    BY <1>1, <1>2 DEF StepImplements, Outbox!ocVars

\* The broker takes a message: its event is owed, or it was sent before.
LEMMA PublishImplements ==
    ASSUME SInv, NEW r \in Relays, NEW taken \in BOOLEAN, PublishRecord(r, taken)
    PROVE  StagedOnce' /\ SentKept' /\ StepImplements
<1> PICK e : e = relay[r].ev
    OBVIOUS
<1> PICK m : m = [topic |-> record[e].topic, id |-> relay[r].msg.id, type |-> relay[r].msg.type, event |-> e]
    OBVIOUS
<1> PICK pc : pc = IF taken THEN "published" ELSE "failed"
    OBVIOUS
<1>1. relay[r].pc = "publish" /\ broker' = broker \cup {m} /\ relay' = [relay EXCEPT ![r].pc = pc]
      /\ UNCHANGED <<txn, record>>
    BY DEF PublishRecord
<1>2. e \in EventIDs /\ record[e] # NoRecord /\ m.event = e /\ ClaimOf(relay[r])
    BY <1>1, ClaimKnown DEF SInv
<1>3. StagedOnce' /\ Staged' = Staged /\ Owed' = Owed
    BY <1>1, TxnsApart DEF Owed
<1>4. Sent' = Sent \cup {e}
    BY <1>1, <1>2 DEF Sent
<1> PICK c : c = [relay[r] EXCEPT !.pc = pc]
    OBVIOUS
<1>5. c.ev = e
    BY <1>2 DEF ClaimOf, Claims
<1>6. relay' = [relay EXCEPT ![r] = c]
    BY <1>1 DEF SInv, OInv, ClaimsInv
<1>7. SentKept'
  <2>1. \A n \in broker' : n.event \in EventIDs /\ record'[n.event] # NoRecord
      BY <1>1, <1>2 DEF SInv, SentKept
  <2>2. \A d \in EventIDs : record'[d].st = "published" => d \in Sent'
      BY <1>1, <1>4 DEF SInv, SentKept
  <2>3. ASSUME NEW s \in Relays, relay'[s].pc = "published" PROVE relay'[s].ev \in Sent'
    <3>1. CASE s = r
      <4>1. relay'[r] = c
          BY <1>6 DEF SInv, OInv, ClaimsInv
      <4> QED
          BY <1>4, <1>5, <3>1, <4>1
    <3>2. CASE s # r
        BY <1>4, <1>6, <2>3, <3>2 DEF SInv, OInv, ClaimsInv, SentKept
    <3> QED
        BY <3>1, <3>2
  <2> QED
      BY <2>1, <2>2, <2>3 DEF SentKept
<1>8. CASE e \in Owed
  <2>1. Outbox!Publish(e)
      BY <1>3, <1>4, <1>8 DEF Outbox!Publish
  <2> QED
      BY <1>2, <1>3, <1>7, <2>1 DEF StepImplements, Outbox!Next
<1>9. CASE e \notin Owed
  <2>1. record[e].st = "published"
      BY <1>2, <1>9, RowKnown DEF SInv, RowOf, Owed
  <2>2. Sent' = Sent
      BY <1>2, <1>4, <2>1 DEF SInv, SentKept
  <2> QED
      BY <1>3, <1>7, <2>2 DEF StepImplements, Outbox!ocVars
<1> QED
    BY <1>8, <1>9

\* The other steps of relays and of time.
LEMMA RelayStepsImplement ==
    ASSUME SInv, NEW r \in Relays, NEW e \in EventIDs,
           \/ ClaimDueEvents(r, e) \/ BuildMessage(r) \/ Refused(r) \/ MarkPublished(r) \/ MarkFailed(r)
           \/ CrashRelay(r) \/ Due(e) \/ Stale(e)
    PROVE  StagedOnce' /\ SentKept' /\ StepImplements
<1>0. /\ OInv
      /\ relay = [s \in Relays |-> relay[s]] /\ record = [d \in EventIDs |-> record[d]]
    BY DEF SInv, OInv, ClaimsInv, RowsInv
<1>1. ASSUME NEW d \in EventIDs, NEW st \in {"pending", "publishing", "failed"}, NEW due \in BOOLEAN, record[d] # NoRecord
      PROVE  /\ [record[d] EXCEPT !.st = st, !.due = due].st = st
             /\ [record[d] EXCEPT !.st = "published"].st = "published"
             /\ [record[d] EXCEPT !.due = due].st = record[d].st
             /\ record[d].st # "none"
    BY <1>0, <1>1, RowKnown DEF RowOf
<1>2. \A row : row.st # "none" => row # NoRecord
    BY NoRecordYet
<1>3. CASE ClaimDueEvents(r, e)
  <2>1. record[e] # NoRecord /\ relay[r].pc = "idle" /\ UNCHANGED <<txn, broker>>
      BY <1>3, NoRecordYet DEF ClaimDueEvents, Claimable
  <2>2. PICK st \in {"publishing", "failed"} : record' = [record EXCEPT ![e].st = st, ![e].due = FALSE]
      BY <1>3 DEF ClaimDueEvents, NewDecodeFailureTransition, NewFailedTransition
  <2> PICK row : row = [record[e] EXCEPT !.st = st, !.due = FALSE]
      OBVIOUS
  <2>3. row.st = st /\ record' = [record EXCEPT ![e] = row]
      BY <1>0, <1>1, <2>1, <2>2
  <2>4. \A s \in Relays : relay'[s].pc = "published" => relay[s].pc = "published" /\ relay'[s].ev = relay[s].ev
    <3>1. relay' = relay \/ relay' = [relay EXCEPT ![r] = [pc |-> "claimed", ev |-> e, msg |-> <<>>]]
        BY <1>3 DEF ClaimDueEvents
    <3> QED
        BY <1>0, <3>1
  <2> QED
      BY <1>2, <2>1, <2>3, <2>4, RowChanges
<1>4. CASE BuildMessage(r)
  <2>1. \A s \in Relays : relay'[s].pc = "published" => relay[s].pc = "published" /\ relay'[s].ev = relay[s].ev
    <3> PICK c : c = [relay[r] EXCEPT !.pc = "publish", !.msg = record[relay[r].ev].payload]
        OBVIOUS
    <3>1. ClaimOf(relay[r])
        BY <1>0, <1>4, ClaimKnown DEF BuildMessage
    <3>2. c.pc = "publish" /\ relay' = [relay EXCEPT ![r] = c]
        BY <1>0, <1>4, <3>1 DEF BuildMessage, ClaimOf, Claims
    <3> QED
        BY <1>0, <3>2
  <2> QED
      BY <1>4, <2>1, RelayMoves DEF BuildMessage
<1>5. CASE Refused(r)
  <2>1. \A s \in Relays : relay'[s].pc = "published" => relay[s].pc = "published" /\ relay'[s].ev = relay[s].ev
    <3> PICK c : c = [relay[r] EXCEPT !.pc = "failed"]
        OBVIOUS
    <3>1. ClaimOf(relay[r])
        BY <1>0, <1>5, ClaimKnown DEF Refused
    <3>2. c.pc = "failed" /\ relay' = [relay EXCEPT ![r] = c]
        BY <1>0, <1>5, <3>1 DEF Refused, ClaimOf, Claims
    <3> QED
        BY <1>0, <3>2
  <2> QED
      BY <1>5, <2>1, RelayMoves DEF Refused
<1>6. CASE CrashRelay(r)
  <2>1. \A s \in Relays : relay'[s].pc = "published" => relay[s].pc = "published" /\ relay'[s].ev = relay[s].ev
      BY <1>0, <1>6 DEF CrashRelay, NoClaim
  <2> QED
      BY <1>6, <2>1, RelayMoves DEF CrashRelay
<1>7. ASSUME relay' = [relay EXCEPT ![r] = NoClaim]
      PROVE  \A s \in Relays : relay'[s].pc = "published" => relay[s].pc = "published" /\ relay'[s].ev = relay[s].ev
    BY <1>0, <1>7 DEF NoClaim
<1>8. CASE MarkPublished(r)
  <2> PICK d : d = relay[r].ev
      OBVIOUS
  <2>1. d \in EventIDs /\ record[d] # NoRecord /\ d \in Sent /\ UNCHANGED <<txn, broker>>
      BY <1>0, <1>8, ClaimKnown DEF MarkPublished, SInv, SentKept
  <2> PICK row : row = [record[d] EXCEPT !.st = "published"]
      OBVIOUS
  <2>2. row.st = "published" /\ record' = [record EXCEPT ![d] = row] /\ relay' = [relay EXCEPT ![r] = NoClaim]
      BY <1>1, <1>8, <2>1 DEF MarkPublished, NewPublishedTransition
  <2> QED
      BY <1>2, <1>7, <2>1, <2>2, RowChanges
<1>9. CASE MarkFailed(r)
  <2> PICK d : d = relay[r].ev
      OBVIOUS
  <2>1. d \in EventIDs /\ record[d] # NoRecord /\ UNCHANGED <<txn, broker>>
      BY <1>0, <1>9, ClaimKnown DEF MarkFailed
  <2> PICK row : row = [record[d] EXCEPT !.st = "failed", !.due = FALSE]
      OBVIOUS
  <2>2. row.st = "failed" /\ record' = [record EXCEPT ![d] = row] /\ relay' = [relay EXCEPT ![r] = NoClaim]
      BY <1>1, <1>9, <2>1 DEF MarkFailed, NewFailedTransition
  <2> QED
      BY <1>2, <1>7, <2>1, <2>2, RowChanges
<1>10. CASE Due(e)
  <2> PICK row : row = [record[e] EXCEPT !.due = TRUE]
      OBVIOUS
  <2>1. /\ record[e] # NoRecord /\ record[e].st = "failed" /\ UNCHANGED <<txn, relay, broker>>
        /\ record' = [record EXCEPT ![e] = row]
      BY <1>0, <1>10, NoRecordYet DEF Due
  <2>2. row.st = "failed"
      BY <1>1, <2>1
  <2> QED
      BY <1>2, <2>1, <2>2, RowChanges
<1>11. CASE Stale(e)
  <2> PICK row : row = [record[e] EXCEPT !.st = "failed", !.due = TRUE]
      OBVIOUS
  <2>1. /\ record[e] # NoRecord /\ UNCHANGED <<txn, relay, broker>>
        /\ record' = [record EXCEPT ![e] = row]
      BY <1>0, <1>11, NoRecordYet DEF Stale
  <2>2. row.st = "failed"
      BY <1>1, <2>1
  <2> QED
      BY <1>2, <2>1, <2>2, RowChanges
<1> QED
    BY <1>3, <1>4, <1>5, <1>6, <1>8, <1>9, <1>10, <1>11

LEMMA SInvStep == ASSUME SInv, [OutboxNext]_obVars PROVE SInv' /\ StepImplements
<1>0. OInv' /\ OInv
    BY OInvStep DEF SInv
<1>1. TxnsInv' /\ CatalogInv
    BY <1>0 DEF OInv
<1>2. CASE UNCHANGED obVars
    BY <1>0, <1>2, RelayMoves DEF obVars, SInv
<1>3. ASSUME NEW t \in Txns,
             \/ \E own \in BOOLEAN : Begin(t, own)
             \/ Nested(t) \/ NestedReturns(t) \/ Rollback(t) \/ CrashTxn(t) \/ RunHook(t)
             \/ \E h \in OutboxHooks : AfterCommit(t, h)
      PROVE  SInv' /\ StepImplements
  <2>1. catalog' = catalog
      BY <1>3 DEF Begin, Nested, NestedReturns, Rollback, CrashTxn, RunHook, AfterCommit
  <2>2. TxnRecords' = TxnRecords
      BY <1>1, <2>1, CatalogStays
  <2> QED
      BY <1>0, <1>1, <1>3, <2>2, TxnStepsImplement DEF SInv
<1>4. ASSUME NEW t \in Txns, NEW es \in SUBSET EventIDs, Stage(t, es) PROVE SInv' /\ StepImplements
  <2>1. TxnRecords' = TxnRecords
      BY <1>1, <1>4, CatalogStays DEF Stage
  <2> QED
      BY <1>0, <1>1, <1>4, <2>1, StageImplements DEF SInv
<1>5. ASSUME NEW t \in Txns, Commit(t) PROVE SInv' /\ StepImplements
    BY <1>0, <1>5, CommitImplements DEF SInv
<1>6. ASSUME NEW r \in Relays, NEW taken \in BOOLEAN, PublishRecord(r, taken) PROVE SInv' /\ StepImplements
    BY <1>0, <1>6, PublishImplements DEF SInv
<1>7. ASSUME NEW r \in Relays, NEW e \in EventIDs, ClaimDueEvents(r, e)
      PROVE  SInv' /\ StepImplements
    BY <1>0, <1>7, RelayStepsImplement DEF SInv
<1>8. ASSUME NEW r \in Relays,
             BuildMessage(r) \/ Refused(r) \/ MarkPublished(r) \/ MarkFailed(r) \/ CrashRelay(r)
      PROVE  SInv' /\ StepImplements
  <2>1. PICK e \in EventIDs : e = relay[r].ev
      BY <1>0, <1>8, ClaimKnown DEF BuildMessage, Refused, MarkPublished, MarkFailed, CrashRelay
  <2> QED
      BY <1>0, <1>8, RelayStepsImplement DEF SInv
<1>9. ASSUME NEW e \in EventIDs, Due(e) \/ Stale(e) PROVE SInv' /\ StepImplements
  <2>1. /\ record[e] # NoRecord /\ UNCHANGED <<txn, relay, broker>>
        /\ \E row : row.st = "failed" /\ record' = [record EXCEPT ![e] = row]
    <3> PICK due, row : /\ due = [record[e] EXCEPT !.due = TRUE]
                        /\ row = [record[e] EXCEPT !.st = "failed", !.due = TRUE]
        OBVIOUS
    <3>1. record[e] # NoRecord
        BY <1>9, NoRecordYet DEF Due, Stale
    <3>2. row.st = "failed" /\ (record[e].st = "failed" => due.st = "failed")
        BY <1>0, <3>1, RowKnown DEF RowOf
    <3>3. record = [d \in EventIDs |-> record[d]]
        BY <1>0 DEF OInv, RowsInv
    <3>4. CASE Due(e)
        BY <3>1, <3>2, <3>3, <3>4 DEF Due
    <3>5. CASE Stale(e)
        BY <3>1, <3>2, <3>3, <3>5 DEF Stale
    <3> QED
        BY <1>9, <3>4, <3>5
  <2> QED
      BY <1>0, <2>1, NoRecordYet, RowChanges DEF SInv
<1> QED
    BY <1>2, <1>3, <1>4, <1>5, <1>6, <1>7, <1>8, <1>9 DEF OutboxNext, RelayStep

\* Unit of work, stager, records and relays implement the transactional outbox,
\* for any transactions, catalogs and relays and any crashes and refusals: no
\* event is sent that was not committed, none of a committed transaction is
\* dropped, and none is settled before the broker has it.
THEOREM OutboxImplements == OutboxSpec => ImplementsOutbox
<1>1. OutboxInit => SInv /\ Outbox!Init
  <2> SUFFICES ASSUME OutboxInit PROVE SInv /\ Outbox!Init
      OBVIOUS
  <2>1. /\ \A t \in Txns : txn[t] = NewTxn
        /\ \A e \in EventIDs : record[e] = NoRecord
        /\ \A r \in Relays : relay[r] = NoClaim
        /\ broker = {}
      BY DEF OutboxInit
  <2>1a. /\ \A t \in Txns : txn[t].staged = {}
         /\ \A e \in EventIDs : record[e].st = "none"
         /\ \A r \in Relays : relay[r].pc = "idle"
    <3>1. NewTxn.staged = {} /\ NoClaim.pc = "idle"
        BY DEF NewTxn, NoClaim
    <3> QED
        BY <2>1, <3>1, NoRecordYet
  <2>2. StagedOnce /\ SentKept
      BY <2>1, <2>1a DEF StagedOnce, SentKept
  <2>3. Staged = [t \in Txns |-> {}]
    <3>1. \A t \in Txns : Staged[t] = {}
        BY <2>1a DEF Staged
    <3> QED
        BY <3>1 DEF Staged
  <2>4. Owed = {} /\ Sent = {}
      BY <2>1, <2>1a DEF Owed, Sent
  <2> QED
      BY <2>2, <2>3, <2>4, OInvInit DEF SInv, Outbox!Init
<1>2. SInv /\ [OutboxNext]_obVars => SInv' /\ [Outbox!Next]_(Outbox!ocVars)
    BY SInvStep DEF StepImplements
<1> QED
    BY <1>1, <1>2, PTL DEF OutboxSpec, ImplementsOutbox, Outbox!Spec

-----------------------------------------------------------------------------
(* The bus.                                                                 *)

PublishesLeft == 0..MaxPublish
Calls == [pc : {"idle", "check", "lock", "declare", "send", "run"},
          topic : BusTopics \cup {""}, msg : Payloads \cup {NoCall(0).msg}, left : PublishesLeft]

\* The connections of a bus, and what is sure of its channel, from where its
\* constructor or Close is.
ConnsInv ==
    /\ bus \in {"init", "half", "up", "failed", "closing publisher", "closing subscriber", "closed"}
    /\ bus \in {"init", "failed", "closed"} => conn = {}
    /\ bus = "half" => conn = {"pub"}
    /\ bus = "up" => conn = {"pub", "sub"}
    /\ bus = (IF Rabbit THEN "closing publisher" ELSE "none") => conn = {"pub"}
    /\ bus = (IF Rabbit THEN "none" ELSE "closing subscriber") => conn = {"sub"}
    /\ bus = (IF Rabbit THEN "closing subscriber" ELSE "closing publisher") => conn = {"pub", "sub"}
    /\ Rabbit /\ faults = 0 /\ bus \in {"half", "up", "closing subscriber"} => chan

\* What a caller under way relies on: its exchange is remembered before it sends.
CallInProgress(g) ==
    /\ call[g].pc \notin {"idle", "run"} => call[g].topic \in BusTopics /\ call[g].msg \in Payloads
    /\ call[g].pc = "declare" => mu = g
    /\ Rabbit /\ call[g].pc = "send" => call[g].topic \in exchanges

CallsInv ==
    /\ call \in [Callers -> Calls] /\ mu \in {"none"} \cup Callers
    /\ \A g \in Callers : CallInProgress(g)

\* Handlers run only while the subscriber has its connection.
HandlersInv ==
    \A h \in Handlers : call[h].pc # "idle" =>
        /\ bus \in {"up", "closing publisher", "closing subscriber"}
        /\ Rabbit => bus # "closing publisher"

\* An exchange that is remembered is there or was deleted, which is a fault.
ExchangesInv ==
    /\ exchanges \subseteq BusTopics /\ exchanges \subseteq declared \cup deleted
    /\ faults \in Nat /\ (deleted # {} => faults # 0)

MessagesInv == AcceptedIsRouted /\ queue \subseteq Payloads /\ IdentitySurvives

BusIInv == ConnsInv /\ CallsInv /\ HandlersInv /\ ExchangesInv /\ MessagesInv

-----------------------------------------------------------------------------
LEMMA BusBounds == MaxPublish \in Nat /\ MaxFaults \in Nat /\ "none" \notin Callers /\ Apps \cap Handlers = {}
BY BusConstants

\* The invariant implies what the runs check.
LEMMA BusIInvImplies == ASSUME BusIInv PROVE BusInv
<1>1. BusTypeOK
    BY DEF BusIInv, BusTypeOK, ConnsInv, CallsInv, CallInProgress, Calls, PublishesLeft, ExchangesInv
<1>2. NothingLeftOpen
    BY DEF BusIInv, ConnsInv, NothingLeftOpen
<1>3. PublisherOutlivesHandlers
    BY DEF BusIInv, ConnsInv, HandlersInv, PublisherOutlivesHandlers
<1> QED
    BY <1>1, <1>2, <1>3 DEF BusIInv, MessagesInv, BusInv

LEMMA BusIInvInit == ASSUME BusInit PROVE BusIInv
<1>1. NoCall(MaxPublish) \in Calls /\ NoCall(MaxPublish).pc = "idle"
    BY BusBounds DEF NoCall, Calls, PublishesLeft
<1>2. CallsInv /\ HandlersInv
    BY <1>1 DEF BusInit, CallsInv, CallInProgress, HandlersInv, Callers
<1>3. ConnsInv /\ ExchangesInv /\ MessagesInv
    BY DEF BusInit, ConnsInv, ExchangesInv, MessagesInv, AcceptedIsRouted, IdentitySurvives
<1> QED
    BY <1>2, <1>3 DEF BusIInv

\* A caller goes on with its publish, or is done with it.
LEMMA CallMoves ==
    ASSUME CallsInv, NEW g \in Callers, NEW p \in {"idle", "lock", "declare", "send", "run"},
           call' = [call EXCEPT ![g].pc = p], mu' \in {"none"} \cup Callers,
           call[g].pc \notin {"idle", "run"} \/ p \in {"idle", "run"},
           p = "declare" => mu' = g, \A h \in Callers \ {g} : call[h].pc = "declare" => mu' = h,
           provider' = provider, exchanges \subseteq exchanges', p = "send" => call[g].topic \in exchanges'
    PROVE  CallsInv'
<1>1. call' \in [Callers -> Calls]
    BY DEF CallsInv, Calls
<1>2. ASSUME NEW h \in Callers PROVE CallInProgress(h)'
  <2>1. CASE h = g
    <3>1. call'[g].pc = p /\ call'[g].topic = call[g].topic /\ call'[g].msg = call[g].msg
        BY DEF CallsInv, Calls
    <3> QED
        BY <2>1, <3>1 DEF CallsInv, CallInProgress
  <2>2. CASE h # g
      BY <2>2 DEF CallsInv, CallInProgress, Rabbit
  <2> QED
      BY <2>1, <2>2
<1> QED
    BY <1>1, <1>2 DEF CallsInv

\* One fault more is a fault.
LEMMA FaultCounted == ASSUME ExchangesInv, faults' = faults + 1 PROVE faults' \in Nat /\ faults' # 0
BY DEF ExchangesInv

\* The wire keeps what a message carries.
LEMMA WireKeepsIdentity ==
    ASSUME NEW m \in Payloads
    PROVE  LET got == DecodeMessagePayload(EncodeMessagePayload(m))
           IN  got.meta = m.meta /\ got.uuid = IF m.uuid # "" THEN m.uuid ELSE "broker"
BY BusConstants DEF DecodeMessagePayload, EncodeMessagePayload

LEMMA BusIInvStep == ASSUME BusIInv, [BusNext]_ebVars PROVE BusIInv'
<1> USE DEF pubVars, BusIInv
<1>1. ASSUME NEW p \in Imports, RegisterProvider(p) PROVE BusIInv'
  <2>1. ConnsInv'
      BY <1>1 DEF RegisterProvider, ConnsInv, Rabbit
  <2>2. CallsInv'
      BY <1>1 DEF RegisterProvider, CallsInv, CallInProgress, Calls, Callers, Rabbit
  <2>3. HandlersInv'
      BY <1>1 DEF RegisterProvider, HandlersInv, CallsInv, Callers, Calls, Rabbit
  <2>4. ExchangesInv'
      BY <1>1 DEF RegisterProvider, ExchangesInv
  <2>5. MessagesInv'
      BY <1>1 DEF RegisterProvider, MessagesInv, AcceptedIsRouted, IdentitySurvives
  <2> QED
      BY <2>1, <2>2, <2>3, <2>4, <2>5
<1>2. CASE NewPublisher
  <2>1. ConnsInv'
      BY <1>2 DEF NewPublisher, ConnsInv, Rabbit
  <2>2. CallsInv'
      BY <1>2 DEF NewPublisher, CallsInv, CallInProgress, Calls, Callers, Rabbit
  <2>3. HandlersInv'
      BY <1>2 DEF NewPublisher, HandlersInv, CallsInv, Callers, Calls, Rabbit
  <2>4. ExchangesInv'
      BY <1>2 DEF NewPublisher, ExchangesInv
  <2>5. MessagesInv'
      BY <1>2 DEF NewPublisher, MessagesInv, AcceptedIsRouted, IdentitySurvives
  <2> QED
      BY <2>1, <2>2, <2>3, <2>4, <2>5
<1>3. CASE NewSubscriber
  <2>1. ConnsInv'
      BY <1>3 DEF NewSubscriber, ConnsInv, Rabbit
  <2>2. CallsInv'
      BY <1>3 DEF NewSubscriber, CallsInv, CallInProgress, Calls, Callers, Rabbit
  <2>3. HandlersInv'
      BY <1>3 DEF NewSubscriber, HandlersInv, CallsInv, Callers, Calls, Rabbit
  <2>4. ExchangesInv'
      BY <1>3 DEF NewSubscriber, ExchangesInv
  <2>5. MessagesInv'
      BY <1>3 DEF NewSubscriber, MessagesInv, AcceptedIsRouted, IdentitySurvives
  <2> QED
      BY <2>1, <2>2, <2>3, <2>4, <2>5
<1>4. CASE Close
  <2>1. ConnsInv'
      BY <1>4 DEF Close, CloseOrder, Closing, ConnsInv, Rabbit
  <2>2. CallsInv'
      BY <1>4 DEF Close, CloseOrder, Closing, CallsInv, CallInProgress, Calls, Callers, Rabbit
  <2>3. HandlersInv'
      BY <1>4 DEF Close, CloseOrder, Closing, HandlersInv, CallsInv, Callers, Calls, Rabbit
  <2>4. ExchangesInv'
      BY <1>4 DEF Close, CloseOrder, Closing, ExchangesInv
  <2>5. MessagesInv'
      BY <1>4 DEF Close, CloseOrder, Closing, MessagesInv, AcceptedIsRouted, IdentitySurvives
  <2> QED
      BY <2>1, <2>2, <2>3, <2>4, <2>5
<1>5. CASE CloseStep
  <2>1. ConnsInv'
      BY <1>5 DEF CloseStep, CloseOrder, Closing, ConnsInv, Rabbit
  <2>2. CallsInv'
      BY <1>5 DEF CloseStep, CloseOrder, Closing, CallsInv, CallInProgress, Calls, Callers, Rabbit
  <2>3. HandlersInv'
      BY <1>5 DEF CloseStep, CloseOrder, Closing, HandlersInv, CallsInv, Callers, Calls, Rabbit
  <2>4. ExchangesInv'
      BY <1>5 DEF CloseStep, CloseOrder, Closing, ExchangesInv
  <2>5. MessagesInv'
      BY <1>5 DEF CloseStep, CloseOrder, Closing, MessagesInv, AcceptedIsRouted, IdentitySurvives
  <2> QED
      BY <2>1, <2>2, <2>3, <2>4, <2>5
<1>6. CASE PublisherBreaks
  <2>1. ConnsInv'
    <3>1. faults' \in Nat /\ faults' # 0
        BY <1>6, FaultCounted DEF PublisherBreaks
    <3> QED
        BY <1>6, <3>1 DEF PublisherBreaks, ConnsInv, Rabbit
  <2>2. CallsInv'
      BY <1>6 DEF PublisherBreaks, CallsInv, CallInProgress, Calls, Callers, Rabbit
  <2>3. HandlersInv'
      BY <1>6 DEF PublisherBreaks, HandlersInv, CallsInv, Callers, Calls, Rabbit
  <2>4. ExchangesInv'
    <3>1. faults' \in Nat /\ faults' # 0
        BY <1>6, FaultCounted DEF PublisherBreaks
    <3> QED
        BY <1>6, <3>1 DEF PublisherBreaks, ExchangesInv
  <2>5. MessagesInv'
      BY <1>6 DEF PublisherBreaks, MessagesInv, AcceptedIsRouted, IdentitySurvives
  <2> QED
      BY <2>1, <2>2, <2>3, <2>4, <2>5
<1>7. CASE ProducerReconnects
  <2>1. ConnsInv'
      BY <1>7 DEF ProducerReconnects, ConnsInv, Rabbit
  <2>2. CallsInv'
      BY <1>7 DEF ProducerReconnects, CallsInv, CallInProgress, Calls, Callers, Rabbit
  <2>3. HandlersInv'
      BY <1>7 DEF ProducerReconnects, HandlersInv, CallsInv, Callers, Calls, Rabbit
  <2>4. ExchangesInv'
      BY <1>7 DEF ProducerReconnects, ExchangesInv
  <2>5. MessagesInv'
      BY <1>7 DEF ProducerReconnects, MessagesInv, AcceptedIsRouted, IdentitySurvives
  <2> QED
      BY <2>1, <2>2, <2>3, <2>4, <2>5
<1>8. ASSUME NEW t \in BusTopics, ExchangeDeleted(t) PROVE BusIInv'
  <2>1. ConnsInv'
    <3>1. faults' \in Nat /\ faults' # 0
        BY <1>8, FaultCounted DEF ExchangeDeleted
    <3> QED
        BY <1>8, <3>1 DEF ExchangeDeleted, ConnsInv, Rabbit
  <2>2. CallsInv'
      BY <1>8 DEF ExchangeDeleted, CallsInv, CallInProgress, Calls, Callers, Rabbit
  <2>3. HandlersInv'
      BY <1>8 DEF ExchangeDeleted, HandlersInv, CallsInv, Callers, Calls, Rabbit
  <2>4. ExchangesInv'
    <3>1. faults' \in Nat /\ faults' # 0
        BY <1>8, FaultCounted DEF ExchangeDeleted
    <3> QED
        BY <1>8, <3>1 DEF ExchangeDeleted, ExchangesInv
  <2>5. MessagesInv'
      BY <1>8 DEF ExchangeDeleted, MessagesInv, AcceptedIsRouted, IdentitySurvives
  <2> QED
      BY <2>1, <2>2, <2>3, <2>4, <2>5
<1>9. ASSUME NEW g \in Callers, ReadExchanges(g) PROVE BusIInv'
  <2>1. ConnsInv'
      BY <1>9 DEF ReadExchanges, ConnsInv, Rabbit
  <2>2. CallsInv'
      BY <1>9 DEF ReadExchanges, CallsInv, CallInProgress, Calls, Callers, Rabbit
  <2>3. HandlersInv'
      BY <1>9 DEF ReadExchanges, HandlersInv, CallsInv, Callers, Calls, Rabbit
  <2>4. ExchangesInv'
      BY <1>9 DEF ReadExchanges, ExchangesInv
  <2>5. MessagesInv'
      BY <1>9 DEF ReadExchanges, MessagesInv, AcceptedIsRouted, IdentitySurvives
  <2> QED
      BY <2>1, <2>2, <2>3, <2>4, <2>5
<1>10. ASSUME NEW g \in Callers, LockExchanges(g) PROVE BusIInv'
  <2>1. ConnsInv'
      BY <1>10 DEF LockExchanges, ConnsInv, Rabbit
  <2>2. CallsInv'
    <3>1. CASE call[g].topic \in exchanges
        BY <1>10, <3>1, CallMoves DEF LockExchanges, CallsInv, CallInProgress
    <3>2. CASE call[g].topic \notin exchanges
        BY <1>10, <3>2, CallMoves, BusBounds DEF LockExchanges, CallsInv, CallInProgress
    <3> QED
        BY <3>1, <3>2
  <2>3. HandlersInv'
      BY <1>10 DEF LockExchanges, HandlersInv, CallsInv, Callers, Calls, Rabbit
  <2>4. ExchangesInv'
      BY <1>10 DEF LockExchanges, ExchangesInv
  <2>5. MessagesInv'
      BY <1>10 DEF LockExchanges, MessagesInv, AcceptedIsRouted, IdentitySurvives
  <2> QED
      BY <2>1, <2>2, <2>3, <2>4, <2>5
<1>11. ASSUME NEW g \in Callers, ExchangeDeclare(g) PROVE BusIInv'
  <2>1. ConnsInv'
      BY <1>11 DEF ExchangeDeclare, Done, ConnsInv, Rabbit
  <2>2. CallsInv'
    <3>1. mu = g /\ mu' = "none" /\ \A h \in Callers \ {g} : call[h].pc # "declare"
        BY <1>11 DEF ExchangeDeclare, CallsInv, CallInProgress
    <3>2. CASE chan
        BY <1>11, <3>1, <3>2, CallMoves DEF ExchangeDeclare
    <3>3. CASE ~chan
        BY <1>11, <3>1, <3>3, CallMoves DEF ExchangeDeclare, Done
    <3> QED
        BY <3>2, <3>3
  <2>3. HandlersInv'
      BY <1>11 DEF ExchangeDeclare, Done, HandlersInv, CallsInv, Callers, Calls, Rabbit
  <2>4. ExchangesInv'
      BY <1>11 DEF ExchangeDeclare, Done, ExchangesInv, CallsInv, CallInProgress
  <2>5. MessagesInv'
      BY <1>11 DEF ExchangeDeclare, Done, MessagesInv, AcceptedIsRouted, IdentitySurvives
  <2> QED
      BY <2>1, <2>2, <2>3, <2>4, <2>5
<1>12. ASSUME NEW g \in Callers, Send(g) PROVE BusIInv'
  <2>1. ConnsInv'
      BY <1>12 DEF Send, Done, ConnsInv, Rabbit, CallsInv, CallInProgress, ExchangesInv
  <2>2. CallsInv'
      BY <1>12 DEF Send, Done, CallsInv, CallInProgress, Calls, Callers, Rabbit
  <2>3. HandlersInv'
      BY <1>12 DEF Send, Done, HandlersInv, CallsInv, Callers, Calls, Rabbit
  <2>4. ExchangesInv'
      BY <1>12 DEF Send, Done, ExchangesInv
  <2>5. MessagesInv'
    <3>1. queue' \subseteq Payloads /\ received' = received
        BY <1>12 DEF Send, MessagesInv, CallsInv, CallInProgress
    <3>2. CASE chan /\ Rabbit /\ call[g].topic \notin declared
      <4>1. call[g].topic \in deleted
          BY <1>12, <3>2 DEF Send, CallsInv, CallInProgress, ExchangesInv
      <4>2. accepted' \ routed' \subseteq (accepted \ routed) \cup {<<g, call[g].left, call[g].topic>>}
          BY <1>12, <3>2 DEF Send
      <4> QED
          <5>1. AcceptedIsRouted'
              BY <1>12, <4>1, <4>2 DEF Send, MessagesInv, AcceptedIsRouted
          <5> QED
              BY <3>1, <5>1 DEF MessagesInv, IdentitySurvives
    <3>3. CASE ~(chan /\ Rabbit /\ call[g].topic \notin declared)
      <4>1. accepted' \ routed' \subseteq accepted \ routed
          BY <1>12, <3>3 DEF Send
      <4> QED
          BY <1>12, <3>1, <4>1 DEF Send, MessagesInv, AcceptedIsRouted, IdentitySurvives
    <3> QED
        BY <3>2, <3>3
  <2> QED
      BY <2>1, <2>2, <2>3, <2>4, <2>5
<1>13. ASSUME NEW g \in Callers, NEW t \in BusTopics, NEW m \in Payloads, Publish(g, t, m) PROVE BusIInv'
  <2>1. ConnsInv'
      BY <1>13 DEF Publish, FirstStep, ConnsInv, Rabbit
  <2>2. CallsInv'
    <3>1. call[g].left - 1 \in PublishesLeft
        <4>1. call[g].left \in 0..MaxPublish /\ call[g].left > 0
            BY <1>13 DEF Publish, CallsInv, Calls, PublishesLeft
        <4> QED
            BY <4>1, BusBounds DEF PublishesLeft
    <3>2. FirstStep \in {"check", "send"} /\ (FirstStep = "send" => ~Rabbit)
        BY DEF FirstStep
    <3> DEFINE c == [pc |-> FirstStep, topic |-> t, msg |-> m, left |-> call[g].left - 1]
    <3>3. c \in Calls /\ call' = [call EXCEPT ![g] = c]
        BY <1>13, <3>1, <3>2 DEF Publish, Calls
    <3> QED
        BY <1>13, <3>2, <3>3 DEF Publish, CallsInv, CallInProgress, Rabbit
  <2>3. HandlersInv'
      BY <1>13, BusBounds DEF Publish, FirstStep, HandlersInv, CallsInv, Callers, Calls, Rabbit
  <2>4. ExchangesInv'
      BY <1>13 DEF Publish, FirstStep, ExchangesInv
  <2>5. MessagesInv'
      BY <1>13 DEF Publish, FirstStep, MessagesInv, AcceptedIsRouted, IdentitySurvives
  <2> QED
      BY <2>1, <2>2, <2>3, <2>4, <2>5
<1>14. ASSUME NEW h \in Handlers, HandlerReturns(h) PROVE BusIInv'
  <2>1. ConnsInv'
      BY <1>14 DEF HandlerReturns, ConnsInv, Rabbit
  <2>2. CallsInv'
      BY <1>14 DEF HandlerReturns, CallsInv, CallInProgress, Calls, Callers, Rabbit
  <2>3. HandlersInv'
      BY <1>14 DEF HandlerReturns, HandlersInv, CallsInv, Callers, Calls, Rabbit
  <2>4. ExchangesInv'
      BY <1>14 DEF HandlerReturns, ExchangesInv
  <2>5. MessagesInv'
      BY <1>14 DEF HandlerReturns, MessagesInv, AcceptedIsRouted, IdentitySurvives
  <2> QED
      BY <2>1, <2>2, <2>3, <2>4, <2>5
<1>15. ASSUME NEW h \in Handlers, NEW m \in queue, Take(h, m) PROVE BusIInv'
  <2>1. ConnsInv'
      BY <1>15 DEF Take, ConnsInv, Rabbit
  <2>2. CallsInv'
      BY <1>15 DEF Take, CallsInv, CallInProgress, Calls, Callers, Rabbit
  <2>3. HandlersInv'
    <3>1. bus \in {"up", "closing publisher", "closing subscriber"} /\ "sub" \in conn
          /\ UNCHANGED <<bus, provider>>
        BY <1>15 DEF Take
    <3>2. ~(Rabbit /\ bus = "closing publisher")
      <4>1. SUFFICES ASSUME Rabbit, bus = "closing publisher" PROVE FALSE
          OBVIOUS
      <4>2. conn = {"pub"}
          BY <4>1 DEF ConnsInv
      <4>3. "sub" \notin conn
          BY <4>2
      <4> QED
          BY <3>1, <4>3
    <3>3. Rabbit' = Rabbit
        BY <3>1 DEF Rabbit
    <3> QED
        BY <3>1, <3>2, <3>3 DEF HandlersInv
  <2>4. ExchangesInv'
      BY <1>15 DEF Take, ExchangesInv
  <2>5. MessagesInv'
    <3> DEFINE got == DecodeMessagePayload(EncodeMessagePayload(m))
    <3>1. received' = received \cup {[sent |-> m, got |-> got]} /\ queue' \subseteq Payloads
        BY <1>15 DEF Take, MessagesInv
    <3>2. m \in Payloads
        BY DEF MessagesInv
    <3>3. got.meta = m.meta /\ got.uuid = IF m.uuid # "" THEN m.uuid ELSE "broker"
        BY <3>2, WireKeepsIdentity
    <3> HIDE DEF got
    <3>4. IdentitySurvives'
      <4>1. ASSUME NEW r \in received'
            PROVE  r.got.meta = r.sent.meta /\ r.got.uuid = IF r.sent.uuid # "" THEN r.sent.uuid ELSE "broker"
        <5>1. CASE r = [sent |-> m, got |-> got]
          <6>1. r.sent = m /\ r.got = got
              BY <5>1
          <6> QED
              BY <6>1, <3>3
        <5>2. CASE r \in received
            BY <5>2 DEF MessagesInv, IdentitySurvives
        <5> QED
            BY <3>1, <5>1, <5>2
      <4> QED
          BY <4>1 DEF IdentitySurvives
    <3> QED
        BY <1>15, <3>1, <3>4 DEF Take, MessagesInv, AcceptedIsRouted
  <2> QED
      BY <2>1, <2>2, <2>3, <2>4, <2>5
<1>16. CASE UNCHANGED ebVars
    BY <1>16 DEF ebVars, ConnsInv, CallsInv, CallInProgress, HandlersInv, ExchangesInv, MessagesInv,
       AcceptedIsRouted, IdentitySurvives, Rabbit
<1> QED
    BY <1>1, <1>2, <1>3, <1>4, <1>5, <1>6, <1>7, <1>8, <1>9, <1>10, <1>11, <1>12, <1>13, <1>14, <1>15, <1>16
    DEF BusNext, CallerStep

\* However callers, handlers, faults and Close interleave: an accepted message
\* reached its exchange unless somebody deleted that, the publisher lives as long
\* as handlers run, a message keeps its identity, and no connection stays open.
THEOREM BusHolds == BusSpec => []BusInv
<1> QED
    BY BusIInvInit, BusIInvStep, BusIInvImplies, PTL DEF BusSpec
=============================================================================
