------------------------------ MODULE EventBus ------------------------------
(****************************************************************************)
(* The messaging event bus of either broker: the provider registry, the bus *)
(* built from a configuration, publishers that declare a RabbitMQ exchange  *)
(* once and remember it, handlers that publish, health and closing.         *)
(*                                                                          *)
(* Callers are goroutines of the application and the goroutine a            *)
(* subscription's handler runs in.  The brokers and their client libraries  *)
(* are outside the repository: an AMQP channel dies of any protocol error,  *)
(* a publish is not confirmed, and NSQ creates topics and reconnects.       *)
(****************************************************************************)
EXTENDS Integers, FiniteSets

CONSTANTS
    Providers,     \* what a configuration may ask for: "nsq", "rabbitmq"
    Imports,       \* sets of providers whose packages a program imports
    Apps, Handlers,\* the callers
    BusTopics,
    Payloads,      \* [raw, uuid, meta]: Publish or PublishMessage, what it carries
    MaxPublish, MaxFaults

VARIABLES
    provider, factories,
    bus,           \* where NewEventBus or Close is
    conn,          \* connections the broker has: "pub" and "sub"
    chan,          \* the publisher's channel or producer works
    declared,      \* exchanges the broker has
    exchanges,     \* publisher.exchanges
    mu,            \* who holds publisher.mu for writing
    call,          \* caller -> [pc, topic, msg, left]
    queue,         \* messages for the subscription
    accepted,      \* publishes that returned nil: <<caller, number, topic>>
    routed,        \* those the broker gave to an exchange
    received,      \* what handlers saw: [sent, got]
    faults, deleted

ebVars == <<provider, factories, bus, conn, chan, declared, exchanges, mu, call, queue,
            accepted, routed, received, faults, deleted>>
pubVars == <<declared, exchanges, mu, queue, accepted, routed, received>>

Callers == Apps \cup Handlers
Rabbit == provider = "rabbitmq"
NoCall(n) == [pc |-> "idle", topic |-> "", msg |-> CHOOSE m \in Payloads : TRUE, left |-> n]

ASSUME BusConstants ==
    /\ MaxPublish \in Nat /\ MaxFaults \in Nat
    /\ Apps \cap Handlers = {} /\ "none" \notin Callers
    /\ \A m \in Payloads : m.raw \in BOOLEAN /\ (m.raw => m.uuid = "" /\ m.meta = "none")

-----------------------------------------------------------------------------
(* Construction.                                                            *)

\* RegisterProvider, from the packages' init functions; NewEventBus of the
\* factory refuses a provider nobody registered.
RegisterProvider(p) ==
    /\ bus = "init" /\ p \notin factories
    /\ factories' = factories \cup {p}
    /\ UNCHANGED <<provider, bus, conn, chan, call, faults, deleted, pubVars>>

\* NewEventBus: the publisher, dialled or pinged ...
NewPublisher ==
    /\ bus = "init" /\ Imports \subseteq factories
    /\ \/ /\ provider \in factories
          /\ conn' = {"pub"} /\ chan' = TRUE /\ bus' = "half"
       \/ UNCHANGED <<conn, chan>> /\ bus' = "failed"
    /\ UNCHANGED <<provider, factories, call, faults, deleted, pubVars>>

\* ... then the subscriber, whose failure closes the publisher.  (NSQ fails
\* only without lookupd addresses and connects when it subscribes.)
NewSubscriber ==
    /\ bus = "half"
    /\ \/ conn' = conn \cup {"sub"} /\ bus' = "up" /\ UNCHANGED chan
       \/ conn' = {} /\ chan' = FALSE /\ bus' = "failed"
    /\ UNCHANGED <<provider, factories, call, faults, deleted, pubVars>>

-----------------------------------------------------------------------------
(* Publishing.                                                              *)

\* NSQ's publisher hands the payload to the producer at once; RabbitMQ's sees to
\* the exchange first.
FirstStep == IF Rabbit THEN "check" ELSE "send"

\* An application's goroutine, or a handler that is running, publishes.
Publish(g, t, m) ==
    /\ call[g].left > 0
    /\ call[g].pc = IF g \in Apps THEN "idle" ELSE "run"
    /\ bus \notin {"init", "half", "failed"}
    /\ call' = [call EXCEPT ![g] = [pc |-> FirstStep, topic |-> t, msg |-> m, left |-> @.left - 1]]
    /\ UNCHANGED <<provider, factories, bus, conn, chan, faults, deleted, pubVars>>

\* Faulty variant: who finds the lock taken leaves the exchange to the other.
ReadExchangesNoWait(g) ==
    /\ call[g].pc = "check"
    /\ call' = [call EXCEPT ![g].pc =
                   IF mu # "none" \/ call[g].topic \in exchanges THEN "send" ELSE "lock"]
    /\ UNCHANGED <<provider, factories, bus, conn, chan, faults, deleted, pubVars>>

\* ensureExchange under the read lock.
ReadExchanges(g) ==
    /\ call[g].pc = "check" /\ mu = "none"
    /\ call' = [call EXCEPT ![g].pc = IF call[g].topic \in exchanges THEN "send" ELSE "lock"]
    /\ UNCHANGED <<provider, factories, bus, conn, chan, faults, deleted, pubVars>>

\* The write lock and the second look.
LockExchanges(g) ==
    /\ call[g].pc = "lock" /\ mu = "none"
    /\ IF call[g].topic \in exchanges
       THEN call' = [call EXCEPT ![g].pc = "send"] /\ UNCHANGED mu
       ELSE call' = [call EXCEPT ![g].pc = "declare"] /\ mu' = g
    /\ UNCHANGED <<provider, factories, bus, conn, chan, faults, deleted, declared, exchanges,
                   queue, accepted, routed, received>>

Done(g) == IF g \in Apps THEN "idle" ELSE "run"

\* Faulty variant: an error returns without unlocking.
ExchangeDeclareKeepsLock(g) ==
    /\ call[g].pc = "declare"
    /\ IF chan
       THEN /\ declared' = declared \cup {call[g].topic} /\ mu' = "none"
            /\ exchanges' = exchanges \cup {call[g].topic}
            /\ call' = [call EXCEPT ![g].pc = "send"]
       ELSE call' = [call EXCEPT ![g].pc = Done(g)] /\ UNCHANGED <<declared, exchanges, mu>>
    /\ UNCHANGED <<provider, factories, bus, conn, chan, faults, deleted, queue, accepted, routed,
                   received>>

\* ExchangeDeclare, with the lock held; a channel that is gone is an error and
\* nothing is remembered.
ExchangeDeclare(g) ==
    /\ call[g].pc = "declare"
    /\ mu' = "none"
    /\ IF chan
       THEN /\ declared' = declared \cup {call[g].topic}
            /\ exchanges' = exchanges \cup {call[g].topic}
            /\ call' = [call EXCEPT ![g].pc = "send"]
       ELSE call' = [call EXCEPT ![g].pc = Done(g)] /\ UNCHANGED <<declared, exchanges>>
    /\ UNCHANGED <<provider, factories, bus, conn, chan, faults, deleted, queue, accepted, routed,
                   received>>

\* What goes over the wire: AMQP properties and headers, or for NSQ
\* EncodeMessagePayload unless Publish was called with bytes.
EncodeMessagePayload(m) == [enveloped |-> ~m.raw, uuid |-> m.uuid, meta |-> m.meta]

\* DecodeMessagePayload, and the broker's own id where the message has none.
DecodeMessagePayload(w) ==
    [uuid |-> IF w.enveloped /\ w.uuid # "" THEN w.uuid ELSE "broker",
     meta |-> IF w.enveloped THEN w.meta ELSE "none"]

\* The publish itself.  RabbitMQ does not confirm it: to an exchange that does
\* not exist it returns nil, the message is gone and the broker closes the
\* channel.
Send(g) ==
    LET c == call[g]
    IN  /\ c.pc = "send"
        /\ call' = [call EXCEPT ![g].pc = Done(g)]
        /\ IF ~chan THEN UNCHANGED <<chan, queue, accepted, routed>>
           ELSE /\ accepted' = accepted \cup {<<g, c.left, c.topic>>}
                /\ IF Rabbit /\ c.topic \notin declared
                   THEN chan' = FALSE /\ UNCHANGED <<routed, queue>>
                   ELSE /\ routed' = routed \cup {<<g, c.left, c.topic>>}
                        /\ queue' = queue \cup {c.msg}
                        /\ UNCHANGED chan
        /\ UNCHANGED <<provider, factories, bus, conn, faults, deleted, declared, exchanges, mu,
                       received>>

-----------------------------------------------------------------------------
(* Handlers, faults, health and closing.                                    *)

\* The consumer's goroutine takes a message and calls the handler, also while
\* Close waits for it.
Take(h, m) ==
    /\ call[h].pc = "idle" /\ bus \in {"up", "closing publisher", "closing subscriber"}
    /\ "sub" \in conn /\ m \in queue
    /\ queue' = queue \ {m}
    /\ received' = received \cup {[sent |-> m, got |-> DecodeMessagePayload(EncodeMessagePayload(m))]}
    /\ call' = [call EXCEPT ![h].pc = "run"]
    /\ UNCHANGED <<provider, factories, bus, conn, chan, faults, deleted, declared, exchanges, mu,
                   accepted, routed>>

HandlerReturns(h) ==
    /\ call[h].pc = "run"
    /\ call' = [call EXCEPT ![h].pc = "idle"]
    /\ UNCHANGED <<provider, factories, bus, conn, chan, faults, deleted, pubVars>>

\* The channel or the connection of the publisher breaks, for ever with
\* RabbitMQ; somebody deletes an exchange.
PublisherBreaks ==
    /\ bus = "up" /\ chan /\ faults < MaxFaults
    /\ faults' = faults + 1 /\ chan' = FALSE
    /\ UNCHANGED <<provider, factories, bus, conn, call, deleted, pubVars>>

ProducerReconnects ==
    /\ ~Rabbit /\ bus = "up" /\ ~chan
    /\ chan' = TRUE
    /\ UNCHANGED <<provider, factories, bus, conn, call, faults, deleted, pubVars>>

ExchangeDeleted(t) ==
    /\ Rabbit /\ t \in declared /\ faults < MaxFaults
    /\ faults' = faults + 1 /\ declared' = declared \ {t} /\ deleted' = deleted \cup {t}
    /\ UNCHANGED <<provider, factories, bus, conn, chan, call, exchanges, mu, queue, accepted,
                   routed, received>>

\* Close: RabbitMQ closes the subscriber first, NSQ the publisher.
CloseOrder == IF Rabbit THEN <<"sub", "pub">> ELSE <<"pub", "sub">>

Closing(part) == IF part = "pub" THEN "closing publisher" ELSE "closing subscriber"

Close ==
    /\ bus = "up" /\ bus' = Closing(CloseOrder[1])
    /\ UNCHANGED <<provider, factories, conn, chan, call, faults, deleted, pubVars>>

\* The publisher's Close does not wait for calls under way; the subscriber's
\* waits for its handlers.
CloseStep ==
    /\ bus \in {"closing publisher", "closing subscriber"}
    /\ LET part == IF bus = "closing publisher" THEN "pub" ELSE "sub"
       IN  /\ part = "sub" => \A h \in Handlers : call[h].pc = "idle"
           /\ conn' = conn \ {part}
           /\ chan' = IF part = "pub" THEN FALSE ELSE chan
           /\ bus' = IF part = CloseOrder[1] THEN Closing(CloseOrder[2]) ELSE "closed"
    /\ UNCHANGED <<provider, factories, call, faults, deleted, pubVars>>

-----------------------------------------------------------------------------
BusInit ==
    /\ provider \in Providers /\ factories = {}
    /\ bus = "init" /\ conn = {} /\ chan = FALSE
    /\ declared = {} /\ exchanges = {} /\ mu = "none"
    /\ call = [g \in Callers |-> NoCall(MaxPublish)]
    /\ queue = {} /\ accepted = {} /\ routed = {} /\ received = {}
    /\ faults = 0 /\ deleted = {}

CallerStep(g) ==
    ReadExchanges(g) \/ LockExchanges(g) \/ ExchangeDeclare(g) \/ Send(g)

BusNext ==
    \/ \E p \in Imports : RegisterProvider(p)
    \/ NewPublisher \/ NewSubscriber \/ Close \/ CloseStep \/ PublisherBreaks \/ ProducerReconnects
    \/ \E t \in BusTopics : ExchangeDeleted(t)
    \/ \E g \in Callers : CallerStep(g) \/ \E t \in BusTopics, m \in Payloads : Publish(g, t, m)
    \/ \E h \in Handlers : HandlerReturns(h) \/ \E m \in queue : Take(h, m)

BusSpec == BusInit /\ [][BusNext]_ebVars

-----------------------------------------------------------------------------
(* Properties.                                                              *)

\* Every variable has its type, and at most one caller is in ensureExchange's
\* critical section.
BusTypeOK ==
    /\ conn \subseteq {"pub", "sub"} /\ exchanges \subseteq BusTopics /\ mu \in {"none"} \cup Callers
    /\ \A g \in Callers : call[g].pc \in {"idle", "check", "lock", "declare", "send", "run"}
                          /\ call[g].left \in 0..MaxPublish
    /\ \A g \in Callers : call[g].pc = "declare" => mu = g

\* A bus that could not be built, or that was closed, leaves no connection open.
NothingLeftOpen == bus \in {"failed", "closed"} => conn = {}

\* However callers interleave, a publish that returned nil reached its
\* exchange; only somebody deleting the exchange loses it (publisher.exchanges
\* is never forgotten).
AcceptedIsRouted == \A a \in accepted \ routed : a[3] \in deleted

\* The bus never breaks its own channel: without a fault from outside, the
\* publisher works until it is closed, and with RabbitMQ that is after every
\* handler has returned.
PublisherOutlivesHandlers ==
    (Rabbit /\ faults = 0 /\ \E h \in Handlers : call[h].pc # "idle") => chan

\* A handler sees the id and the metadata the message was published with, the
\* broker's id only if it had none, whatever broker carries it.
IdentitySurvives ==
    \A r \in received :
        /\ r.got.meta = r.sent.meta
        /\ r.got.uuid = IF r.sent.uuid # "" THEN r.sent.uuid ELSE "broker"

\* Close returns, though handlers publish while it waits for them.
CloseReturns == (bus \in {"closing publisher", "closing subscriber"}) ~> (bus = "closed")

\* What holds of the bus at every time: types and the lock, nothing left open,
\* accepted messages routed, the channel alive under handlers, identity kept.
BusInv ==
    /\ BusTypeOK /\ NothingLeftOpen /\ AcceptedIsRouted
    /\ PublisherOutlivesHandlers /\ IdentitySurvives
=============================================================================
